---------------------------- MODULE MCPacketPath ----------------------------
EXTENDS PacketPath, TLC

CONSTANTS c1, c2, k1, k2, k3, d1, d2, d3

\* Every handler there is, by monitor.
mcTables == [ping_delay |-> PingDelay, ping_delay6 |-> PingDelay6,
             drop_packet |-> DropPacket, tcp_retrans |-> TcpRetrans]
mcLimited == {"ping_delay", "ping_delay6"}
mcPlain == {"pd_icmp_rcv", "p6_icmpv6_rcv", "dp_udp_rcv", "tr_retransmit_skb"}
mcSymmetry ==
  Permutations({c1, c2}) \cup Permutations({k1, k2, k3}) \cup Permutations({d1, d2, d3})
=============================================================================
