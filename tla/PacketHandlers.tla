--------------------------- MODULE PacketHandlers ---------------------------
(***************************************************************************)
(* The code the network monitors put in a packet's way, one row for every  *)
(* handler and for every kernel version it is written for.  A tap is a     *)
(* probe that looks at a packet the kernel goes on with; a patch replaces  *)
(* a function of the kernel, so that it is answerable for the packet: it   *)
(* hands it on, frees it, or leaves it with who keeps it.                  *)
(***************************************************************************)
EXTENDS Sequences

(* What a handler does to the packet, in order, and where it goes when a   *)
(* step fails:                                                             *)
(*   "hdr"     takes a pointer to the IP header, "read" reads through it,  *)
(*   "see"     inspect_packet through that pointer, "seeany" through a     *)
(*             pointer taken on the spot, "seeip" the same after a look at *)
(*             the packet's protocol,                                      *)
(*   "check"   something that fails or not, "pull" the same and it may     *)
(*             move the header, "options" the same (ip_rcv_options),       *)
(*   "demux"   may move the header, "redemux" takes a new pointer after it,*)
(*   "share", "l3", "defrag"   may take the packet away, and the function  *)
(*             returns; ip_defrag may also give it a new header,           *)
(*   "out"     hands the packet on and learns how it went, "dropped" goes  *)
(*             on only if it was dropped, "sent" is the driver's           *)
(*             transmission, over when a tap runs,                         *)
(*   "free"    kfree_skb,                                                  *)
(*   "send"    sends a copy of a packet that stays in its socket's queue,  *)
(*   "tally"   counts for the connection under the lock of the table.      *)

\* A function of the kernel replaced.
Patch(does, fails) == [does |-> does, fails |-> fails, gives |-> TRUE, link |-> FALSE]
\* The same below the IP layer, where packets of every protocol come by.
LinkPatch(does, fails) == [Patch(does, fails) EXCEPT !.link = TRUE]
\* A packet that belongs to a socket's queue.
Queued(does) == [Patch(does, <<>>) EXCEPT !.gives = FALSE]

Tap == Queued(<<"seeany">>)
LinkTap == [Queued(<<"seeip">>) EXCEPT !.link = TRUE]
BlindTap == [Tap EXCEPT !.link = TRUE]
SentTap == [LinkTap EXCEPT !.does = <<"sent", "seeip">>]
BlindSentTap == [LinkTap EXCEPT !.does = <<"sent", "seeany">>]
Merge == LinkPatch(<<"check", "out">>, <<"seeip", "free">>)
BlindMerge == LinkPatch(<<"check", "out">>, <<"seeany", "free">>)
Receive == LinkPatch(<<"out", "dropped", "seeip">>, <<>>)
BlindReceive == LinkPatch(<<"out", "dropped", "seeany">>, <<>>)
Deliver == Patch(<<"hdr", "see", "defrag", "see", "out">>, <<>>)
SilentDeliver == Patch(<<"defrag", "out">>, <<>>)

\* Mutants: the protocol of a packet that cannot be merged is not looked at; the
\* header is not taken anew after the early demultiplexing; a packet that cannot be
\* merged is freed before it is looked at.
MutMerge == BlindMerge
MutDemux == Patch(<<"hdr", "see", "demux", "check", "options", "see", "out">>, <<"free">>)
MutMergeFrees == LinkPatch(<<"check", "out">>, <<"free", "seeip">>)

-----------------------------------------------------------------------------
\* ping_delay.c
pd_eth_type_trans == LinkTap
pd_napi_gro_receive == LinkTap
pd_napi_gro_complete_26 == Merge
pd_napi_gro_complete_310 == Merge
pd_napi_gro_complete_312 == Merge
pd_napi_gro_complete_410 == Merge
pd_napi_gro_complete_420 == Merge
pd_netif_receive_skb_26 == Receive
pd_netif_receive_skb_310 == Receive
pd_netif_receive_skb_312 == Receive
pd_netif_receive_skb_410 == Receive
pd_netif_receive_skb_core == LinkTap
pd_ip_rcv == Tap
pd_ip_rcv_finish_26 == Patch(<<"hdr", "see", "check", "options", "see", "out">>, <<"free">>)
pd_ip_rcv_finish_310 == Patch(<<"hdr", "see", "redemux", "check", "options", "see", "out">>, <<"free">>)
pd_ip_rcv_finish_49 == Patch(<<"hdr", "see", "l3", "redemux", "check", "options", "check", "see", "out">>,
  <<"free">>)
pd_ip_rcv_finish_419 == Patch(<<"hdr", "see", "l3", "demux", "check", "options", "check", "see", "out">>,
  <<"free", "see">>)
pd_ip_local_deliver_26 == Deliver
pd_ip_local_deliver_310 == Deliver
pd_ip_local_deliver_49 == Deliver
pd_ip_local_deliver_419 == Deliver
pd_icmp_rcv == Tap
pd_ip_send_skb == Tap
pd_dev_queue_xmit == LinkTap
pd_net_dev_start_xmit == LinkTap
pd_net_dev_xmit == SentTap

\* ping_delay6.c
p6_eth_type_trans == LinkTap
p6_napi_gro_receive == LinkTap
p6_napi_gro_complete_26 == Merge
p6_napi_gro_complete_312 == Merge
p6_napi_gro_complete_410 == Merge
p6_netif_receive_skb_26 == Receive
p6_netif_receive_skb_312 == Receive
p6_netif_receive_skb_410 == Receive
p6_netif_receive_skb_core == LinkTap
p6_ipv6_rcv == Tap
p6_ip6_rcv_finish_310 == Patch(<<"hdr", "see", "demux", "see", "out">>, <<>>)
p6_ip6_rcv_finish_49 == Patch(<<"hdr", "see", "l3", "demux", "see", "out">>, <<>>)
p6_ip6_rcv_finish_419 == p6_ip6_rcv_finish_49
p6_ip6_input == Tap
p6_icmpv6_rcv == Tap
p6_ip6_local_out_310 == Patch(<<"seeany", "out">>, <<>>)
p6_ip6_local_out_49 == Patch(<<"l3", "seeany", "out">>, <<>>)
p6_ip6_local_out_419 == p6_ip6_local_out_49
p6_dev_queue_xmit == LinkTap
p6_net_dev_start_xmit == LinkTap
p6_net_dev_xmit == SentTap

\* drop_packet.c
dp_eth_type_trans == BlindTap
dp_napi_gro_receive == LinkTap
dp_napi_gro_complete_26 == BlindMerge
dp_napi_gro_complete_310 == BlindMerge
dp_napi_gro_complete_312 == BlindMerge
dp_napi_gro_complete_410 == BlindMerge
dp_netif_receive_skb_26 == BlindReceive
dp_netif_receive_skb_310 == BlindReceive
dp_netif_receive_skb_312 == BlindReceive
dp_netif_receive_skb_410 == BlindReceive
dp_netif_receive_skb_core == LinkTap
dp_ip_rcv_26 == Patch(<<"check", "share", "pull", "hdr", "read", "check", "pull", "hdr", "read",
  "check", "pull", "out">>, <<"free">>)
dp_ip_rcv_310 == Patch(<<"check", "share", "pull", "hdr", "read", "check", "pull", "hdr", "read",
  "check", "pull", "read", "out">>, <<"free">>)
dp_ip_rcv_49 == dp_ip_rcv_310
dp_ip_rcv_finish_26 == Patch(<<"hdr", "check", "options", "see", "out">>, <<"free">>)
dp_ip_rcv_finish_310 == Patch(<<"hdr", "redemux", "check", "options", "see", "out">>, <<"free">>)
dp_ip_rcv_finish_49 == Patch(<<"hdr", "l3", "redemux", "check", "options", "check", "see", "out">>, <<"free">>)
dp_ip_local_deliver_26 == SilentDeliver
dp_ip_local_deliver_310 == SilentDeliver
dp_ip_local_deliver_49 == Deliver
dp_udp_rcv == LinkTap
dp_tcp_v4_rcv == LinkTap
dp_ip_send_skb_26 == Patch(<<"out">>, <<>>)
dp_ip_send_skb_310 == dp_ip_send_skb_26
dp_ip_send_skb_49 == dp_ip_send_skb_26
dp_net_dev_start_xmit == BlindTap
dp_net_dev_xmit == BlindSentTap

\* tcp_retrans.c
tr_tcp_rtx_synack_310 == Queued(<<"send", "tally">>)
tr_tcp_rtx_synack_49 == tr_tcp_rtx_synack_310
tr_tcp_retransmit_skb_310 == Queued(<<"check", "send", "tally">>)
tr_tcp_retransmit_skb_49 == tr_tcp_retransmit_skb_310
tr_retransmit_synack == Queued(<<"tally">>)
tr_retransmit_skb == tr_retransmit_synack

\* What each monitor has in place.
PingDelay == [
  pd_eth_type_trans |-> pd_eth_type_trans, pd_napi_gro_receive |-> pd_napi_gro_receive,
  pd_napi_gro_complete_26 |-> pd_napi_gro_complete_26,
  pd_napi_gro_complete_310 |-> pd_napi_gro_complete_310,
  pd_napi_gro_complete_312 |-> pd_napi_gro_complete_312,
  pd_napi_gro_complete_410 |-> pd_napi_gro_complete_410,
  pd_napi_gro_complete_420 |-> pd_napi_gro_complete_420,
  pd_netif_receive_skb_26 |-> pd_netif_receive_skb_26,
  pd_netif_receive_skb_310 |-> pd_netif_receive_skb_310,
  pd_netif_receive_skb_312 |-> pd_netif_receive_skb_312,
  pd_netif_receive_skb_410 |-> pd_netif_receive_skb_410,
  pd_netif_receive_skb_core |-> pd_netif_receive_skb_core, pd_ip_rcv |-> pd_ip_rcv,
  pd_ip_rcv_finish_26 |-> pd_ip_rcv_finish_26,
  pd_ip_rcv_finish_310 |-> pd_ip_rcv_finish_310,
  pd_ip_rcv_finish_49 |-> pd_ip_rcv_finish_49,
  pd_ip_rcv_finish_419 |-> pd_ip_rcv_finish_419,
  pd_ip_local_deliver_26 |-> pd_ip_local_deliver_26,
  pd_ip_local_deliver_310 |-> pd_ip_local_deliver_310,
  pd_ip_local_deliver_49 |-> pd_ip_local_deliver_49,
  pd_ip_local_deliver_419 |-> pd_ip_local_deliver_419, pd_icmp_rcv |-> pd_icmp_rcv,
  pd_ip_send_skb |-> pd_ip_send_skb, pd_dev_queue_xmit |-> pd_dev_queue_xmit,
  pd_net_dev_start_xmit |-> pd_net_dev_start_xmit, pd_net_dev_xmit |-> pd_net_dev_xmit]
PingDelay6 == [
  p6_eth_type_trans |-> p6_eth_type_trans, p6_napi_gro_receive |-> p6_napi_gro_receive,
  p6_napi_gro_complete_26 |-> p6_napi_gro_complete_26,
  p6_napi_gro_complete_312 |-> p6_napi_gro_complete_312,
  p6_napi_gro_complete_410 |-> p6_napi_gro_complete_410,
  p6_netif_receive_skb_26 |-> p6_netif_receive_skb_26,
  p6_netif_receive_skb_312 |-> p6_netif_receive_skb_312,
  p6_netif_receive_skb_410 |-> p6_netif_receive_skb_410,
  p6_netif_receive_skb_core |-> p6_netif_receive_skb_core, p6_ipv6_rcv |-> p6_ipv6_rcv,
  p6_ip6_rcv_finish_310 |-> p6_ip6_rcv_finish_310,
  p6_ip6_rcv_finish_49 |-> p6_ip6_rcv_finish_49,
  p6_ip6_rcv_finish_419 |-> p6_ip6_rcv_finish_419, p6_ip6_input |-> p6_ip6_input,
  p6_icmpv6_rcv |-> p6_icmpv6_rcv, p6_ip6_local_out_310 |-> p6_ip6_local_out_310,
  p6_ip6_local_out_49 |-> p6_ip6_local_out_49,
  p6_ip6_local_out_419 |-> p6_ip6_local_out_419,
  p6_dev_queue_xmit |-> p6_dev_queue_xmit,
  p6_net_dev_start_xmit |-> p6_net_dev_start_xmit, p6_net_dev_xmit |-> p6_net_dev_xmit]
DropPacket == [
  dp_eth_type_trans |-> dp_eth_type_trans, dp_napi_gro_receive |-> dp_napi_gro_receive,
  dp_napi_gro_complete_26 |-> dp_napi_gro_complete_26,
  dp_napi_gro_complete_310 |-> dp_napi_gro_complete_310,
  dp_napi_gro_complete_312 |-> dp_napi_gro_complete_312,
  dp_napi_gro_complete_410 |-> dp_napi_gro_complete_410,
  dp_netif_receive_skb_26 |-> dp_netif_receive_skb_26,
  dp_netif_receive_skb_310 |-> dp_netif_receive_skb_310,
  dp_netif_receive_skb_312 |-> dp_netif_receive_skb_312,
  dp_netif_receive_skb_410 |-> dp_netif_receive_skb_410,
  dp_netif_receive_skb_core |-> dp_netif_receive_skb_core,
  dp_ip_rcv_26 |-> dp_ip_rcv_26, dp_ip_rcv_310 |-> dp_ip_rcv_310,
  dp_ip_rcv_49 |-> dp_ip_rcv_49, dp_ip_rcv_finish_26 |-> dp_ip_rcv_finish_26,
  dp_ip_rcv_finish_310 |-> dp_ip_rcv_finish_310,
  dp_ip_rcv_finish_49 |-> dp_ip_rcv_finish_49,
  dp_ip_local_deliver_26 |-> dp_ip_local_deliver_26,
  dp_ip_local_deliver_310 |-> dp_ip_local_deliver_310,
  dp_ip_local_deliver_49 |-> dp_ip_local_deliver_49, dp_udp_rcv |-> dp_udp_rcv,
  dp_tcp_v4_rcv |-> dp_tcp_v4_rcv, dp_ip_send_skb_26 |-> dp_ip_send_skb_26,
  dp_ip_send_skb_310 |-> dp_ip_send_skb_310, dp_ip_send_skb_49 |-> dp_ip_send_skb_49,
  dp_net_dev_start_xmit |-> dp_net_dev_start_xmit, dp_net_dev_xmit |-> dp_net_dev_xmit]
TcpRetrans == [
  tr_tcp_rtx_synack_310 |-> tr_tcp_rtx_synack_310,
  tr_tcp_rtx_synack_49 |-> tr_tcp_rtx_synack_49,
  tr_tcp_retransmit_skb_310 |-> tr_tcp_retransmit_skb_310,
  tr_tcp_retransmit_skb_49 |-> tr_tcp_retransmit_skb_49,
  tr_retransmit_synack |-> tr_retransmit_synack, tr_retransmit_skb |-> tr_retransmit_skb]
=============================================================================
