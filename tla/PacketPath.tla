----------------------------- MODULE PacketPath -----------------------------
(***************************************************************************)
(* A network monitor at work: packets pass its handlers on several CPUs,   *)
(* inspect_packet finds or makes the entry of a flow in the monitor's      *)
(* table and leaves a mark there, and a DUMP empties the table, reports    *)
(* every entry and frees it after a grace period.  The handlers' code is   *)
(* in PacketHandlers; the table is the radix tree of ping_delay.c,         *)
(* ping_delay6.c and drop_packet.c, and the red-black tree of              *)
(* tcp_retrans.c, which is only touched under its lock.                    *)
(*                                                                         *)
(* A mark is a time in ping_delay, a count in the others; n counts both.   *)
(* Handlers run under rcu_read_lock or with preemption off, as the network *)
(* stack and the probes see to.                                            *)
(***************************************************************************)
EXTENDS PacketHandlers, FiniteSets, Integers

CONSTANTS
  CPUs, Keys, Descs,    \* processors, flows, memory for entries
  None,                 \* no flow, no entry, no handler
  Tables,               \* the handlers in place, a table for each monitor
  Plain,                \* the handlers called after the first one
  MaxObj,               \* MAX_OBJ_COUNT, for the monitors in Limited
  Limited,
  MaxCalls, MaxDumps    \* bounds of the model

Steps == {"hdr", "read", "see", "seeany", "seeip", "check", "pull", "options", "demux",
          "redemux", "share", "l3", "defrag", "out", "sent", "dropped", "free", "send",
          "tally"}

\* Only tcp_retrans, whose table has no limit, counts under the lock of the table.
ASSUME PathAssumption ==
  /\ None \notin Keys \cup Descs /\ MaxObj \in Nat \ {0}
  /\ IsFiniteSet(CPUs) /\ IsFiniteSet(Keys)
  /\ \A t \in DOMAIN Tables : \A f \in DOMAIN Tables[t] :
       /\ f # None
       /\ {Tables[t][f].does, Tables[t][f].fails}
            \subseteq Seq(IF t \in Limited THEN Steps \ {"tally"} ELSE Steps)

VARIABLES
  table,   \* the handlers of the monitor in use
  cpu,     \* what each CPU is doing with a packet
  tree,    \* flow -> entry
  info,    \* the entries: where they are ("stray" where radix_tree_insert
           \* failed), their flow, the marks left on them
  obj,     \* obj_in_tree
  seen,    \* packets marked
  told,    \* marks reported
  late,    \* marks left on an entry after its report
  calls, dumps
vars == <<table, cpu, tree, info, obj, seen, told, late, calls, dumps>>

Idle == [f |-> None, rest |-> <<>>, pkt |-> "none", held |-> "none", ip |-> TRUE,
         key |-> None, desc |-> None, ret |-> "ok"]
Fresh == [at |-> "free", key |-> None, n |-> 0]

Init ==
  /\ table \in DOMAIN Tables
  /\ cpu = [c \in CPUs |-> Idle]
  /\ tree = [k \in Keys |-> None]
  /\ info = [d \in Descs |-> Fresh]
  /\ obj = 0 /\ seen = 0 /\ told = 0 /\ late = 0
  /\ calls = 0 /\ dumps = 0

limited == table \in Limited
Row(c) == Tables[table][cpu[c].f]
At(c, ops) == cpu[c].rest # <<>> /\ Head(cpu[c].rest) \in ops
Entries(where) == {d \in Descs : info[d].at = where}

\* The next step of a handler; its failure path.
Past(c) == [cpu[c] EXCEPT !.rest = Tail(@)]
Fail(c) == [cpu[c] EXCEPT !.rest = Row(c).fails]
\* Mutant: a packet that ip_defrag keeps is handed on all the same.
MutTaken(c) == [Past(c) EXCEPT !.pkt = "gone"]

\* The packet taken, the call over.
Taken(c) == [cpu[c] EXCEPT !.pkt = "gone", !.rest = <<>>]
\* The header moves: a pointer to it taken earlier outlives what it points to.
Moved(c) == [Past(c) EXCEPT !.held = IF @ = "none" THEN @ ELSE Head(cpu[c].rest)]

tableSame == UNCHANGED <<tree, info, obj, seen, told, late>>
inputSame == UNCHANGED <<table, calls, dumps>>
Goes(c, now) == cpu' = [cpu EXCEPT ![c] = now] /\ inputSame

-----------------------------------------------------------------------------
(* The packet's way *)

\* A packet arrives at a handler.  Below the IP layer it may be of another protocol:
\* then what is read as its ports is anything.
Call(c, f) ==
  /\ cpu[c].f = None /\ calls < MaxCalls
  /\ calls = 0 \/ f \in Plain
  /\ calls' = calls + 1 /\ UNCHANGED <<table, dumps>> /\ tableSame
  /\ \E k \in Keys \cup {None}, ip \in {TRUE, ~ Tables[table][f].link} :
        cpu' = [cpu EXCEPT ![c] =
          [Idle EXCEPT !.f = f, !.rest = Tables[table][f].does, !.pkt = "ours",
                       !.ip = ip, !.key = k]]

Header(c) == At(c, {"hdr"}) /\ Goes(c, [Past(c) EXCEPT !.held = "fresh"]) /\ tableSame

Read(c) == At(c, {"read"}) /\ Goes(c, Past(c)) /\ tableSame

Check(c) ==
  /\ At(c, {"check", "pull", "options"}) /\ tableSame
  /\ \/ Goes(c, Past(c))
     \/ Goes(c, Fail(c))
     \/ ~ At(c, {"check"}) /\ Goes(c, Moved(c))

Demux(c) ==
  /\ At(c, {"demux", "redemux"}) /\ tableSame
  /\ \/ Goes(c, Past(c))
     \/ Goes(c, IF At(c, {"demux"}) THEN Moved(c) ELSE [Past(c) EXCEPT !.held = "fresh"])

Take(c) ==
  /\ At(c, {"share", "l3", "defrag"}) /\ tableSame
  /\ \/ Goes(c, Taken(c))
     \/ Goes(c, Past(c))
     \/ At(c, {"defrag"}) /\ Goes(c, Moved(c))

Out(c) ==
  /\ At(c, {"out", "sent"}) /\ tableSame
  /\ \E r \in {"ok", "drop"} : Goes(c, [Past(c) EXCEPT !.pkt = "gone", !.ret = r])

Dropped(c) ==
  /\ At(c, {"dropped"}) /\ tableSame
  /\ Goes(c, IF cpu[c].ret = "drop" THEN Past(c) ELSE [cpu[c] EXCEPT !.rest = <<>>])

FreeSkb(c) == At(c, {"free"}) /\ Goes(c, [Past(c) EXCEPT !.pkt = "gone"]) /\ tableSame

\* diag___tcp_retransmit_skb goes on to the count whether the copy was sent or not.
Send(c) == At(c, {"send"}) /\ Goes(c, Past(c)) /\ tableSame

Return(c) ==
  cpu[c].f # None /\ cpu[c].rest = <<>> /\ Goes(c, Idle) /\ tableSame

-----------------------------------------------------------------------------
(* inspect_packet and find_alloc_desc *)

Inspects == {"see", "seeany", "seeip"}
Wanted(c) == cpu[c].key # None /\ (At(c, {"seeip"}) => cpu[c].ip)

Ignore(c) ==
  At(c, Inspects) /\ ~ Wanted(c) /\ Goes(c, Past(c)) /\ tableSame

Full == limited /\ ~ (MaxObj > obj)

\* radix_tree_lookup without the lock, then the limit, then kmalloc, which may fail.
Look(c) ==
  /\ At(c, Inspects) /\ Wanted(c) /\ cpu[c].desc = None
  /\ UNCHANGED <<tree, obj, seen, told, late>>
  /\ \/ /\ tree[cpu[c].key] # None
        /\ Goes(c, [cpu[c] EXCEPT !.desc = tree[cpu[c].key]]) /\ UNCHANGED info
     \/ /\ tree[cpu[c].key] = None
        /\ Goes(c, Past(c)) /\ UNCHANGED info
     \/ /\ tree[cpu[c].key] = None /\ ~ Full
        /\ \E d \in Entries("free") :
             /\ Goes(c, [cpu[c] EXCEPT !.desc = d])
             /\ info' = [info EXCEPT ![d] = [at |-> "made", key |-> cpu[c].key, n |-> 0]]

\* Mutant: no second look under the lock.
MutAdd(c) ==
  /\ cpu[c].desc # None /\ info[cpu[c].desc].at = "made"
  /\ UNCHANGED <<seen, told, late>>
  /\ tree' = [tree EXCEPT ![cpu[c].key] = cpu[c].desc]
  /\ info' = [info EXCEPT ![cpu[c].desc].at = "tree"]
  /\ obj' = IF limited THEN obj + 1 ELSE obj
  /\ Goes(c, cpu[c])

\* tree_lock: another CPU may have been first, and its entry is used.  What
\* radix_tree_insert returns is not looked at: an entry that it had no memory to put
\* into the tree is counted and used like the others.
Add(c) ==
  LET k == cpu[c].key  d == cpu[c].desc IN
  /\ d # None /\ info[d].at = "made"
  /\ UNCHANGED <<seen, told, late>>
  /\ IF tree[k] # None
     THEN /\ info' = [info EXCEPT ![d] = Fresh]
          /\ Goes(c, [cpu[c] EXCEPT !.desc = tree[k]])
          /\ UNCHANGED <<tree, obj>>
     ELSE /\ \E at \in {"tree", "stray"} :
               /\ info' = [info EXCEPT ![d].at = at]
               /\ tree' = IF at = "tree" THEN [tree EXCEPT ![k] = d] ELSE tree
          /\ obj' = IF limited THEN obj + 1 ELSE obj
          /\ Goes(c, cpu[c])

\* The mark, without a lock: a DUMP may have taken the entry, or reported it.
Stamp(c) ==
  LET d == cpu[c].desc IN
  /\ d # None /\ info[d].at # "made"
  /\ seen' = seen + 1
  /\ info' = [info EXCEPT ![d].n = @ + 1]
  /\ late' = IF info[d].at = "done" THEN late + 1 ELSE late
  /\ Goes(c, [Past(c) EXCEPT !.desc = None]) /\ UNCHANGED <<tree, obj, told>>

\* tcp_retrans.c: the look, the new entry and the count under one lock.
Tally(c) ==
  LET k == cpu[c].key IN
  /\ At(c, {"tally"}) /\ UNCHANGED <<obj, told, late>> /\ Goes(c, Past(c))
  /\ \/ k # None /\ tree[k] # None
        /\ info' = [info EXCEPT ![tree[k]].n = @ + 1] /\ seen' = seen + 1 /\ UNCHANGED tree
     \/ \E d \in Entries("free") :
          /\ k # None /\ tree[k] = None /\ tree' = [tree EXCEPT ![k] = d]
          /\ info' = [info EXCEPT ![d] = [at |-> "tree", key |-> k, n |-> 1]]
          /\ seen' = seen + 1
     \/ (k # None => tree[k] = None) /\ UNCHANGED <<tree, info, seen>>

-----------------------------------------------------------------------------
(* DUMP *)

Moves == [d \in Descs |-> [info[d] EXCEPT !.at = IF @ = "tree" THEN "list" ELSE @]]

\* Mutant: the count of the entries is not reset.
MutMoveKeepsObj ==
  /\ dumps < MaxDumps /\ dumps' = dumps + 1
  /\ tree' = [k \in Keys |-> None] /\ info' = Moves
  /\ UNCHANGED <<table, cpu, seen, told, late, calls, obj>>
move_to_list ==
  /\ dumps < MaxDumps /\ dumps' = dumps + 1
  /\ tree' = [k \in Keys |-> None] /\ info' = Moves /\ obj' = 0
  /\ UNCHANGED <<table, cpu, seen, told, late, calls>>

\* One record; from here on nobody looks at the entry again.
Report(d) ==
  /\ info[d].at = "list"
  /\ info' = [info EXCEPT ![d].at = "done"] /\ told' = told + info[d].n
  /\ UNCHANGED <<table, cpu, tree, obj, seen, late, calls, dumps>>

\* call_rcu, or in tcp_retrans.c kfree after synchronize_sched: a CPU that found the
\* entry in the tree has left its handler by then.
Reclaim(d) ==
  /\ info[d].at = "done" /\ \A c \in CPUs : cpu[c].desc # d
  /\ info' = [info EXCEPT ![d] = Fresh]
  /\ UNCHANGED <<table, cpu, tree, obj, seen, told, late, calls, dumps>>

Step(c) ==
  \/ \E f \in DOMAIN Tables[table] : Call(c, f)
  \/ Header(c) \/ Read(c) \/ Check(c) \/ Demux(c) \/ Take(c) \/ Out(c) \/ Dropped(c)
  \/ FreeSkb(c) \/ Send(c) \/ Return(c)
  \/ Ignore(c) \/ Look(c) \/ Add(c) \/ Stamp(c) \/ Tally(c)

Next ==
  \/ \E c \in CPUs : Step(c)
  \/ move_to_list
  \/ \E d \in Descs : Report(d) \/ Reclaim(d)

Spec == Init /\ [][Next]_vars

-----------------------------------------------------------------------------
\* The lines that read through a pointer from before the header could move, by what
\* moves it: ip_rcv_options (skb_cow), the early demultiplexing, ip_defrag,
\* pskb_trim_rcsum.
OldPointer == [
  options |-> {"pd_ip_rcv_finish_26", "pd_ip_rcv_finish_310", "pd_ip_rcv_finish_49",
               "pd_ip_rcv_finish_419", "dp_ip_rcv_finish_26", "dp_ip_rcv_finish_310",
               "dp_ip_rcv_finish_49"},
  demux |-> {"pd_ip_rcv_finish_419", "p6_ip6_rcv_finish_310", "p6_ip6_rcv_finish_49",
             "p6_ip6_rcv_finish_419"},
  defrag |-> {"pd_ip_local_deliver_26", "pd_ip_local_deliver_310",
              "pd_ip_local_deliver_49", "pd_ip_local_deliver_419",
              "dp_ip_local_deliver_49"},
  pull |-> {"dp_ip_rcv_310", "dp_ip_rcv_49"}]

\* The lines that look at a packet they no longer have: ping_delay's ip_rcv_finish
\* for 4.19 after its kfree_skb (ping_delay.c:559), every __netif_receive_skb once it
\* learns that the packet was dropped, net_dev_xmit after the driver took it.
LooksTooLate == {
  "pd_ip_rcv_finish_419", "pd_net_dev_xmit", "p6_net_dev_xmit", "dp_net_dev_xmit",
  "pd_netif_receive_skb_26", "pd_netif_receive_skb_310", "pd_netif_receive_skb_312",
  "pd_netif_receive_skb_410", "p6_netif_receive_skb_26", "p6_netif_receive_skb_312",
  "p6_netif_receive_skb_410", "dp_netif_receive_skb_26", "dp_netif_receive_skb_310",
  "dp_netif_receive_skb_312", "dp_netif_receive_skb_410"}

\* drop_packet's handlers below the IP layer that take any packet for an IP packet.
TakesAllForIp == {
  "dp_eth_type_trans", "dp_napi_gro_complete_26", "dp_napi_gro_complete_310",
  "dp_napi_gro_complete_312", "dp_napi_gro_complete_410", "dp_netif_receive_skb_26",
  "dp_netif_receive_skb_310", "dp_netif_receive_skb_312", "dp_netif_receive_skb_410",
  "dp_net_dev_start_xmit", "dp_net_dev_xmit"}

Looks(c) == At(c, Inspects \cup {"read"})

\* A handler looks at a packet only while it is the handler's: not after a free and
\* not after the packet was handed on, except for the lines listed above.
ReadsOwnPacket ==
  \A c \in CPUs : Looks(c) /\ cpu[c].f \notin LooksTooLate => cpu[c].pkt = "ours"

\* A header is read through a pointer that still points to it: whatever may move the
\* packet's data between is followed by a new ip_hdr, except in the handlers above.
ReadsCurrentHeader ==
  \A c \in CPUs, by \in DOMAIN OldPointer :
    At(c, {"see", "read"}) /\ cpu[c].held = by => cpu[c].f \in OldPointer[by]

\* An entry is only ever found or made for an IP packet: what comes by below the IP
\* layer is asked for its protocol first, except in the handlers listed above.
SeesOnlyIp ==
  \A c \in CPUs :
    At(c, Inspects) /\ Wanted(c) /\ cpu[c].f \notin TakesAllForIp => cpu[c].ip

\* A replaced function passes a packet on, frees it or leaves it to who keeps it, and
\* only once; a probe leaves the packet alone.
GivenOnce ==
  \A c \in CPUs :
    /\ At(c, {"out", "free"}) => cpu[c].pkt = "ours"
    /\ cpu[c].f # None /\ cpu[c].rest = <<>> /\ Row(c).gives => cpu[c].pkt = "gone"

\* The marks on the entries that a report will find, each with its number.
Due == Entries("list") \cup {d \in Descs : \E k \in Keys : tree[k] = d}
Marks == UNION {{d} \X (1..info[d].n) : d \in Due}

\* A packet whose entry did not get into the tree; the entry is never freed.
Unseen == {d \in Entries("stray") : info[d].n = 1}

\* Every packet marked is in a report, is going to be in one, was marked between the
\* report of its entry and the end of the grace period, or is the one packet whose
\* entry did not get into the tree: two CPUs that meet a new flow at once, or a DUMP
\* in between, lose nothing else.
Tallied == seen = told + late + Cardinality(Marks) + Cardinality(Unseen)

\* obj_in_tree is no less than the number of entries in the tree, and no more than
\* that and the failed inserts together; the check before kmalloc keeps it under the
\* limit but for the CPUs that pass it together.
LimitKept ==
  LET n == Cardinality({k \in Keys : tree[k] # None}) IN
  limited =>
    /\ n <= obj /\ obj <= n + Cardinality(Entries("stray"))
    /\ obj <= MaxObj + Cardinality(CPUs) - 1
=============================================================================
