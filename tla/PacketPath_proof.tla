-------------------------- MODULE PacketPath_proof --------------------------
(***************************************************************************)
(* Proofs about PacketPath, for all CPUs, flows and limits: the table of a *)
(* monitor is sound whatever CPUs and DUMPs do to it at once, it stays     *)
(* within its limit, and the handlers of the code do to a packet what they *)
(* may, in order.                                                          *)
(***************************************************************************)
EXTENDS PacketPath, FiniteSetTheorems, TLAPS

USE PathAssumption

-----------------------------------------------------------------------------
(* Types, and who uses which entry.                                        *)

Does == IF table \in Limited THEN Steps \ {"tally"} ELSE Steps

\* What a CPU is doing.
Good(r) ==
  /\ DOMAIN r = {"f", "rest", "pkt", "held", "ip", "key", "desc", "ret"}
  /\ r.f \in DOMAIN Tables[table] \cup {None} /\ r.rest \in Seq(Does)
  /\ r.key \in Keys \cup {None} /\ r.desc \in Descs \cup {None}
  /\ r.f = None => r.rest = <<>>

Entry == [at : {"free", "made", "tree", "stray", "list", "done"}, key : Keys \cup {None}, n : Nat]

TypeInv ==
  /\ table \in DOMAIN Tables
  /\ DOMAIN cpu = CPUs /\ \A c \in CPUs : Good(cpu[c])
  /\ tree \in [Keys -> Descs \cup {None}]
  /\ info \in [Descs -> Entry]
  /\ obj \in Nat

Making == {c \in CPUs : cpu[c].desc # None /\ info[cpu[c].desc].at = "made"}
Filled == {k \in Keys : tree[k] # None}
Strays == Entries("stray")

\* An entry in the tree is there once, under its flow.  A new entry belongs to one CPU,
\* as does one that did not get into the tree, and no CPU uses a freed one.
TableInv ==
  /\ \A k \in Keys : tree[k] # None => info[tree[k]].at = "tree" /\ info[tree[k]].key = k
  /\ \A d \in Descs : info[d].at = "tree" => info[d].key \in Keys /\ tree[info[d].key] = d
  /\ \A c \in CPUs : cpu[c].desc # None =>
       /\ At(c, Inspects) /\ Wanted(c)
       /\ info[cpu[c].desc].at # "free" /\ info[cpu[c].desc].key = cpu[c].key
  /\ \A c, e \in CPUs :
       c # e /\ cpu[c].desc # None /\ info[cpu[c].desc].at \in {"made", "stray"} =>
         cpu[e].desc # cpu[c].desc

\* The CPUs that are about to add an entry are counted as if they had done so.
LimitInv ==
  /\ IsFiniteSet(Strays)
  /\ limited => /\ Cardinality(Filled) <= obj
                /\ obj <= Cardinality(Filled) + Cardinality(Strays)
                /\ obj + Cardinality(Making) <= MaxObj + Cardinality(CPUs) - 1

IInv == TypeInv /\ TableInv /\ LimitInv

LEMMA InvInit == Init => IInv
<1> SUFFICES ASSUME Init PROVE IInv
  OBVIOUS
<1>1. TypeInv
  <2>1. Good(Idle)
    BY DEF Init, Good, Idle
  <2> QED BY <2>1 DEF Init, TypeInv, Fresh, Entry
<1>2. TableInv
  BY DEF Init, TableInv, Idle, Fresh
<1>3. Filled = {} /\ Making = {} /\ Strays = {} /\ Cardinality(CPUs) \in Nat
  BY FS_CardinalityType DEF Init, Filled, Making, Strays, Entries, Idle, Fresh
<1>4. LimitInv
  BY <1>3, FS_EmptySet DEF Init, LimitInv
<1> QED BY <1>1, <1>2, <1>4 DEF IInv

\* The sets are finite, and no more CPUs add than there are.
LEMMA Counts ==
  ASSUME TypeInv, LimitInv
  PROVE  /\ IsFiniteSet(Filled) /\ Cardinality(Filled) \in Nat
         /\ IsFiniteSet(Making) /\ Cardinality(Making) \in Nat
         /\ IsFiniteSet(Strays) /\ Cardinality(Strays) \in Nat
         /\ Cardinality(CPUs) \in Nat /\ Cardinality(Making) <= Cardinality(CPUs)
<1>1. Filled \subseteq Keys /\ Making \subseteq CPUs
  BY DEF Filled, Making
<1>2. IsFiniteSet(Strays)
  BY DEF LimitInv
<1> QED BY <1>1, <1>2, FS_Subset, FS_CardinalityType

-----------------------------------------------------------------------------
(* The packet's way leaves the table alone.                                *)

Passes(c) ==
  \/ Header(c) \/ Read(c) \/ Check(c) \/ Demux(c) \/ Take(c) \/ Out(c) \/ Dropped(c)
  \/ FreeSkb(c) \/ Send(c) \/ Return(c) \/ Ignore(c) \/ \E f \in DOMAIN Tables[table] : Call(c, f)

\* A step of the packet's way is taken by a CPU without an entry, and it has none after.
LEMMA PassesBy ==
  ASSUME TypeInv, TableInv, NEW c \in CPUs, Passes(c)
  PROVE  /\ cpu[c].desc = None /\ tableSame /\ table' = table
         /\ \E r : Good(r) /\ r.desc = None /\ cpu' = [cpu EXCEPT ![c] = r]
<1> USE DEF Goes, inputSame
<1>1. Good(cpu[c])
  BY DEF TypeInv
<1>2. cpu[c].desc # None => At(c, Inspects) /\ Wanted(c)
  BY DEF TableInv
<1>3. Good(Idle) /\ Idle.desc = None
  BY DEF Idle, Good
<1>4. cpu[c].desc = None
  <2>1. CASE Header(c) \/ Read(c) \/ Check(c) \/ Demux(c) \/ Take(c)
    BY <1>2, <2>1 DEF Header, Read, Check, Demux, Take, At, Inspects
  <2>2. CASE Out(c) \/ Dropped(c) \/ FreeSkb(c) \/ Send(c) \/ Ignore(c)
    BY <1>2, <2>2 DEF Out, Dropped, FreeSkb, Send, Ignore, At, Inspects
  <2>3. CASE Return(c)
    BY <1>2, <2>3 DEF Return, At
  <2>4. CASE \E f \in DOMAIN Tables[table] : Call(c, f)
    BY <1>1, <1>2, <2>4 DEF Call, At, Good
  <2> QED BY <2>1, <2>2, <2>3, <2>4 DEF Passes
<1>5. ASSUME cpu[c].rest # <<>>
      PROVE  /\ Tail(cpu[c].rest) \in Seq(Does) /\ Row(c).fails \in Seq(Does)
             /\ cpu[c].f # None /\ <<>> \in Seq(Does)
  <2>1. cpu[c].f \in DOMAIN Tables[table] /\ table \in DOMAIN Tables
    BY <1>1, <1>5 DEF Good, TypeInv
  <2>2. Row(c).fails \in Seq(Does)
    BY <2>1 DEF Row, Does
  <2> QED BY <1>1, <1>5, <2>1, <2>2 DEF Good
\* The forms a step can give to what the CPU is doing.
<1>6. ASSUME cpu[c].rest # <<>>, NEW s \in Seq(Does)
      PROVE  /\ Good([cpu[c] EXCEPT !.rest = s]) /\ [cpu[c] EXCEPT !.rest = s].desc = None
             /\ DOMAIN [cpu[c] EXCEPT !.rest = s] = DOMAIN cpu[c]
             /\ [cpu[c] EXCEPT !.rest = s].f = cpu[c].f
  BY <1>1, <1>4, <1>5, <1>6 DEF Good
<1>7. ASSUME NEW q, Good(q), q.desc = None, NEW x
      PROVE  /\ Good([q EXCEPT !.pkt = x]) /\ [q EXCEPT !.pkt = x].desc = None
             /\ Good([q EXCEPT !.held = x]) /\ [q EXCEPT !.held = x].desc = None
             /\ Good([q EXCEPT !.ret = x]) /\ [q EXCEPT !.ret = x].desc = None
  BY <1>7 DEF Good
<1>8. tableSame /\ table' = table
  BY DEF Passes, Header, Read, Check, Demux, Take, Out, Dropped, FreeSkb, Send, Return, Ignore, Call
<1>9. \E r : Good(r) /\ r.desc = None /\ cpu' = [cpu EXCEPT ![c] = r]
  <2> DEFINE N(r) == Good(r) /\ r.desc = None
  <2>1. ASSUME cpu[c].rest # <<>> PROVE N(Past(c)) /\ N(Fail(c)) /\ N([cpu[c] EXCEPT !.rest = <<>>])
    BY <1>5, <1>6, <2>1 DEF Past, Fail
  <2>2. ASSUME cpu[c].rest # <<>> PROVE N(Moved(c))
    BY <1>7, <2>1, <2>2 DEF Moved
  <2>3. ASSUME cpu[c].rest # <<>> PROVE N(Taken(c))
    BY <1>1, <1>4, <1>5, <2>3 DEF Taken, Good
  <2>4. ASSUME cpu[c].rest # <<>>, NEW x PROVE N([Past(c) EXCEPT !.pkt = "gone", !.ret = x])
    BY <2>1, <2>4 DEF Good
  <2>5. CASE Header(c)
    BY <2>1, <2>5, <1>7 DEF Header, At
  <2>6. CASE Read(c) \/ Send(c) \/ Ignore(c)
    BY <2>1, <2>6 DEF Read, Send, Ignore, At
  <2>7. CASE Check(c)
    BY <2>1, <2>2, <2>7 DEF Check, At
  <2>8. CASE Demux(c)
    BY <2>1, <2>2, <1>7, <2>8 DEF Demux, At
  <2>9. CASE Take(c)
    BY <2>1, <2>2, <2>3, <2>9 DEF Take, At
  <2>10. CASE Out(c)
    BY <2>4, <2>10 DEF Out, At
  <2>11. CASE Dropped(c)
    BY <2>1, <2>11 DEF Dropped, At
  <2>12. CASE FreeSkb(c)
    BY <2>1, <1>7, <2>12 DEF FreeSkb, At
  <2>13. CASE Return(c)
    BY <1>3, <2>13 DEF Return
  <2>14. CASE \E f \in DOMAIN Tables[table] : Call(c, f)
    <3>1. PICK f \in DOMAIN Tables[table] : Call(c, f)
      BY <2>14
    <3>2. PICK k \in Keys \cup {None}, ip \in {TRUE, ~ Tables[table][f].link} :
            cpu' = [cpu EXCEPT ![c] = [Idle EXCEPT !.f = f, !.rest = Tables[table][f].does,
                                                  !.pkt = "ours", !.ip = ip, !.key = k]]
      BY <3>1 DEF Call
    <3>3. Tables[table][f].does \in Seq(Does) /\ f # None
      BY DEF TypeInv, Does
    <3>4. N([Idle EXCEPT !.f = f, !.rest = Tables[table][f].does,
                         !.pkt = "ours", !.ip = ip, !.key = k])
      BY <1>3, <3>3 DEF Good
    <3> QED BY <3>2, <3>4
  <2> QED BY <2>5, <2>6, <2>7, <2>8, <2>9, <2>10, <2>11, <2>12, <2>13, <2>14 DEF Passes
<1> QED BY <1>4, <1>8, <1>9

LEMMA PassesKeeps ==
  ASSUME IInv, NEW c \in CPUs, Passes(c)
  PROVE  IInv'
<1> USE DEF IInv
<1>1. /\ cpu[c].desc = None /\ tableSame /\ table' = table
      /\ \E r : Good(r) /\ r.desc = None /\ cpu' = [cpu EXCEPT ![c] = r]
  BY PassesBy
<1>2. TypeInv'
  BY <1>1 DEF TypeInv, Good, Does, tableSame
<1>3. \A e \in CPUs : cpu'[e].desc = cpu[e].desc /\ (cpu[e].desc # None => cpu'[e] = cpu[e])
  BY <1>1 DEF TypeInv
<1>4. TableInv'
  BY <1>1, <1>3 DEF TableInv, tableSame, At, Wanted
<1>5. Making' = Making /\ Filled' = Filled /\ Strays' = Strays
  BY <1>1, <1>3 DEF Making, Filled, Strays, Entries, tableSame
<1> QED BY <1>1, <1>2, <1>4, <1>5 DEF LimitInv, limited, tableSame

\* What is known of a CPU does not depend on the entries.
LEMMA TypeStays ==
  ASSUME TypeInv, table' = table, NEW c, NEW r, Good(r), cpu' = cpu \/ cpu' = [cpu EXCEPT ![c] = r],
         tree' \in [Keys -> Descs \cup {None}], info' \in [Descs -> Entry], obj' \in Nat
  PROVE  TypeInv'
BY DEF TypeInv, Good, Does

\* Entries change one at a time.
LEMMA EntryChanges ==
  ASSUME TypeInv, NEW d \in Descs
  PROVE  /\ \A e \in Entry : [info EXCEPT ![d] = e] \in [Descs -> Entry]
         /\ [info EXCEPT ![d].n = @ + 1] \in [Descs -> Entry]
         /\ \A w \in {"tree", "stray", "done"} : [info EXCEPT ![d].at = w] \in [Descs -> Entry]
         /\ Fresh \in Entry
         /\ \A k \in Keys : /\ [at |-> "made", key |-> k, n |-> 0] \in Entry
                            /\ [at |-> "tree", key |-> k, n |-> 1] \in Entry
BY SMTT(30) DEF TypeInv, Entry, Fresh

-----------------------------------------------------------------------------
(* inspect_packet and DUMP.                                                *)

LEMMA LookKeeps ==
  ASSUME IInv, NEW c \in CPUs, Look(c)
  PROVE  IInv'
<1> USE DEF IInv, Goes, inputSame
<1>1. /\ Good(cpu[c]) /\ At(c, Inspects) /\ Wanted(c) /\ cpu[c].desc = None
      /\ cpu[c].key \in Keys /\ cpu[c].rest # <<>> /\ table' = table
  BY DEF Look, TypeInv, Good, Wanted, At
<1>2. Good(Past(c)) /\ Past(c).desc = None
  BY <1>1 DEF Past, Good, At
<1>3. ASSUME NEW d \in Descs
      PROVE  LET r == [cpu[c] EXCEPT !.desc = d]
             IN  /\ Good(r) /\ r.desc = d /\ r.rest = cpu[c].rest /\ r.key = cpu[c].key
                 /\ r.ip = cpu[c].ip
  BY <1>1, <1>3 DEF Good
<1>4. CASE cpu' = [cpu EXCEPT ![c] = Past(c)] /\ UNCHANGED <<info, tree, obj>>
  <2>1. TypeInv'
    BY <1>1, <1>2, <1>4 DEF TypeInv, Good, Does
  <2>2. TableInv'
    BY <1>1, <1>2, <1>4 DEF TableInv, TypeInv, At, Wanted
  <2>3. Making' = Making /\ Filled' = Filled /\ Strays' = Strays
    BY <1>1, <1>2, <1>4 DEF Making, Filled, Strays, Entries, TypeInv
  <2> QED BY <1>1, <1>4, <2>1, <2>2, <2>3 DEF LimitInv, limited
<1>5. CASE /\ tree[cpu[c].key] # None /\ UNCHANGED <<info, tree, obj>>
           /\ cpu' = [cpu EXCEPT ![c] = [cpu[c] EXCEPT !.desc = tree[cpu[c].key]]]
  <2>1. tree[cpu[c].key] \in Descs
    BY <1>1, <1>5 DEF TypeInv
  <2>2. TypeInv'
    BY <1>1, <1>3, <1>5, <2>1 DEF TypeInv, Good, Does
  <2>3. TableInv'
    BY <1>1, <1>3, <1>5, <2>1 DEF TableInv, TypeInv, At, Wanted
  <2>4. Making' = Making /\ Filled' = Filled /\ Strays' = Strays
    BY <1>1, <1>3, <1>5, <2>1 DEF Making, Filled, Strays, Entries, TypeInv, TableInv
  <2> QED BY <1>1, <1>5, <2>2, <2>3, <2>4 DEF LimitInv, limited
<1>6. CASE \E d \in Entries("free") :
             /\ ~Full /\ UNCHANGED <<tree, obj>>
             /\ cpu' = [cpu EXCEPT ![c] = [cpu[c] EXCEPT !.desc = d]]
             /\ info' = [info EXCEPT ![d] = [at |-> "made", key |-> cpu[c].key, n |-> 0]]
  <2>1. PICK d \in Entries("free") :
             /\ ~Full /\ UNCHANGED <<tree, obj>>
             /\ cpu' = [cpu EXCEPT ![c] = [cpu[c] EXCEPT !.desc = d]]
             /\ info' = [info EXCEPT ![d] = [at |-> "made", key |-> cpu[c].key, n |-> 0]]
    BY <1>6
  <2>2. d \in Descs /\ info[d].at = "free" /\ d # None
    BY DEF Entries
  <2>3. TypeInv'
    <3>1. tree' \in [Keys -> Descs \cup {None}] /\ obj' \in Nat
      BY <2>1 DEF TypeInv
    <3>2. info' \in [Descs -> Entry]
      BY <1>1, <2>1, <2>2, EntryChanges
    <3> QED BY <1>1, <1>3, <2>1, <2>2, <3>1, <3>2, TypeStays
  <2>4. TableInv'
    BY <1>1, <1>3, <2>1, <2>2 DEF TableInv, TypeInv, At, Wanted
  <2>5. /\ Making' = Making \cup {c} /\ c \notin Making
        /\ Filled' = Filled /\ Strays' = Strays
    BY <1>1, <1>3, <2>1, <2>2 DEF Making, Filled, Strays, Entries, TypeInv, TableInv
  <2>6. limited => obj < MaxObj
    BY <2>1 DEF Full, TypeInv
  <2>7. Cardinality(Making') = Cardinality(Making) + 1
    BY <2>5, Counts, FS_AddElement
  <2>8. Cardinality(Making') <= Cardinality(CPUs)
    <3>1. Making' \subseteq CPUs
      BY <2>5 DEF Making
    <3> QED BY <3>1, FS_Subset
  <2>9. LimitInv'
    BY <1>1, <2>1, <2>5, <2>6, <2>7, <2>8, Counts DEF LimitInv, limited, TypeInv
  <2> QED BY <2>3, <2>4, <2>9
<1> QED BY <1>4, <1>5, <1>6 DEF Look

\* The entry that a CPU has made is in the table, or belongs to that CPU alone, or
\* another CPU's is in the table and it is freed.
LEMMA AddKeeps ==
  ASSUME IInv, NEW c \in CPUs, Add(c)
  PROVE  IInv'
<1> USE DEF IInv, Goes, inputSame
<1> DEFINE k == cpu[c].key
           d == cpu[c].desc
<1>1. /\ Good(cpu[c]) /\ d \in Descs /\ d # None /\ info[d].at = "made" /\ info[d].key = k
      /\ k \in Keys /\ At(c, Inspects) /\ Wanted(c) /\ table' = table
  BY DEF Add, TypeInv, TableInv, Good, Wanted
<1>2. c \in Making /\ \A e \in CPUs \ {c} : cpu[e].desc # d
  BY <1>1 DEF Making, TableInv
<1>3. \A j \in Keys : tree[j] # d
  BY <1>1 DEF TableInv
<1>4. Cardinality(Making \ {c}) = Cardinality(Making) - 1
  BY <1>2, Counts, FS_RemoveElement
<1>5. CASE tree[k] # None
  <2>1. /\ info' = [info EXCEPT ![d] = Fresh] /\ UNCHANGED <<tree, obj>>
        /\ cpu' = [cpu EXCEPT ![c] = [cpu[c] EXCEPT !.desc = tree[k]]]
    BY <1>5 DEF Add
  <2>2. tree[k] \in Descs /\ info[tree[k]].at = "tree" /\ info[tree[k]].key = k
    BY <1>1, <1>5 DEF TypeInv, TableInv
  <2>3. LET r == [cpu[c] EXCEPT !.desc = tree[k]]
        IN  /\ Good(r) /\ r.desc = tree[k] /\ r.rest = cpu[c].rest /\ r.key = cpu[c].key
            /\ r.ip = cpu[c].ip
    BY <1>1, <2>2 DEF Good
  <2>4. TypeInv'
    <3>1. tree' \in [Keys -> Descs \cup {None}] /\ obj' \in Nat
      BY <2>1 DEF TypeInv
    <3>2. info' \in [Descs -> Entry]
      BY <1>1, <2>1, EntryChanges
    <3> QED BY <1>1, <2>1, <2>3, <3>1, <3>2, TypeStays
  <2>5. TableInv'
    <3>1. /\ \A e \in Descs \ {d} : info'[e] = info[e]
          /\ info'[d].at = "free" /\ tree[k] # d /\ tree' = tree
      BY <1>1, <1>3, <2>1 DEF TypeInv, Fresh
    <3>2. /\ \A e \in CPUs \ {c} : cpu'[e] = cpu[e]
          /\ cpu'[c].desc = tree[k] /\ cpu'[c].key = k
          /\ cpu'[c].rest = cpu[c].rest /\ cpu'[c].ip = cpu[c].ip
      BY <1>1, <2>1, <2>3 DEF TypeInv
    <3>3. /\ \A j \in Keys : tree[j] \in Descs \cup {None}
          /\ \A e \in CPUs : cpu[e].desc \in Descs \cup {None}
          /\ None \notin Descs
      BY DEF TypeInv, Good
    <3>4. \A j \in Keys : tree'[j] # None => info'[tree'[j]].at = "tree" /\ info'[tree'[j]].key = j
      BY <1>3, <3>1, <3>3 DEF TableInv
    <3>5. \A e \in Descs : info'[e].at = "tree" => info'[e].key \in Keys /\ tree'[info'[e].key] = e
      BY <3>1 DEF TableInv
    <3>6. \A e \in CPUs : cpu'[e].desc # None =>
            /\ At(e, Inspects)' /\ Wanted(e)'
            /\ info'[cpu'[e].desc].at # "free" /\ info'[cpu'[e].desc].key = cpu'[e].key
      <4>1. ASSUME NEW e \in CPUs \ {c}, cpu'[e].desc # None
            PROVE  /\ At(e, Inspects)' /\ Wanted(e)'
                   /\ info'[cpu'[e].desc].at # "free" /\ info'[cpu'[e].desc].key = cpu'[e].key
        BY <1>1, <1>2, <3>1, <3>2, <3>3, <4>1 DEF TableInv, At, Wanted
      <4>2. At(c, Inspects)' /\ Wanted(c)'
        BY <1>1, <3>2 DEF At, Wanted
      <4> QED BY <2>2, <3>1, <3>2, <4>1, <4>2
    <3>7. \A e, g \in CPUs :
            e # g /\ cpu'[e].desc # None /\ info'[cpu'[e].desc].at \in {"made", "stray"} =>
              cpu'[g].desc # cpu'[e].desc
      BY <1>2, <2>2, <3>1, <3>2, <3>3 DEF TableInv
    <3> QED BY <3>4, <3>5, <3>6, <3>7 DEF TableInv
  <2>6. Making' = Making \ {c} /\ Filled' = Filled /\ Strays' = Strays
    BY <1>1, <1>2, <1>3, <2>1, <2>2, <2>3 DEF Making, Filled, Strays, Entries, TypeInv, Fresh
  <2> QED BY <1>1, <1>4, <2>1, <2>4, <2>5, <2>6, Counts DEF LimitInv, limited, TypeInv
<1>6. CASE tree[k] = None
  <2>1. PICK at \in {"tree", "stray"} :
          /\ info' = [info EXCEPT ![d].at = at]
          /\ tree' = IF at = "tree" THEN [tree EXCEPT ![k] = d] ELSE tree
    BY <1>6 DEF Add
  <2>2. obj' = (IF limited THEN obj + 1 ELSE obj) /\ cpu' = [cpu EXCEPT ![c] = cpu[c]]
    BY <1>6 DEF Add
  <2>3. \A e \in CPUs : cpu'[e] = cpu[e]
    BY <2>2 DEF TypeInv
  <2>4. TypeInv'
    <3>1. tree' \in [Keys -> Descs \cup {None}] /\ obj' \in Nat
      BY <1>1, <2>1, <2>2 DEF TypeInv
    <3> QED BY <1>1, <2>1, <2>2, <3>1, TypeStays, EntryChanges
  <2>5. TableInv'
    <3>1. CASE at = "tree"
      BY <1>1, <1>2, <1>3, <1>6, <2>1, <2>3, <3>1 DEF TableInv, TypeInv, At, Wanted
    <3>2. CASE at = "stray"
      BY <1>1, <1>2, <1>3, <1>6, <2>1, <2>3, <3>2 DEF TableInv, TypeInv, At, Wanted
    <3> QED BY <3>1, <3>2
  <2>6. Making' = Making \ {c}
    BY <1>1, <1>2, <2>1, <2>3 DEF Making, TypeInv
  <2>7. CASE at = "tree"
    <3>1. Filled' = Filled \cup {k} /\ k \notin Filled /\ Strays' = Strays
      BY <1>1, <1>6, <2>1, <2>7 DEF Filled, Strays, Entries, TypeInv
    <3>2. Cardinality(Filled') = Cardinality(Filled) + 1
      BY <3>1, Counts, FS_AddElement
    <3> QED BY SMTT(30), <1>1, <1>4, <2>2, <2>4, <2>5, <2>6, <3>1, <3>2, Counts DEF LimitInv, limited, TypeInv
  <2>8. CASE at = "stray"
    <3>1. Strays' = Strays \cup {d} /\ d \notin Strays /\ Filled' = Filled
      BY <1>1, <2>1, <2>8 DEF Filled, Strays, Entries, TypeInv
    <3>2. IsFiniteSet(Strays') /\ Cardinality(Strays') = Cardinality(Strays) + 1
      BY <3>1, Counts, FS_AddElement
    <3> QED BY <1>1, <1>4, <2>2, <2>4, <2>5, <2>6, <3>1, <3>2, Counts DEF LimitInv, limited, TypeInv
  <2> QED BY <2>7, <2>8
<1> QED BY <1>5, <1>6

LEMMA StampKeeps ==
  ASSUME IInv, NEW c \in CPUs, Stamp(c)
  PROVE  IInv'
<1> USE DEF IInv, Goes, inputSame
<1> DEFINE d == cpu[c].desc
<1>1. /\ Good(cpu[c]) /\ d \in Descs /\ cpu[c].rest # <<>> /\ info[d].at # "made"
      /\ table' = table /\ UNCHANGED <<tree, obj>>
      /\ info' = [info EXCEPT ![d].n = @ + 1]
      /\ cpu' = [cpu EXCEPT ![c] = [Past(c) EXCEPT !.desc = None]]
  BY DEF Stamp, TypeInv, TableInv, Good, At
<1>2. Good([Past(c) EXCEPT !.desc = None]) /\ [Past(c) EXCEPT !.desc = None].desc = None
  <2>1. cpu[c].f # None
    BY <1>1 DEF Good
  <2> QED BY <1>1, <2>1 DEF Past, Good
<1>3. TypeInv'
  <2>1. tree' \in [Keys -> Descs \cup {None}] /\ obj' \in Nat
    BY <1>1 DEF TypeInv
  <2> QED BY <1>1, <1>2, <2>1, TypeStays, EntryChanges
<1>4. TableInv'
  BY <1>1, <1>2 DEF TableInv, TypeInv, At, Wanted
<1>5. Making' = Making /\ Filled' = Filled /\ Strays' = Strays
  BY <1>1, <1>2 DEF Making, Filled, Strays, Entries, TypeInv
<1> QED BY <1>1, <1>3, <1>4, <1>5 DEF LimitInv, limited

LEMMA TallyKeeps ==
  ASSUME IInv, NEW c \in CPUs, Tally(c)
  PROVE  IInv'
<1> USE DEF IInv, Goes, inputSame
<1>1. /\ Good(cpu[c]) /\ cpu[c].rest # <<>> /\ Head(cpu[c].rest) = "tally" /\ table' = table
      /\ obj' = obj /\ cpu' = [cpu EXCEPT ![c] = Past(c)]
  BY DEF Tally, TypeInv, At
<1>2. cpu[c].desc = None
  BY <1>1 DEF TableInv, At, Inspects
<1>3. Good(Past(c)) /\ Past(c).desc = None
  <2>1. cpu[c].f # None
    BY <1>1 DEF Good
  <2> QED BY <1>1, <1>2, <2>1 DEF Past, Good
<1>4. ~limited
  <2>1. "tally" \in Does
    BY <1>1 DEF Good
  <2> QED BY <2>1 DEF Does, limited
<1>5. CASE UNCHANGED <<tree, info>>
  BY <1>1, <1>2, <1>3, <1>4, <1>5
     DEF TypeInv, TableInv, LimitInv, Strays, Entries, limited, Good, Does, At, Wanted
<1>6. CASE \E k \in Keys : tree[k] # None /\ info' = [info EXCEPT ![tree[k]].n = @ + 1] /\ UNCHANGED tree
  <2>1. PICK d \in Descs : info' = [info EXCEPT ![d].n = @ + 1]
    BY <1>6 DEF TypeInv
  <2>2. TypeInv'
    <3>1. tree' \in [Keys -> Descs \cup {None}] /\ obj' \in Nat
      BY <1>1, <1>6 DEF TypeInv
    <3> QED BY <1>1, <1>3, <2>1, <3>1, TypeStays, EntryChanges
  <2>3. TableInv'
    BY <1>1, <1>2, <1>3, <1>6, <2>1 DEF TypeInv, TableInv, At, Wanted
  <2>4. Strays' = Strays
    BY <2>1 DEF Strays, Entries, TypeInv
  <2> QED BY <1>1, <1>4, <2>2, <2>3, <2>4 DEF LimitInv, limited
<1>7. CASE \E k \in Keys, d \in Entries("free") :
             /\ tree[k] = None /\ tree' = [tree EXCEPT ![k] = d]
             /\ info' = [info EXCEPT ![d] = [at |-> "tree", key |-> k, n |-> 1]]
  <2>1. PICK k \in Keys, d \in Entries("free") :
             /\ tree[k] = None /\ tree' = [tree EXCEPT ![k] = d]
             /\ info' = [info EXCEPT ![d] = [at |-> "tree", key |-> k, n |-> 1]]
    BY <1>7
  <2>2. d \in Descs /\ info[d].at = "free"
    BY DEF Entries
  <2>3. TypeInv'
    <3>1. tree' \in [Keys -> Descs \cup {None}] /\ obj' \in Nat
      BY <1>1, <2>1, <2>2 DEF TypeInv
    <3>2. info' \in [Descs -> Entry]
      BY <2>1, <2>2, EntryChanges
    <3> QED BY <1>1, <1>3, <3>1, <3>2, TypeStays
  <2>4. TableInv'
    BY <1>1, <1>2, <1>3, <2>1, <2>2 DEF TypeInv, TableInv, At, Wanted
  <2>5. Strays' = Strays
    BY <2>1, <2>2 DEF Strays, Entries, TypeInv
  <2> QED BY <1>1, <1>4, <2>3, <2>4, <2>5 DEF LimitInv, limited
<1>8. cpu[c].key \in Keys \cup {None}
  BY <1>1 DEF Good
<1> QED BY <1>5, <1>6, <1>7, <1>8 DEF Tally

LEMMA DumpKeeps ==
  ASSUME IInv, move_to_list \/ \E d \in Descs : Report(d) \/ Reclaim(d)
  PROVE  IInv'
<1> USE DEF IInv
<1>1. table' = table /\ cpu' = cpu
  BY DEF move_to_list, Report, Reclaim
<1>2. CASE move_to_list
  <2>1. tree' = [k \in Keys |-> None] /\ info' = Moves /\ obj' = 0
    BY <1>2 DEF move_to_list
  <2>2. TypeInv'
    <3>1. tree' \in [Keys -> Descs \cup {None}] /\ obj' \in Nat
      BY <2>1
    <3>2. info' \in [Descs -> Entry]
      BY <2>1 DEF Moves, TypeInv, Entry
    <3> QED BY <1>1, <3>1, <3>2 DEF TypeInv, Good, Does
  <2>3. \A d \in Descs : /\ info'[d].at = "made" <=> info[d].at = "made"
                         /\ info'[d].at = "free" <=> info[d].at = "free"
                         /\ info'[d].at = "stray" <=> info[d].at = "stray"
                         /\ info'[d].key = info[d].key /\ info'[d].at # "tree"
    BY <2>1 DEF Moves, TypeInv, Entry
  <2>4. \A c \in CPUs : cpu[c].desc \in Descs \cup {None}
    BY DEF TypeInv, Good
  <2>5. TableInv'
    BY <1>1, <2>1, <2>3, <2>4 DEF TableInv, At, Wanted
  <2>6. Making' = Making /\ Filled' = {} /\ Strays' = Strays
    BY <1>1, <2>1, <2>3, <2>4 DEF Making, Filled, Strays, Entries
  <2>7. Cardinality(Filled') = 0
    BY <2>6, FS_EmptySet
  <2> QED BY <1>1, <2>1, <2>2, <2>5, <2>6, <2>7, Counts DEF LimitInv, limited
<1>3. ASSUME NEW d \in Descs, Report(d) \/ Reclaim(d)
      PROVE  IInv'
  <2>1. UNCHANGED <<tree, obj>> /\ info[d].at \in {"list", "done"}
    BY <1>3 DEF Report, Reclaim
  <2>2. \/ info' = [info EXCEPT ![d].at = "done"]
        \/ info' = [info EXCEPT ![d] = Fresh] /\ \A c \in CPUs : cpu[c].desc # d
    BY <1>3 DEF Report, Reclaim
  <2>3. TypeInv'
    <3>1. tree' \in [Keys -> Descs \cup {None}] /\ obj' \in Nat
      BY <2>1 DEF TypeInv
    <3>2. info' \in [Descs -> Entry]
      <4>1. [info EXCEPT ![d].at = "done"] \in [Descs -> Entry]
        BY EntryChanges
      <4>2. [info EXCEPT ![d] = Fresh] \in [Descs -> Entry]
        BY EntryChanges
      <4> QED BY <2>2, <4>1, <4>2
    <3> QED BY <1>1, <3>1, <3>2 DEF TypeInv, Good, Does
  <2>4. \A c \in CPUs : cpu[c].desc \in Descs \cup {None}
    BY DEF TypeInv, Good
  <2>5. /\ \A e \in Descs \ {d} : info'[e] = info[e]
        /\ info'[d].at \in {"done", "free"}
        /\ \A c \in CPUs : cpu[c].desc = d => info'[d].at # "free" /\ info'[d].key = info[d].key
    BY <2>2 DEF TypeInv, Entry, Fresh
  <2>6. TableInv'
    BY <1>1, <2>1, <2>4, <2>5 DEF TableInv, TypeInv, At, Wanted
  <2>7. Making' = Making /\ Filled' = Filled /\ Strays' = Strays
    BY <1>1, <2>1, <2>4, <2>5 DEF Making, Filled, Strays, Entries
  <2> QED BY <1>1, <2>1, <2>3, <2>6, <2>7 DEF LimitInv, limited
<1> QED BY <1>2, <1>3

LEMMA InvNext == IInv /\ [Next]_vars => IInv'
<1> SUFFICES ASSUME IInv, [Next]_vars PROVE IInv'
  OBVIOUS
<1>1. CASE \E c \in CPUs : Step(c)
  BY <1>1, PassesKeeps, LookKeeps, AddKeeps, StampKeeps, TallyKeeps DEF Step, Passes
<1>2. CASE move_to_list \/ \E d \in Descs : Report(d) \/ Reclaim(d)
  BY <1>2, DumpKeeps
<1>3. CASE UNCHANGED vars
  BY <1>3 DEF vars, IInv, TypeInv, TableInv, LimitInv, Good, Does, At, Wanted, Making, Filled,
              Strays, Entries, limited
<1> QED BY <1>1, <1>2, <1>3 DEF Next

-----------------------------------------------------------------------------
(* The way of a packet, as the rows of the handlers tell it.               *)

Gives == {"out", "sent", "free"}
Fallible == {"check", "pull", "options"}
Movers == {"options", "demux", "defrag", "pull"}

\* What may still come when the packet is no longer the handler's.
Late(f, step) ==
  /\ step \notin {"out", "free"} \cup Fallible
  /\ f \notin LooksTooLate => step \notin Inspects \cup {"read"}

\* Steps that read through the pointer which the handler has when they begin.
ReadsFirst(s) ==
  \E j \in DOMAIN s : s[j] \in {"see", "read"} /\ \A i \in DOMAIN s : i < j => s[i] # "hdr"

\* A list of steps in order: nothing is asked of a packet that is given away, and no
\* header is read that may have moved, but by the handlers that do so.
InOrder(f, link, s) ==
  /\ \A i, j \in DOMAIN s : i < j /\ s[i] \in Gives => Late(f, s[j])
  /\ \A by \in Movers, i, j \in DOMAIN s :
       i < j /\ s[i] = by /\ s[j] \in {"see", "read"} /\ f \notin OldPointer[by] =>
         \E k \in DOMAIN s : i < k /\ k < j /\ s[k] = "hdr"
  /\ link /\ f \notin TakesAllForIp => \A j \in DOMAIN s : s[j] \notin {"see", "seeany"}

\* A list of steps that gives the packet away, if it is for this function to do so.
Whole(gives, s) ==
  /\ \A j \in DOMAIN s : s[j] = "dropped" => \E i \in DOMAIN s : i < j /\ s[i] \in Gives
  /\ gives => \E i \in DOMAIN s : s[i] \in Gives

Among(r, step) ==
  (\E i \in DOMAIN r.does : r.does[i] = step) \/ \E i \in DOMAIN r.fails : r.fails[i] = step

RowOK(f, r) ==
  /\ r.link \in BOOLEAN /\ r.gives \in BOOLEAN
  /\ InOrder(f, r.link, r.does) /\ InOrder(f, r.link, r.fails)
  /\ Whole(r.gives, r.does)
  /\ (\E x \in Fallible : Among(r, x)) => Whole(r.gives, r.fails)
  /\ \A by \in Movers : Among(r, by) /\ f \notin OldPointer[by] => ~ReadsFirst(r.fails)

Is(r, does, fails, gives, link) ==
  r.does = does /\ r.fails = fails /\ r.gives = gives /\ r.link = link

\* A row is in order if its lists are, and if its failure path reads no header that
\* may have moved before.
LEMMA RowFrom ==
  ASSUME NEW f, NEW s, NEW t, NEW gives \in BOOLEAN, NEW link \in BOOLEAN,
         InOrder(f, link, s), InOrder(f, link, t), Whole(gives, s),
         Whole(gives, t) \/ \A x \in Fallible, i \in DOMAIN s : s[i] # x,
         \A x \in Fallible, i \in DOMAIN t : t[i] # x,
         ~ReadsFirst(t) \/ \A by \in Movers :
           \/ f \in OldPointer[by]
           \/ (\A i \in DOMAIN s : s[i] # by) /\ (\A i \in DOMAIN t : t[i] # by)
  PROVE  \A r : Is(r, s, t, gives, link) => RowOK(f, r)
BY DEF RowOK, Among, Is

\* The failure paths.
LEMMA FailureShapes ==
  \A f, link, gives, s :
    /\ s = <<>> =>
         InOrder(f, link, s) /\ ~ReadsFirst(s) /\ (gives = FALSE => Whole(gives, s))
    /\ s = <<"free">> => InOrder(f, link, s) /\ ~ReadsFirst(s) /\ Whole(gives, s)
    /\ s = <<"seeip", "free">> => InOrder(f, link, s) /\ ~ReadsFirst(s) /\ Whole(gives, s)
    /\ s = <<"seeany", "free">> =>
         (f \in TakesAllForIp => InOrder(f, link, s)) /\ ~ReadsFirst(s) /\ Whole(gives, s)
    /\ s = <<"free", "see">> =>
         (f \in LooksTooLate => InOrder(f, FALSE, s)) /\ Whole(gives, s)
<1> USE DEF InOrder, ReadsFirst, Whole, Gives, Late, Fallible, Inspects, Movers
<1> TAKE f, link, gives, s
<1>1. s = <<>> =>
        InOrder(f, link, s) /\ ~ReadsFirst(s) /\ (gives = FALSE => Whole(gives, s))
  OBVIOUS
<1>2. s = <<"free">> => InOrder(f, link, s) /\ ~ReadsFirst(s) /\ Whole(gives, s)
  OBVIOUS
<1>3. s = <<"seeip", "free">> => InOrder(f, link, s) /\ ~ReadsFirst(s) /\ Whole(gives, s)
  OBVIOUS
<1>4. s = <<"seeany", "free">> =>
        (f \in TakesAllForIp => InOrder(f, link, s)) /\ ~ReadsFirst(s) /\ Whole(gives, s)
  OBVIOUS
<1>5. s = <<"free", "see">> =>
        (f \in LooksTooLate => InOrder(f, FALSE, s)) /\ Whole(gives, s)
  OBVIOUS
<1> HIDE DEF InOrder, ReadsFirst, Whole
<1> QED BY <1>1, <1>2, <1>3, <1>4, <1>5

\* The longest lists, those of ip_rcv: a header that pskb_may_pull has moved is asked
\* for anew, but in the handlers that read on.
LEMMA Receiving ==
  \A f, s :
    /\ (/\ DOMAIN s = 1..12 /\ s[4] = "hdr" /\ s[8] = "hdr"
        /\ \A i \in 1..12 : /\ s[i] \in Gives => i = 12
                            /\ s[i] \in Movers => i \in {3, 7, 11}
                            /\ s[i] \in {"see", "read"} => i \in {5, 9})
       => InOrder(f, FALSE, s)
    /\ (/\ DOMAIN s = 1..13 /\ f \in OldPointer["pull"]
        /\ \A i \in 1..13 : /\ s[i] \in Gives => i = 13
                            /\ s[i] \in Movers => s[i] = "pull")
       => InOrder(f, FALSE, s)
<1> TAKE f, s
<1>1. ASSUME DOMAIN s = 1..12, s[4] = "hdr", s[8] = "hdr",
             \A i \in 1..12 : /\ s[i] \in Gives => i = 12
                              /\ s[i] \in Movers => i \in {3, 7, 11}
                              /\ s[i] \in {"see", "read"} => i \in {5, 9}
      PROVE  InOrder(f, FALSE, s)
  <2>1. \A i, j \in 1..12 : i < j => s[i] \notin Gives
    BY <1>1
  <2>2. ASSUME NEW i \in 1..12, NEW j \in 1..12, i < j, s[i] \in Movers, s[j] \in {"see", "read"}
        PROVE  \E k \in 1..12 : i < k /\ k < j /\ s[k] = "hdr"
    <3>1. i \in {3, 7, 11} /\ j \in {5, 9}
      BY <1>1, <2>2
    <3>2. CASE i = 3
      BY <1>1, <3>1, <3>2
    <3>3. CASE i = 7
      BY <1>1, <2>2, <3>1, <3>3
    <3>4. CASE i = 11
      BY <2>2, <3>1, <3>4
    <3> QED BY <3>1, <3>2, <3>3, <3>4
  <2> QED BY <1>1, <2>1, <2>2 DEF InOrder
<1>2. ASSUME DOMAIN s = 1..13, f \in OldPointer["pull"],
             \A i \in 1..13 : (s[i] \in Gives => i = 13) /\ (s[i] \in Movers => s[i] = "pull")
      PROVE  InOrder(f, FALSE, s)
  <2>1. \A i, j \in 1..13 : i < j => s[i] \notin Gives
    BY <1>2
  <2> QED BY <1>2, <2>1 DEF InOrder
<1> QED BY <1>1, <1>2

\* The rows, by what they do: each is in order for the handlers that the properties name.
LEMMA Shapes ==
  ASSUME NEW f
  PROVE
    /\ RowOK(f, Tap)
    /\ RowOK(f, LinkTap)
    /\ f \in TakesAllForIp => RowOK(f, BlindTap)
    /\ f \in LooksTooLate => RowOK(f, SentTap)
    /\ f \in LooksTooLate /\ f \in TakesAllForIp => RowOK(f, BlindSentTap)
    /\ RowOK(f, Merge)
    /\ f \in TakesAllForIp => RowOK(f, BlindMerge)
    /\ f \in LooksTooLate => RowOK(f, Receive)
    /\ f \in LooksTooLate /\ f \in TakesAllForIp => RowOK(f, BlindReceive)
    /\ f \in OldPointer["defrag"] => RowOK(f, Deliver)
    /\ RowOK(f, SilentDeliver)
    /\ f \in OldPointer["options"] => RowOK(f, pd_ip_rcv_finish_26)
    /\ f \in OldPointer["options"] => RowOK(f, pd_ip_rcv_finish_310)
    /\ f \in OldPointer["options"] => RowOK(f, pd_ip_rcv_finish_49)
    /\ f \in LooksTooLate /\ f \in OldPointer["options"] /\ f \in OldPointer["demux"] =>
          RowOK(f, pd_ip_rcv_finish_419)
    /\ f \in OldPointer["demux"] => RowOK(f, p6_ip6_rcv_finish_310)
    /\ f \in OldPointer["demux"] => RowOK(f, p6_ip6_rcv_finish_49)
    /\ RowOK(f, p6_ip6_local_out_310)
    /\ RowOK(f, p6_ip6_local_out_49)
    /\ RowOK(f, dp_ip_rcv_26)
    /\ f \in OldPointer["pull"] => RowOK(f, dp_ip_rcv_310)
    /\ f \in OldPointer["options"] => RowOK(f, dp_ip_rcv_finish_26)
    /\ f \in OldPointer["options"] => RowOK(f, dp_ip_rcv_finish_310)
    /\ f \in OldPointer["options"] => RowOK(f, dp_ip_rcv_finish_49)
    /\ RowOK(f, dp_ip_send_skb_26)
    /\ RowOK(f, tr_tcp_rtx_synack_310)
    /\ RowOK(f, tr_tcp_retransmit_skb_310)
    /\ RowOK(f, tr_retransmit_synack)
<1> USE FailureShapes DEF Fallible, Movers
<1>1. RowOK(f, Tap)
  <2> SUFFICES ASSUME NEW s, s = <<"seeany">>, NEW t, t = <<>>
               PROVE  RowOK(f, Tap)
    OBVIOUS
  <2>1. Is(Tap, s, t, FALSE, FALSE)
    BY DEF Is, Tap, Queued, Patch
  <2>2. InOrder(f, FALSE, s)
    BY DEF InOrder, Gives, Late, Inspects
  <2>3. Whole(FALSE, s)
    BY DEF Whole, Gives
  <2>4. InOrder(f, FALSE, t)
    OBVIOUS
  <2>5. \A x \in Fallible, i \in DOMAIN t : t[i] # x
    OBVIOUS
  <2>6. \A x \in Fallible, i \in DOMAIN s : s[i] # x
    OBVIOUS
  <2>7. ~ReadsFirst(t)
    OBVIOUS
  <2> QED BY <2>1, <2>2, <2>3, <2>4, <2>5, <2>6, <2>7, RowFrom
<1>2. RowOK(f, LinkTap)
  <2> SUFFICES ASSUME NEW s, s = <<"seeip">>, NEW t, t = <<>>
               PROVE  RowOK(f, LinkTap)
    OBVIOUS
  <2>1. Is(LinkTap, s, t, FALSE, TRUE)
    BY DEF Is, LinkTap, Queued, Patch
  <2>2. InOrder(f, TRUE, s)
    BY DEF InOrder, Gives, Late, Inspects
  <2>3. Whole(FALSE, s)
    BY DEF Whole, Gives
  <2>4. InOrder(f, TRUE, t)
    OBVIOUS
  <2>5. \A x \in Fallible, i \in DOMAIN t : t[i] # x
    OBVIOUS
  <2>6. \A x \in Fallible, i \in DOMAIN s : s[i] # x
    OBVIOUS
  <2>7. ~ReadsFirst(t)
    OBVIOUS
  <2> QED BY <2>1, <2>2, <2>3, <2>4, <2>5, <2>6, <2>7, RowFrom
<1>3. f \in TakesAllForIp => RowOK(f, BlindTap)
  <2> SUFFICES ASSUME f \in TakesAllForIp, NEW s, s = <<"seeany">>, NEW t, t = <<>>
               PROVE  RowOK(f, BlindTap)
    OBVIOUS
  <2>1. Is(BlindTap, s, t, FALSE, TRUE)
    BY DEF Is, BlindTap, Tap, Queued, Patch
  <2>2. InOrder(f, TRUE, s)
    BY DEF InOrder, Gives, Late, Inspects
  <2>3. Whole(FALSE, s)
    BY DEF Whole, Gives
  <2>4. InOrder(f, TRUE, t)
    OBVIOUS
  <2>5. \A x \in Fallible, i \in DOMAIN t : t[i] # x
    OBVIOUS
  <2>6. \A x \in Fallible, i \in DOMAIN s : s[i] # x
    OBVIOUS
  <2>7. ~ReadsFirst(t)
    OBVIOUS
  <2> QED BY <2>1, <2>2, <2>3, <2>4, <2>5, <2>6, <2>7, RowFrom
<1>4. f \in LooksTooLate => RowOK(f, SentTap)
  <2> SUFFICES ASSUME f \in LooksTooLate, NEW s, s = <<"sent", "seeip">>, NEW t, t = <<>>
               PROVE  RowOK(f, SentTap)
    OBVIOUS
  <2>1. Is(SentTap, s, t, FALSE, TRUE)
    BY DEF Is, SentTap, LinkTap, Queued, Patch
  <2>2. InOrder(f, TRUE, s)
    BY DEF InOrder, Gives, Late, Inspects
  <2>3. Whole(FALSE, s)
    BY DEF Whole, Gives
  <2>4. InOrder(f, TRUE, t)
    OBVIOUS
  <2>5. \A x \in Fallible, i \in DOMAIN t : t[i] # x
    OBVIOUS
  <2>6. \A x \in Fallible, i \in DOMAIN s : s[i] # x
    OBVIOUS
  <2>7. ~ReadsFirst(t)
    OBVIOUS
  <2> QED BY <2>1, <2>2, <2>3, <2>4, <2>5, <2>6, <2>7, RowFrom
<1>5. f \in LooksTooLate /\ f \in TakesAllForIp => RowOK(f, BlindSentTap)
  <2> SUFFICES ASSUME f \in LooksTooLate, f \in TakesAllForIp, NEW s, s = <<"sent", "seeany">>,
                      NEW t, t = <<>>
               PROVE  RowOK(f, BlindSentTap)
    OBVIOUS
  <2>1. Is(BlindSentTap, s, t, FALSE, TRUE)
    BY DEF Is, BlindSentTap, LinkTap, Queued, Patch
  <2>2. InOrder(f, TRUE, s)
    BY DEF InOrder, Gives, Late, Inspects
  <2>3. Whole(FALSE, s)
    BY DEF Whole, Gives
  <2>4. InOrder(f, TRUE, t)
    OBVIOUS
  <2>5. \A x \in Fallible, i \in DOMAIN t : t[i] # x
    OBVIOUS
  <2>6. \A x \in Fallible, i \in DOMAIN s : s[i] # x
    OBVIOUS
  <2>7. ~ReadsFirst(t)
    OBVIOUS
  <2> QED BY <2>1, <2>2, <2>3, <2>4, <2>5, <2>6, <2>7, RowFrom
<1>6. RowOK(f, Merge)
  <2> SUFFICES ASSUME NEW s, s = <<"check", "out">>, NEW t, t = <<"seeip", "free">>
               PROVE  RowOK(f, Merge)
    OBVIOUS
  <2>1. Is(Merge, s, t, TRUE, TRUE)
    BY DEF Is, Merge, LinkPatch, Patch
  <2>2. InOrder(f, TRUE, s)
    BY DEF InOrder, Gives, Late, Inspects
  <2>3. Whole(TRUE, s)
    BY DEF Whole, Gives
  <2>4. InOrder(f, TRUE, t)
    OBVIOUS
  <2>5. \A x \in Fallible, i \in DOMAIN t : t[i] # x
    OBVIOUS
  <2>6. Whole(TRUE, t)
    OBVIOUS
  <2>7. ~ReadsFirst(t)
    OBVIOUS
  <2> QED BY <2>1, <2>2, <2>3, <2>4, <2>5, <2>6, <2>7, RowFrom
<1>7. f \in TakesAllForIp => RowOK(f, BlindMerge)
  <2> SUFFICES ASSUME f \in TakesAllForIp, NEW s, s = <<"check", "out">>, NEW t, t = <<"seeany",
                      "free">>
               PROVE  RowOK(f, BlindMerge)
    OBVIOUS
  <2>1. Is(BlindMerge, s, t, TRUE, TRUE)
    BY DEF Is, BlindMerge, LinkPatch, Patch
  <2>2. InOrder(f, TRUE, s)
    BY DEF InOrder, Gives, Late, Inspects
  <2>3. Whole(TRUE, s)
    BY DEF Whole, Gives
  <2>4. InOrder(f, TRUE, t)
    OBVIOUS
  <2>5. \A x \in Fallible, i \in DOMAIN t : t[i] # x
    OBVIOUS
  <2>6. Whole(TRUE, t)
    OBVIOUS
  <2>7. ~ReadsFirst(t)
    OBVIOUS
  <2> QED BY <2>1, <2>2, <2>3, <2>4, <2>5, <2>6, <2>7, RowFrom
<1>8. f \in LooksTooLate => RowOK(f, Receive)
  <2> SUFFICES ASSUME f \in LooksTooLate, NEW s, s = <<"out", "dropped", "seeip">>, NEW t, t =
                      <<>>
               PROVE  RowOK(f, Receive)
    OBVIOUS
  <2>1. Is(Receive, s, t, TRUE, TRUE)
    BY DEF Is, Receive, LinkPatch, Patch
  <2>2. InOrder(f, TRUE, s)
    BY DEF InOrder, Gives, Late, Inspects
  <2>3. Whole(TRUE, s)
    BY DEF Whole, Gives
  <2>4. InOrder(f, TRUE, t)
    OBVIOUS
  <2>5. \A x \in Fallible, i \in DOMAIN t : t[i] # x
    OBVIOUS
  <2>6. \A x \in Fallible, i \in DOMAIN s : s[i] # x
    OBVIOUS
  <2>7. ~ReadsFirst(t)
    OBVIOUS
  <2> QED BY <2>1, <2>2, <2>3, <2>4, <2>5, <2>6, <2>7, RowFrom
<1>9. f \in LooksTooLate /\ f \in TakesAllForIp => RowOK(f, BlindReceive)
  <2> SUFFICES ASSUME f \in LooksTooLate, f \in TakesAllForIp, NEW s, s = <<"out", "dropped",
                      "seeany">>, NEW t, t = <<>>
               PROVE  RowOK(f, BlindReceive)
    OBVIOUS
  <2>1. Is(BlindReceive, s, t, TRUE, TRUE)
    BY DEF Is, BlindReceive, LinkPatch, Patch
  <2>2. InOrder(f, TRUE, s)
    BY DEF InOrder, Gives, Late, Inspects
  <2>3. Whole(TRUE, s)
    BY DEF Whole, Gives
  <2>4. InOrder(f, TRUE, t)
    OBVIOUS
  <2>5. \A x \in Fallible, i \in DOMAIN t : t[i] # x
    OBVIOUS
  <2>6. \A x \in Fallible, i \in DOMAIN s : s[i] # x
    OBVIOUS
  <2>7. ~ReadsFirst(t)
    OBVIOUS
  <2> QED BY <2>1, <2>2, <2>3, <2>4, <2>5, <2>6, <2>7, RowFrom
<1>10. f \in OldPointer["defrag"] => RowOK(f, Deliver)
  <2> SUFFICES ASSUME f \in OldPointer["defrag"], NEW s, s = <<"hdr", "see", "defrag", "see",
                      "out">>, NEW t, t = <<>>
               PROVE  RowOK(f, Deliver)
    OBVIOUS
  <2>1. Is(Deliver, s, t, TRUE, FALSE)
    BY DEF Is, Deliver, Patch
  <2>2. InOrder(f, FALSE, s)
    BY DEF InOrder, Gives, Late, Inspects
  <2>3. Whole(TRUE, s)
    BY DEF Whole, Gives
  <2>4. InOrder(f, FALSE, t)
    OBVIOUS
  <2>5. \A x \in Fallible, i \in DOMAIN t : t[i] # x
    OBVIOUS
  <2>6. \A x \in Fallible, i \in DOMAIN s : s[i] # x
    OBVIOUS
  <2>7. ~ReadsFirst(t)
    OBVIOUS
  <2> QED BY <2>1, <2>2, <2>3, <2>4, <2>5, <2>6, <2>7, RowFrom
<1>11. RowOK(f, SilentDeliver)
  <2> SUFFICES ASSUME NEW s, s = <<"defrag", "out">>, NEW t, t = <<>>
               PROVE  RowOK(f, SilentDeliver)
    OBVIOUS
  <2>1. Is(SilentDeliver, s, t, TRUE, FALSE)
    BY DEF Is, SilentDeliver, Patch
  <2>2. InOrder(f, FALSE, s)
    BY DEF InOrder, Gives, Late, Inspects
  <2>3. Whole(TRUE, s)
    BY DEF Whole, Gives
  <2>4. InOrder(f, FALSE, t)
    OBVIOUS
  <2>5. \A x \in Fallible, i \in DOMAIN t : t[i] # x
    OBVIOUS
  <2>6. \A x \in Fallible, i \in DOMAIN s : s[i] # x
    OBVIOUS
  <2>7. ~ReadsFirst(t)
    OBVIOUS
  <2> QED BY <2>1, <2>2, <2>3, <2>4, <2>5, <2>6, <2>7, RowFrom
<1>12. f \in OldPointer["options"] => RowOK(f, pd_ip_rcv_finish_26)
  <2> SUFFICES ASSUME f \in OldPointer["options"], NEW s, s = <<"hdr", "see", "check",
                      "options", "see", "out">>, NEW t, t = <<"free">>
               PROVE  RowOK(f, pd_ip_rcv_finish_26)
    OBVIOUS
  <2>1. Is(pd_ip_rcv_finish_26, s, t, TRUE, FALSE)
    BY DEF Is, pd_ip_rcv_finish_26, Patch
  <2>2. InOrder(f, FALSE, s)
    BY DEF InOrder, Gives, Late, Inspects
  <2>3. Whole(TRUE, s)
    BY DEF Whole, Gives
  <2>4. InOrder(f, FALSE, t)
    OBVIOUS
  <2>5. \A x \in Fallible, i \in DOMAIN t : t[i] # x
    OBVIOUS
  <2>6. Whole(TRUE, t)
    OBVIOUS
  <2>7. ~ReadsFirst(t)
    OBVIOUS
  <2> QED BY <2>1, <2>2, <2>3, <2>4, <2>5, <2>6, <2>7, RowFrom
<1>13. f \in OldPointer["options"] => RowOK(f, pd_ip_rcv_finish_310)
  <2> SUFFICES ASSUME f \in OldPointer["options"], NEW s, s = <<"hdr", "see", "redemux",
                      "check", "options", "see", "out">>, NEW t, t = <<"free">>
               PROVE  RowOK(f, pd_ip_rcv_finish_310)
    OBVIOUS
  <2>1. Is(pd_ip_rcv_finish_310, s, t, TRUE, FALSE)
    BY DEF Is, pd_ip_rcv_finish_310, Patch
  <2>2. InOrder(f, FALSE, s)
    BY DEF InOrder, Gives, Late, Inspects
  <2>3. Whole(TRUE, s)
    BY DEF Whole, Gives
  <2>4. InOrder(f, FALSE, t)
    OBVIOUS
  <2>5. \A x \in Fallible, i \in DOMAIN t : t[i] # x
    OBVIOUS
  <2>6. Whole(TRUE, t)
    OBVIOUS
  <2>7. ~ReadsFirst(t)
    OBVIOUS
  <2> QED BY <2>1, <2>2, <2>3, <2>4, <2>5, <2>6, <2>7, RowFrom
<1>14. f \in OldPointer["options"] => RowOK(f, pd_ip_rcv_finish_49)
  <2> SUFFICES ASSUME f \in OldPointer["options"], NEW s, s = <<"hdr", "see", "l3", "redemux",
                      "check", "options", "check", "see", "out">>, NEW t, t = <<"free">>
               PROVE  RowOK(f, pd_ip_rcv_finish_49)
    OBVIOUS
  <2>1. Is(pd_ip_rcv_finish_49, s, t, TRUE, FALSE)
    BY DEF Is, pd_ip_rcv_finish_49, Patch
  <2>2. InOrder(f, FALSE, s)
    BY DEF InOrder, Gives, Late, Inspects
  <2>3. Whole(TRUE, s)
    BY DEF Whole, Gives
  <2>4. InOrder(f, FALSE, t)
    OBVIOUS
  <2>5. \A x \in Fallible, i \in DOMAIN t : t[i] # x
    OBVIOUS
  <2>6. Whole(TRUE, t)
    OBVIOUS
  <2>7. ~ReadsFirst(t)
    OBVIOUS
  <2> QED BY <2>1, <2>2, <2>3, <2>4, <2>5, <2>6, <2>7, RowFrom
<1>15. f \in LooksTooLate /\ f \in OldPointer["options"] /\ f \in OldPointer["demux"] =>
          RowOK(f, pd_ip_rcv_finish_419)
  <2> SUFFICES ASSUME f \in LooksTooLate, f \in OldPointer["options"], f \in
                      OldPointer["demux"], NEW s, s = <<"hdr", "see", "l3", "demux", "check",
                      "options", "check", "see", "out">>, NEW t, t = <<"free", "see">>
               PROVE  RowOK(f, pd_ip_rcv_finish_419)
    OBVIOUS
  <2>1. Is(pd_ip_rcv_finish_419, s, t, TRUE, FALSE)
    BY DEF Is, pd_ip_rcv_finish_419, Patch
  <2>2. InOrder(f, FALSE, s)
    BY DEF InOrder, Gives, Late, Inspects
  <2>3. Whole(TRUE, s)
    BY DEF Whole, Gives
  <2>4. InOrder(f, FALSE, t)
    OBVIOUS
  <2>5. \A x \in Fallible, i \in DOMAIN t : t[i] # x
    OBVIOUS
  <2>6. Whole(TRUE, t)
    OBVIOUS
  <2>7. \A by \in Movers :
          \/ f \in OldPointer[by]
          \/ (\A i \in DOMAIN s : s[i] # by) /\ (\A i \in DOMAIN t : t[i] # by)
    OBVIOUS
  <2> QED BY <2>1, <2>2, <2>3, <2>4, <2>5, <2>6, <2>7, RowFrom
<1>16. f \in OldPointer["demux"] => RowOK(f, p6_ip6_rcv_finish_310)
  <2> SUFFICES ASSUME f \in OldPointer["demux"], NEW s, s = <<"hdr", "see", "demux", "see",
                      "out">>, NEW t, t = <<>>
               PROVE  RowOK(f, p6_ip6_rcv_finish_310)
    OBVIOUS
  <2>1. Is(p6_ip6_rcv_finish_310, s, t, TRUE, FALSE)
    BY DEF Is, p6_ip6_rcv_finish_310, Patch
  <2>2. InOrder(f, FALSE, s)
    BY DEF InOrder, Gives, Late, Inspects
  <2>3. Whole(TRUE, s)
    BY DEF Whole, Gives
  <2>4. InOrder(f, FALSE, t)
    OBVIOUS
  <2>5. \A x \in Fallible, i \in DOMAIN t : t[i] # x
    OBVIOUS
  <2>6. \A x \in Fallible, i \in DOMAIN s : s[i] # x
    OBVIOUS
  <2>7. ~ReadsFirst(t)
    OBVIOUS
  <2> QED BY <2>1, <2>2, <2>3, <2>4, <2>5, <2>6, <2>7, RowFrom
<1>17. f \in OldPointer["demux"] => RowOK(f, p6_ip6_rcv_finish_49)
  <2> SUFFICES ASSUME f \in OldPointer["demux"], NEW s, s = <<"hdr", "see", "l3", "demux",
                      "see", "out">>, NEW t, t = <<>>
               PROVE  RowOK(f, p6_ip6_rcv_finish_49)
    OBVIOUS
  <2>1. Is(p6_ip6_rcv_finish_49, s, t, TRUE, FALSE)
    BY DEF Is, p6_ip6_rcv_finish_49, Patch
  <2>2. InOrder(f, FALSE, s)
    BY DEF InOrder, Gives, Late, Inspects
  <2>3. Whole(TRUE, s)
    BY DEF Whole, Gives
  <2>4. InOrder(f, FALSE, t)
    OBVIOUS
  <2>5. \A x \in Fallible, i \in DOMAIN t : t[i] # x
    OBVIOUS
  <2>6. \A x \in Fallible, i \in DOMAIN s : s[i] # x
    OBVIOUS
  <2>7. ~ReadsFirst(t)
    OBVIOUS
  <2> QED BY <2>1, <2>2, <2>3, <2>4, <2>5, <2>6, <2>7, RowFrom
<1>18. RowOK(f, p6_ip6_local_out_310)
  <2> SUFFICES ASSUME NEW s, s = <<"seeany", "out">>, NEW t, t = <<>>
               PROVE  RowOK(f, p6_ip6_local_out_310)
    OBVIOUS
  <2>1. Is(p6_ip6_local_out_310, s, t, TRUE, FALSE)
    BY DEF Is, p6_ip6_local_out_310, Patch
  <2>2. InOrder(f, FALSE, s)
    BY DEF InOrder, Gives, Late, Inspects
  <2>3. Whole(TRUE, s)
    BY DEF Whole, Gives
  <2>4. InOrder(f, FALSE, t)
    OBVIOUS
  <2>5. \A x \in Fallible, i \in DOMAIN t : t[i] # x
    OBVIOUS
  <2>6. \A x \in Fallible, i \in DOMAIN s : s[i] # x
    OBVIOUS
  <2>7. ~ReadsFirst(t)
    OBVIOUS
  <2> QED BY <2>1, <2>2, <2>3, <2>4, <2>5, <2>6, <2>7, RowFrom
<1>19. RowOK(f, p6_ip6_local_out_49)
  <2> SUFFICES ASSUME NEW s, s = <<"l3", "seeany", "out">>, NEW t, t = <<>>
               PROVE  RowOK(f, p6_ip6_local_out_49)
    OBVIOUS
  <2>1. Is(p6_ip6_local_out_49, s, t, TRUE, FALSE)
    BY DEF Is, p6_ip6_local_out_49, Patch
  <2>2. InOrder(f, FALSE, s)
    BY DEF InOrder, Gives, Late, Inspects
  <2>3. Whole(TRUE, s)
    BY DEF Whole, Gives
  <2>4. InOrder(f, FALSE, t)
    OBVIOUS
  <2>5. \A x \in Fallible, i \in DOMAIN t : t[i] # x
    OBVIOUS
  <2>6. \A x \in Fallible, i \in DOMAIN s : s[i] # x
    OBVIOUS
  <2>7. ~ReadsFirst(t)
    OBVIOUS
  <2> QED BY <2>1, <2>2, <2>3, <2>4, <2>5, <2>6, <2>7, RowFrom
<1>20. RowOK(f, dp_ip_rcv_26)
  <2> SUFFICES ASSUME NEW s, s = <<"check", "share", "pull", "hdr", "read", "check", "pull",
                      "hdr", "read", "check", "pull", "out">>, NEW t, t = <<"free">>
               PROVE  RowOK(f, dp_ip_rcv_26)
    OBVIOUS
  <2>1. Is(dp_ip_rcv_26, s, t, TRUE, FALSE)
    BY DEF Is, dp_ip_rcv_26, Patch
  <2>2. InOrder(f, FALSE, s)
    <3>1. DOMAIN s = 1..12 /\ s[4] = "hdr" /\ s[8] = "hdr"
      OBVIOUS
    <3>2. \A i \in 1..12 : /\ s[i] \in Gives => i = 12
                           /\ s[i] \in Movers => i \in {3, 7, 11}
                           /\ s[i] \in {"see", "read"} => i \in {5, 9}
      BY DEF Gives
    <3> QED BY <3>1, <3>2, Receiving
  <2>3. Whole(TRUE, s)
    BY DEF Whole, Gives
  <2>4. InOrder(f, FALSE, t)
    OBVIOUS
  <2>5. \A x \in Fallible, i \in DOMAIN t : t[i] # x
    OBVIOUS
  <2>6. Whole(TRUE, t)
    OBVIOUS
  <2>7. ~ReadsFirst(t)
    OBVIOUS
  <2> QED BY <2>1, <2>2, <2>3, <2>4, <2>5, <2>6, <2>7, RowFrom
<1>21. f \in OldPointer["pull"] => RowOK(f, dp_ip_rcv_310)
  <2> SUFFICES ASSUME f \in OldPointer["pull"], NEW s, s = <<"check", "share", "pull", "hdr",
                      "read", "check", "pull", "hdr", "read", "check", "pull", "read", "out">>,
                      NEW t, t = <<"free">>
               PROVE  RowOK(f, dp_ip_rcv_310)
    OBVIOUS
  <2>1. Is(dp_ip_rcv_310, s, t, TRUE, FALSE)
    BY DEF Is, dp_ip_rcv_310, Patch
  <2>2. InOrder(f, FALSE, s)
    <3>1. DOMAIN s = 1..13
      OBVIOUS
    <3>2. \A i \in 1..13 : /\ s[i] \in Gives => i = 13
                           /\ s[i] \in Movers => s[i] = "pull"
      BY DEF Gives
    <3> QED BY <3>1, <3>2, Receiving
  <2>3. Whole(TRUE, s)
    BY DEF Whole, Gives
  <2>4. InOrder(f, FALSE, t)
    OBVIOUS
  <2>5. \A x \in Fallible, i \in DOMAIN t : t[i] # x
    OBVIOUS
  <2>6. Whole(TRUE, t)
    OBVIOUS
  <2>7. ~ReadsFirst(t)
    OBVIOUS
  <2> QED BY <2>1, <2>2, <2>3, <2>4, <2>5, <2>6, <2>7, RowFrom
<1>22. f \in OldPointer["options"] => RowOK(f, dp_ip_rcv_finish_26)
  <2> SUFFICES ASSUME f \in OldPointer["options"], NEW s, s = <<"hdr", "check", "options",
                      "see", "out">>, NEW t, t = <<"free">>
               PROVE  RowOK(f, dp_ip_rcv_finish_26)
    OBVIOUS
  <2>1. Is(dp_ip_rcv_finish_26, s, t, TRUE, FALSE)
    BY DEF Is, dp_ip_rcv_finish_26, Patch
  <2>2. InOrder(f, FALSE, s)
    BY DEF InOrder, Gives, Late, Inspects
  <2>3. Whole(TRUE, s)
    BY DEF Whole, Gives
  <2>4. InOrder(f, FALSE, t)
    OBVIOUS
  <2>5. \A x \in Fallible, i \in DOMAIN t : t[i] # x
    OBVIOUS
  <2>6. Whole(TRUE, t)
    OBVIOUS
  <2>7. ~ReadsFirst(t)
    OBVIOUS
  <2> QED BY <2>1, <2>2, <2>3, <2>4, <2>5, <2>6, <2>7, RowFrom
<1>23. f \in OldPointer["options"] => RowOK(f, dp_ip_rcv_finish_310)
  <2> SUFFICES ASSUME f \in OldPointer["options"], NEW s, s = <<"hdr", "redemux", "check",
                      "options", "see", "out">>, NEW t, t = <<"free">>
               PROVE  RowOK(f, dp_ip_rcv_finish_310)
    OBVIOUS
  <2>1. Is(dp_ip_rcv_finish_310, s, t, TRUE, FALSE)
    BY DEF Is, dp_ip_rcv_finish_310, Patch
  <2>2. InOrder(f, FALSE, s)
    BY DEF InOrder, Gives, Late, Inspects
  <2>3. Whole(TRUE, s)
    BY DEF Whole, Gives
  <2>4. InOrder(f, FALSE, t)
    OBVIOUS
  <2>5. \A x \in Fallible, i \in DOMAIN t : t[i] # x
    OBVIOUS
  <2>6. Whole(TRUE, t)
    OBVIOUS
  <2>7. ~ReadsFirst(t)
    OBVIOUS
  <2> QED BY <2>1, <2>2, <2>3, <2>4, <2>5, <2>6, <2>7, RowFrom
<1>24. f \in OldPointer["options"] => RowOK(f, dp_ip_rcv_finish_49)
  <2> SUFFICES ASSUME f \in OldPointer["options"], NEW s, s = <<"hdr", "l3", "redemux", "check",
                      "options", "check", "see", "out">>, NEW t, t = <<"free">>
               PROVE  RowOK(f, dp_ip_rcv_finish_49)
    OBVIOUS
  <2>1. Is(dp_ip_rcv_finish_49, s, t, TRUE, FALSE)
    BY DEF Is, dp_ip_rcv_finish_49, Patch
  <2>2. InOrder(f, FALSE, s)
    BY DEF InOrder, Gives, Late, Inspects
  <2>3. Whole(TRUE, s)
    BY DEF Whole, Gives
  <2>4. InOrder(f, FALSE, t)
    OBVIOUS
  <2>5. \A x \in Fallible, i \in DOMAIN t : t[i] # x
    OBVIOUS
  <2>6. Whole(TRUE, t)
    OBVIOUS
  <2>7. ~ReadsFirst(t)
    OBVIOUS
  <2> QED BY <2>1, <2>2, <2>3, <2>4, <2>5, <2>6, <2>7, RowFrom
<1>25. RowOK(f, dp_ip_send_skb_26)
  <2> SUFFICES ASSUME NEW s, s = <<"out">>, NEW t, t = <<>>
               PROVE  RowOK(f, dp_ip_send_skb_26)
    OBVIOUS
  <2>1. Is(dp_ip_send_skb_26, s, t, TRUE, FALSE)
    BY DEF Is, dp_ip_send_skb_26, Patch
  <2>2. InOrder(f, FALSE, s)
    BY DEF InOrder, Gives, Late, Inspects
  <2>3. Whole(TRUE, s)
    BY DEF Whole, Gives
  <2>4. InOrder(f, FALSE, t)
    OBVIOUS
  <2>5. \A x \in Fallible, i \in DOMAIN t : t[i] # x
    OBVIOUS
  <2>6. \A x \in Fallible, i \in DOMAIN s : s[i] # x
    OBVIOUS
  <2>7. ~ReadsFirst(t)
    OBVIOUS
  <2> QED BY <2>1, <2>2, <2>3, <2>4, <2>5, <2>6, <2>7, RowFrom
<1>26. RowOK(f, tr_tcp_rtx_synack_310)
  <2> SUFFICES ASSUME NEW s, s = <<"send", "tally">>, NEW t, t = <<>>
               PROVE  RowOK(f, tr_tcp_rtx_synack_310)
    OBVIOUS
  <2>1. Is(tr_tcp_rtx_synack_310, s, t, FALSE, FALSE)
    BY DEF Is, tr_tcp_rtx_synack_310, Queued, Patch
  <2>2. InOrder(f, FALSE, s)
    BY DEF InOrder, Gives, Late, Inspects
  <2>3. Whole(FALSE, s)
    BY DEF Whole, Gives
  <2>4. InOrder(f, FALSE, t)
    OBVIOUS
  <2>5. \A x \in Fallible, i \in DOMAIN t : t[i] # x
    OBVIOUS
  <2>6. \A x \in Fallible, i \in DOMAIN s : s[i] # x
    OBVIOUS
  <2>7. ~ReadsFirst(t)
    OBVIOUS
  <2> QED BY <2>1, <2>2, <2>3, <2>4, <2>5, <2>6, <2>7, RowFrom
<1>27. RowOK(f, tr_tcp_retransmit_skb_310)
  <2> SUFFICES ASSUME NEW s, s = <<"check", "send", "tally">>, NEW t, t = <<>>
               PROVE  RowOK(f, tr_tcp_retransmit_skb_310)
    OBVIOUS
  <2>1. Is(tr_tcp_retransmit_skb_310, s, t, FALSE, FALSE)
    BY DEF Is, tr_tcp_retransmit_skb_310, Queued, Patch
  <2>2. InOrder(f, FALSE, s)
    BY DEF InOrder, Gives, Late, Inspects
  <2>3. Whole(FALSE, s)
    BY DEF Whole, Gives
  <2>4. InOrder(f, FALSE, t)
    OBVIOUS
  <2>5. \A x \in Fallible, i \in DOMAIN t : t[i] # x
    OBVIOUS
  <2>6. Whole(FALSE, t)
    OBVIOUS
  <2>7. ~ReadsFirst(t)
    OBVIOUS
  <2> QED BY <2>1, <2>2, <2>3, <2>4, <2>5, <2>6, <2>7, RowFrom
<1>28. RowOK(f, tr_retransmit_synack)
  <2> SUFFICES ASSUME NEW s, s = <<"tally">>, NEW t, t = <<>>
               PROVE  RowOK(f, tr_retransmit_synack)
    OBVIOUS
  <2>1. Is(tr_retransmit_synack, s, t, FALSE, FALSE)
    BY DEF Is, tr_retransmit_synack, Queued, Patch
  <2>2. InOrder(f, FALSE, s)
    BY DEF InOrder, Gives, Late, Inspects
  <2>3. Whole(FALSE, s)
    BY DEF Whole, Gives
  <2>4. InOrder(f, FALSE, t)
    OBVIOUS
  <2>5. \A x \in Fallible, i \in DOMAIN t : t[i] # x
    OBVIOUS
  <2>6. \A x \in Fallible, i \in DOMAIN s : s[i] # x
    OBVIOUS
  <2>7. ~ReadsFirst(t)
    OBVIOUS
  <2> QED BY <2>1, <2>2, <2>3, <2>4, <2>5, <2>6, <2>7, RowFrom
<1> QED BY <1>1, <1>2, <1>3, <1>4, <1>5, <1>6, <1>7, <1>8, <1>9, <1>10, <1>11, <1>12,
           <1>13, <1>14, <1>15, <1>16, <1>17, <1>18, <1>19, <1>20, <1>21, <1>22, <1>23,
           <1>24, <1>25, <1>26, <1>27, <1>28

\* The handlers of the code, by monitor.
Handlers == [ping_delay |-> PingDelay, ping_delay6 |-> PingDelay6,
             drop_packet |-> DropPacket, tcp_retrans |-> TcpRetrans]

RowsOK(tables) == \A t \in DOMAIN tables : \A f \in DOMAIN tables[t] : RowOK(f, tables[t][f])

\* Every handler of every monitor is in order.
LEMMA HandlersOK == RowsOK(Handlers)
<1> USE Shapes
<1>1. \A f \in DOMAIN PingDelay : RowOK(f, PingDelay[f])
  <2>1. \A f \in {"pd_eth_type_trans", "pd_napi_gro_receive", "pd_netif_receive_skb_core",
               "pd_dev_queue_xmit", "pd_net_dev_start_xmit"} :
          RowOK(f, PingDelay[f])
    <3>1. \A f \in {"pd_eth_type_trans", "pd_napi_gro_receive", "pd_netif_receive_skb_core",
                 "pd_dev_queue_xmit", "pd_net_dev_start_xmit"} :
            PingDelay[f] = LinkTap
      BY DEF PingDelay, pd_eth_type_trans, pd_napi_gro_receive, pd_netif_receive_skb_core,
             pd_dev_queue_xmit, pd_net_dev_start_xmit
    <3> QED BY <3>1 DEF LooksTooLate, TakesAllForIp, OldPointer
  <2>2. \A f \in {"pd_napi_gro_complete_26", "pd_napi_gro_complete_310",
               "pd_napi_gro_complete_312", "pd_napi_gro_complete_410",
               "pd_napi_gro_complete_420"} :
          RowOK(f, PingDelay[f])
    <3>1. \A f \in {"pd_napi_gro_complete_26", "pd_napi_gro_complete_310",
                 "pd_napi_gro_complete_312", "pd_napi_gro_complete_410",
                 "pd_napi_gro_complete_420"} :
            PingDelay[f] = Merge
      BY DEF PingDelay, pd_napi_gro_complete_26, pd_napi_gro_complete_310,
             pd_napi_gro_complete_312, pd_napi_gro_complete_410, pd_napi_gro_complete_420
    <3> QED BY <3>1 DEF LooksTooLate, TakesAllForIp, OldPointer
  <2>3. \A f \in {"pd_netif_receive_skb_26", "pd_netif_receive_skb_310",
               "pd_netif_receive_skb_312", "pd_netif_receive_skb_410"} :
          RowOK(f, PingDelay[f])
    <3>1. \A f \in {"pd_netif_receive_skb_26", "pd_netif_receive_skb_310",
                 "pd_netif_receive_skb_312", "pd_netif_receive_skb_410"} :
            PingDelay[f] = Receive
      BY DEF PingDelay, pd_netif_receive_skb_26, pd_netif_receive_skb_310,
             pd_netif_receive_skb_312, pd_netif_receive_skb_410
    <3> QED BY <3>1 DEF LooksTooLate, TakesAllForIp, OldPointer
  <2>4. \A f \in {"pd_ip_rcv", "pd_icmp_rcv", "pd_ip_send_skb"} :
          RowOK(f, PingDelay[f])
    <3>1. \A f \in {"pd_ip_rcv", "pd_icmp_rcv", "pd_ip_send_skb"} :
            PingDelay[f] = Tap
      BY DEF PingDelay, pd_ip_rcv, pd_icmp_rcv, pd_ip_send_skb
    <3> QED BY <3>1 DEF LooksTooLate, TakesAllForIp, OldPointer
  <2>5. RowOK("pd_ip_rcv_finish_26", PingDelay["pd_ip_rcv_finish_26"])
    <3>1. PingDelay["pd_ip_rcv_finish_26"] = pd_ip_rcv_finish_26
      BY DEF PingDelay
    <3> QED BY <3>1 DEF LooksTooLate, TakesAllForIp, OldPointer
  <2>6. RowOK("pd_ip_rcv_finish_310", PingDelay["pd_ip_rcv_finish_310"])
    <3>1. PingDelay["pd_ip_rcv_finish_310"] = pd_ip_rcv_finish_310
      BY DEF PingDelay
    <3> QED BY <3>1 DEF LooksTooLate, TakesAllForIp, OldPointer
  <2>7. RowOK("pd_ip_rcv_finish_49", PingDelay["pd_ip_rcv_finish_49"])
    <3>1. PingDelay["pd_ip_rcv_finish_49"] = pd_ip_rcv_finish_49
      BY DEF PingDelay
    <3> QED BY <3>1 DEF LooksTooLate, TakesAllForIp, OldPointer
  <2>8. RowOK("pd_ip_rcv_finish_419", PingDelay["pd_ip_rcv_finish_419"])
    <3>1. PingDelay["pd_ip_rcv_finish_419"] = pd_ip_rcv_finish_419
      BY DEF PingDelay
    <3> QED BY <3>1 DEF LooksTooLate, TakesAllForIp, OldPointer
  <2>9. \A f \in {"pd_ip_local_deliver_26", "pd_ip_local_deliver_310", "pd_ip_local_deliver_49",
               "pd_ip_local_deliver_419"} :
          RowOK(f, PingDelay[f])
    <3>1. \A f \in {"pd_ip_local_deliver_26", "pd_ip_local_deliver_310",
                 "pd_ip_local_deliver_49", "pd_ip_local_deliver_419"} :
            PingDelay[f] = Deliver
      BY DEF PingDelay, pd_ip_local_deliver_26, pd_ip_local_deliver_310, pd_ip_local_deliver_49,
             pd_ip_local_deliver_419
    <3> QED BY <3>1 DEF LooksTooLate, TakesAllForIp, OldPointer
  <2>10. RowOK("pd_net_dev_xmit", PingDelay["pd_net_dev_xmit"])
    <3>1. PingDelay["pd_net_dev_xmit"] = SentTap
      BY DEF PingDelay, pd_net_dev_xmit
    <3> QED BY <3>1 DEF LooksTooLate, TakesAllForIp, OldPointer
  <2>11. DOMAIN PingDelay = {"pd_eth_type_trans", "pd_napi_gro_receive",
        "pd_napi_gro_complete_26", "pd_napi_gro_complete_310", "pd_napi_gro_complete_312",
        "pd_napi_gro_complete_410", "pd_napi_gro_complete_420", "pd_netif_receive_skb_26",
        "pd_netif_receive_skb_310", "pd_netif_receive_skb_312", "pd_netif_receive_skb_410",
        "pd_netif_receive_skb_core", "pd_ip_rcv", "pd_ip_rcv_finish_26", "pd_ip_rcv_finish_310",
        "pd_ip_rcv_finish_49", "pd_ip_rcv_finish_419", "pd_ip_local_deliver_26",
        "pd_ip_local_deliver_310", "pd_ip_local_deliver_49", "pd_ip_local_deliver_419",
        "pd_icmp_rcv", "pd_ip_send_skb", "pd_dev_queue_xmit", "pd_net_dev_start_xmit",
        "pd_net_dev_xmit"}
    BY DEF PingDelay
  <2> QED BY <2>1, <2>2, <2>3, <2>4, <2>5, <2>6, <2>7, <2>8, <2>9, <2>10, <2>11
<1>2. \A f \in DOMAIN PingDelay6 : RowOK(f, PingDelay6[f])
  <2>1. \A f \in {"p6_eth_type_trans", "p6_napi_gro_receive", "p6_netif_receive_skb_core",
               "p6_dev_queue_xmit", "p6_net_dev_start_xmit"} :
          RowOK(f, PingDelay6[f])
    <3>1. \A f \in {"p6_eth_type_trans", "p6_napi_gro_receive", "p6_netif_receive_skb_core",
                 "p6_dev_queue_xmit", "p6_net_dev_start_xmit"} :
            PingDelay6[f] = LinkTap
      BY DEF PingDelay6, p6_eth_type_trans, p6_napi_gro_receive, p6_netif_receive_skb_core,
             p6_dev_queue_xmit, p6_net_dev_start_xmit
    <3> QED BY <3>1 DEF LooksTooLate, TakesAllForIp, OldPointer
  <2>2. \A f \in {"p6_napi_gro_complete_26", "p6_napi_gro_complete_312",
               "p6_napi_gro_complete_410"} :
          RowOK(f, PingDelay6[f])
    <3>1. \A f \in {"p6_napi_gro_complete_26", "p6_napi_gro_complete_312",
                 "p6_napi_gro_complete_410"} :
            PingDelay6[f] = Merge
      BY DEF PingDelay6, p6_napi_gro_complete_26, p6_napi_gro_complete_312,
             p6_napi_gro_complete_410
    <3> QED BY <3>1 DEF LooksTooLate, TakesAllForIp, OldPointer
  <2>3. \A f \in {"p6_netif_receive_skb_26", "p6_netif_receive_skb_312",
               "p6_netif_receive_skb_410"} :
          RowOK(f, PingDelay6[f])
    <3>1. \A f \in {"p6_netif_receive_skb_26", "p6_netif_receive_skb_312",
                 "p6_netif_receive_skb_410"} :
            PingDelay6[f] = Receive
      BY DEF PingDelay6, p6_netif_receive_skb_26, p6_netif_receive_skb_312,
             p6_netif_receive_skb_410
    <3> QED BY <3>1 DEF LooksTooLate, TakesAllForIp, OldPointer
  <2>4. \A f \in {"p6_ipv6_rcv", "p6_ip6_input", "p6_icmpv6_rcv"} :
          RowOK(f, PingDelay6[f])
    <3>1. \A f \in {"p6_ipv6_rcv", "p6_ip6_input", "p6_icmpv6_rcv"} :
            PingDelay6[f] = Tap
      BY DEF PingDelay6, p6_ipv6_rcv, p6_ip6_input, p6_icmpv6_rcv
    <3> QED BY <3>1 DEF LooksTooLate, TakesAllForIp, OldPointer
  <2>5. RowOK("p6_ip6_rcv_finish_310", PingDelay6["p6_ip6_rcv_finish_310"])
    <3>1. PingDelay6["p6_ip6_rcv_finish_310"] = p6_ip6_rcv_finish_310
      BY DEF PingDelay6
    <3> QED BY <3>1 DEF LooksTooLate, TakesAllForIp, OldPointer
  <2>6. \A f \in {"p6_ip6_rcv_finish_49", "p6_ip6_rcv_finish_419"} :
          RowOK(f, PingDelay6[f])
    <3>1. \A f \in {"p6_ip6_rcv_finish_49", "p6_ip6_rcv_finish_419"} :
            PingDelay6[f] = p6_ip6_rcv_finish_49
      BY DEF PingDelay6, p6_ip6_rcv_finish_419
    <3> QED BY <3>1 DEF LooksTooLate, TakesAllForIp, OldPointer
  <2>7. RowOK("p6_ip6_local_out_310", PingDelay6["p6_ip6_local_out_310"])
    <3>1. PingDelay6["p6_ip6_local_out_310"] = p6_ip6_local_out_310
      BY DEF PingDelay6
    <3> QED BY <3>1 DEF LooksTooLate, TakesAllForIp, OldPointer
  <2>8. \A f \in {"p6_ip6_local_out_49", "p6_ip6_local_out_419"} :
          RowOK(f, PingDelay6[f])
    <3>1. \A f \in {"p6_ip6_local_out_49", "p6_ip6_local_out_419"} :
            PingDelay6[f] = p6_ip6_local_out_49
      BY DEF PingDelay6, p6_ip6_local_out_419
    <3> QED BY <3>1 DEF LooksTooLate, TakesAllForIp, OldPointer
  <2>9. RowOK("p6_net_dev_xmit", PingDelay6["p6_net_dev_xmit"])
    <3>1. PingDelay6["p6_net_dev_xmit"] = SentTap
      BY DEF PingDelay6, p6_net_dev_xmit
    <3> QED BY <3>1 DEF LooksTooLate, TakesAllForIp, OldPointer
  <2>10. DOMAIN PingDelay6 = {"p6_eth_type_trans", "p6_napi_gro_receive",
        "p6_napi_gro_complete_26", "p6_napi_gro_complete_312", "p6_napi_gro_complete_410",
        "p6_netif_receive_skb_26", "p6_netif_receive_skb_312", "p6_netif_receive_skb_410",
        "p6_netif_receive_skb_core", "p6_ipv6_rcv", "p6_ip6_rcv_finish_310",
        "p6_ip6_rcv_finish_49", "p6_ip6_rcv_finish_419", "p6_ip6_input", "p6_icmpv6_rcv",
        "p6_ip6_local_out_310", "p6_ip6_local_out_49", "p6_ip6_local_out_419",
        "p6_dev_queue_xmit", "p6_net_dev_start_xmit", "p6_net_dev_xmit"}
    BY DEF PingDelay6
  <2> QED BY <2>1, <2>2, <2>3, <2>4, <2>5, <2>6, <2>7, <2>8, <2>9, <2>10
<1>3. \A f \in DOMAIN DropPacket : RowOK(f, DropPacket[f])
  <2>1. \A f \in {"dp_eth_type_trans", "dp_net_dev_start_xmit"} :
          RowOK(f, DropPacket[f])
    <3>1. \A f \in {"dp_eth_type_trans", "dp_net_dev_start_xmit"} :
            DropPacket[f] = BlindTap
      BY DEF DropPacket, dp_eth_type_trans, dp_net_dev_start_xmit
    <3> QED BY <3>1 DEF LooksTooLate, TakesAllForIp, OldPointer
  <2>2. \A f \in {"dp_napi_gro_receive", "dp_netif_receive_skb_core", "dp_udp_rcv",
               "dp_tcp_v4_rcv"} :
          RowOK(f, DropPacket[f])
    <3>1. \A f \in {"dp_napi_gro_receive", "dp_netif_receive_skb_core", "dp_udp_rcv",
                 "dp_tcp_v4_rcv"} :
            DropPacket[f] = LinkTap
      BY DEF DropPacket, dp_napi_gro_receive, dp_netif_receive_skb_core, dp_udp_rcv,
             dp_tcp_v4_rcv
    <3> QED BY <3>1 DEF LooksTooLate, TakesAllForIp, OldPointer
  <2>3. \A f \in {"dp_napi_gro_complete_26", "dp_napi_gro_complete_310",
               "dp_napi_gro_complete_312", "dp_napi_gro_complete_410"} :
          RowOK(f, DropPacket[f])
    <3>1. \A f \in {"dp_napi_gro_complete_26", "dp_napi_gro_complete_310",
                 "dp_napi_gro_complete_312", "dp_napi_gro_complete_410"} :
            DropPacket[f] = BlindMerge
      BY DEF DropPacket, dp_napi_gro_complete_26, dp_napi_gro_complete_310,
             dp_napi_gro_complete_312, dp_napi_gro_complete_410
    <3> QED BY <3>1 DEF LooksTooLate, TakesAllForIp, OldPointer
  <2>4. \A f \in {"dp_netif_receive_skb_26", "dp_netif_receive_skb_310",
               "dp_netif_receive_skb_312", "dp_netif_receive_skb_410"} :
          RowOK(f, DropPacket[f])
    <3>1. \A f \in {"dp_netif_receive_skb_26", "dp_netif_receive_skb_310",
                 "dp_netif_receive_skb_312", "dp_netif_receive_skb_410"} :
            DropPacket[f] = BlindReceive
      BY DEF DropPacket, dp_netif_receive_skb_26, dp_netif_receive_skb_310,
             dp_netif_receive_skb_312, dp_netif_receive_skb_410
    <3> QED BY <3>1 DEF LooksTooLate, TakesAllForIp, OldPointer
  <2>5. RowOK("dp_ip_rcv_26", DropPacket["dp_ip_rcv_26"])
    <3>1. DropPacket["dp_ip_rcv_26"] = dp_ip_rcv_26
      BY DEF DropPacket
    <3> QED BY <3>1 DEF LooksTooLate, TakesAllForIp, OldPointer
  <2>6. \A f \in {"dp_ip_rcv_310", "dp_ip_rcv_49"} :
          RowOK(f, DropPacket[f])
    <3>1. \A f \in {"dp_ip_rcv_310", "dp_ip_rcv_49"} :
            DropPacket[f] = dp_ip_rcv_310
      BY DEF DropPacket, dp_ip_rcv_49
    <3> QED BY <3>1 DEF LooksTooLate, TakesAllForIp, OldPointer
  <2>7. RowOK("dp_ip_rcv_finish_26", DropPacket["dp_ip_rcv_finish_26"])
    <3>1. DropPacket["dp_ip_rcv_finish_26"] = dp_ip_rcv_finish_26
      BY DEF DropPacket
    <3> QED BY <3>1 DEF LooksTooLate, TakesAllForIp, OldPointer
  <2>8. RowOK("dp_ip_rcv_finish_310", DropPacket["dp_ip_rcv_finish_310"])
    <3>1. DropPacket["dp_ip_rcv_finish_310"] = dp_ip_rcv_finish_310
      BY DEF DropPacket
    <3> QED BY <3>1 DEF LooksTooLate, TakesAllForIp, OldPointer
  <2>9. RowOK("dp_ip_rcv_finish_49", DropPacket["dp_ip_rcv_finish_49"])
    <3>1. DropPacket["dp_ip_rcv_finish_49"] = dp_ip_rcv_finish_49
      BY DEF DropPacket
    <3> QED BY <3>1 DEF LooksTooLate, TakesAllForIp, OldPointer
  <2>10. \A f \in {"dp_ip_local_deliver_26", "dp_ip_local_deliver_310"} :
          RowOK(f, DropPacket[f])
    <3>1. \A f \in {"dp_ip_local_deliver_26", "dp_ip_local_deliver_310"} :
            DropPacket[f] = SilentDeliver
      BY DEF DropPacket, dp_ip_local_deliver_26, dp_ip_local_deliver_310
    <3> QED BY <3>1 DEF LooksTooLate, TakesAllForIp, OldPointer
  <2>11. RowOK("dp_ip_local_deliver_49", DropPacket["dp_ip_local_deliver_49"])
    <3>1. DropPacket["dp_ip_local_deliver_49"] = Deliver
      BY DEF DropPacket, dp_ip_local_deliver_49
    <3> QED BY <3>1 DEF LooksTooLate, TakesAllForIp, OldPointer
  <2>12. \A f \in {"dp_ip_send_skb_26", "dp_ip_send_skb_310", "dp_ip_send_skb_49"} :
          RowOK(f, DropPacket[f])
    <3>1. \A f \in {"dp_ip_send_skb_26", "dp_ip_send_skb_310", "dp_ip_send_skb_49"} :
            DropPacket[f] = dp_ip_send_skb_26
      BY DEF DropPacket, dp_ip_send_skb_310, dp_ip_send_skb_49
    <3> QED BY <3>1 DEF LooksTooLate, TakesAllForIp, OldPointer
  <2>13. RowOK("dp_net_dev_xmit", DropPacket["dp_net_dev_xmit"])
    <3>1. DropPacket["dp_net_dev_xmit"] = BlindSentTap
      BY DEF DropPacket, dp_net_dev_xmit
    <3> QED BY <3>1 DEF LooksTooLate, TakesAllForIp, OldPointer
  <2>14. DOMAIN DropPacket = {"dp_eth_type_trans", "dp_napi_gro_receive",
        "dp_napi_gro_complete_26", "dp_napi_gro_complete_310", "dp_napi_gro_complete_312",
        "dp_napi_gro_complete_410", "dp_netif_receive_skb_26", "dp_netif_receive_skb_310",
        "dp_netif_receive_skb_312", "dp_netif_receive_skb_410", "dp_netif_receive_skb_core",
        "dp_ip_rcv_26", "dp_ip_rcv_310", "dp_ip_rcv_49", "dp_ip_rcv_finish_26",
        "dp_ip_rcv_finish_310", "dp_ip_rcv_finish_49", "dp_ip_local_deliver_26",
        "dp_ip_local_deliver_310", "dp_ip_local_deliver_49", "dp_udp_rcv", "dp_tcp_v4_rcv",
        "dp_ip_send_skb_26", "dp_ip_send_skb_310", "dp_ip_send_skb_49", "dp_net_dev_start_xmit",
        "dp_net_dev_xmit"}
    BY DEF DropPacket
  <2> QED BY <2>1, <2>2, <2>3, <2>4, <2>5, <2>6, <2>7, <2>8, <2>9, <2>10, <2>11, <2>12, <2>13,
          <2>14
<1>4. \A f \in DOMAIN TcpRetrans : RowOK(f, TcpRetrans[f])
  <2>1. \A f \in {"tr_tcp_rtx_synack_310", "tr_tcp_rtx_synack_49"} :
          RowOK(f, TcpRetrans[f])
    <3>1. \A f \in {"tr_tcp_rtx_synack_310", "tr_tcp_rtx_synack_49"} :
            TcpRetrans[f] = tr_tcp_rtx_synack_310
      BY DEF TcpRetrans, tr_tcp_rtx_synack_49
    <3> QED BY <3>1 DEF LooksTooLate, TakesAllForIp, OldPointer
  <2>2. \A f \in {"tr_tcp_retransmit_skb_310", "tr_tcp_retransmit_skb_49"} :
          RowOK(f, TcpRetrans[f])
    <3>1. \A f \in {"tr_tcp_retransmit_skb_310", "tr_tcp_retransmit_skb_49"} :
            TcpRetrans[f] = tr_tcp_retransmit_skb_310
      BY DEF TcpRetrans, tr_tcp_retransmit_skb_49
    <3> QED BY <3>1 DEF LooksTooLate, TakesAllForIp, OldPointer
  <2>3. \A f \in {"tr_retransmit_synack", "tr_retransmit_skb"} :
          RowOK(f, TcpRetrans[f])
    <3>1. \A f \in {"tr_retransmit_synack", "tr_retransmit_skb"} :
            TcpRetrans[f] = tr_retransmit_synack
      BY DEF TcpRetrans, tr_retransmit_skb
    <3> QED BY <3>1 DEF LooksTooLate, TakesAllForIp, OldPointer
  <2>4. DOMAIN TcpRetrans = {"tr_tcp_rtx_synack_310", "tr_tcp_rtx_synack_49",
        "tr_tcp_retransmit_skb_310", "tr_tcp_retransmit_skb_49", "tr_retransmit_synack",
        "tr_retransmit_skb"}
    BY DEF TcpRetrans
  <2> QED BY <2>1, <2>2, <2>3, <2>4
<1> QED BY <1>1, <1>2, <1>3, <1>4 DEF Handlers, RowsOK

-----------------------------------------------------------------------------
(* What a CPU does with a packet.                                          *)

\* The handler that a CPU is in: its steps are in order; the packet is its own, and
\* what is left gives it away, or it is not, and what is left leaves it alone; and if
\* the header may have moved, it is not read before there is a new pointer to it.
Follows(p) ==
  LET r == Tables[table][p.f] IN
  p.f # None =>
    /\ p.pkt \in {"ours", "gone"} /\ (r.link \/ p.ip)
    /\ InOrder(p.f, r.link, p.rest) /\ \A j \in DOMAIN p.rest : Among(r, p.rest[j])
    /\ p.pkt = "ours" => Whole(r.gives, p.rest)
    /\ p.pkt = "gone" => \A j \in DOMAIN p.rest : Late(p.f, p.rest[j])
    /\ p.held \in Movers => /\ Among(r, p.held)
                            /\ p.f \in OldPointer[p.held] \/ ~ReadsFirst(p.rest)

PathInv == \A c \in CPUs : Follows(cpu[c])

\* What is left of a list after its first step.
LEMMA TailOf ==
  ASSUME NEW s \in Seq(Steps), s # <<>>, NEW f, NEW link, NEW gives, InOrder(f, link, s)
  PROVE  /\ InOrder(f, link, Tail(s))
         /\ \A j \in DOMAIN Tail(s) : j + 1 \in DOMAIN s /\ Tail(s)[j] = s[j + 1]
         /\ Head(s) \notin Gives /\ Whole(gives, s) => Whole(gives, Tail(s))
         /\ Head(s) \in Gives => \A j \in DOMAIN Tail(s) : Late(f, Tail(s)[j])
         /\ Head(s) # "hdr" /\ ~ReadsFirst(s) => ~ReadsFirst(Tail(s))
         /\ Head(s) \in Movers /\ f \notin OldPointer[Head(s)] => ~ReadsFirst(Tail(s))
<1> DEFINE t == Tail(s)
<1>1. PICK n \in Nat : Len(s) = n + 1 /\ DOMAIN s = 1..n + 1 /\ DOMAIN t = 1..n
  <2>1. Len(s) \in Nat /\ Len(s) > 0 /\ DOMAIN s = 1..Len(s)
    OBVIOUS
  <2>2. PICK n \in Nat : Len(s) = n + 1
    <3>1. \A a \in Nat : a > 0 => a - 1 \in Nat /\ a = (a - 1) + 1
      OBVIOUS
    <3> QED BY <2>1, <3>1
  <2>3. Len(t) = n /\ DOMAIN t = 1..Len(t)
    BY <2>2
  <2> QED BY <2>1, <2>2, <2>3
<1>2. \A j \in 1..n : t[j] = s[j + 1]
  BY <1>1
<1>3. Head(s) = s[1] /\ 1 \in 1..n + 1
  BY <1>1
<1>4. \A j \in 1..n : j + 1 \in 1..n + 1 /\ 1 < j + 1
  BY <1>1
<1>5. \A i, j \in 1..n : i < j <=> i + 1 < j + 1
  BY <1>1
<1>6. \A k \in 1..n + 1 : k = 1 \/ (k - 1 \in 1..n /\ k = (k - 1) + 1)
  BY <1>1
<1> HIDE DEF t
<1>7. InOrder(f, link, t)
  <2>1. \A i, j \in 1..n : i < j /\ t[i] \in Gives => Late(f, t[j])
    BY <1>1, <1>2, <1>4, <1>5 DEF InOrder
  <2>2. ASSUME NEW by \in Movers, NEW i \in 1..n, NEW j \in 1..n,
               i < j, t[i] = by, t[j] \in {"see", "read"}, f \notin OldPointer[by]
        PROVE  \E k \in 1..n : i < k /\ k < j /\ t[k] = "hdr"
    <3>1. PICK k \in 1..n + 1 : i + 1 < k /\ k < j + 1 /\ s[k] = "hdr"
      <4>1. /\ i + 1 \in 1..n + 1 /\ j + 1 \in 1..n + 1 /\ i + 1 < j + 1
            /\ s[i + 1] = by /\ s[j + 1] \in {"see", "read"}
        BY <1>2, <1>4, <1>5, <2>2
      <4> QED BY <1>1, <2>2, <4>1 DEF InOrder
    <3>2. k - 1 \in 1..n /\ i < k - 1 /\ k - 1 < j /\ t[k - 1] = s[k]
      BY <1>2, <1>6, <3>1
    <3> QED BY <3>1, <3>2
  <2>3. link /\ f \notin TakesAllForIp => \A j \in 1..n : t[j] \notin {"see", "seeany"}
    BY <1>1, <1>2, <1>4 DEF InOrder
  <2> QED BY <1>1, <2>1, <2>2, <2>3 DEF InOrder
<1>8. ASSUME s[1] \notin Gives, Whole(gives, s)
      PROVE  Whole(gives, t)
  <2>1. ASSUME NEW j \in 1..n, t[j] = "dropped"
        PROVE  \E i \in 1..n : i < j /\ t[i] \in Gives
    <3>1. PICK i \in 1..n + 1 : i < j + 1 /\ s[i] \in Gives
      BY <1>1, <1>2, <1>4, <1>8, <2>1 DEF Whole
    <3>2. i - 1 \in 1..n /\ i - 1 < j /\ t[i - 1] = s[i]
      BY <1>2, <1>6, <1>8, <3>1
    <3> QED BY <3>1, <3>2
  <2>2. ASSUME gives PROVE \E i \in 1..n : t[i] \in Gives
    <3>1. PICK i \in 1..n + 1 : s[i] \in Gives
      BY <1>1, <1>8, <2>2 DEF Whole
    <3> QED BY <1>2, <1>6, <1>8, <3>1
  <2> QED BY <1>1, <2>1, <2>2 DEF Whole
<1>9. ASSUME s[1] \in Gives PROVE \A j \in 1..n : Late(f, t[j])
  BY <1>1, <1>2, <1>3, <1>4, <1>9 DEF InOrder
<1>10. ASSUME s[1] # "hdr", ReadsFirst(t) PROVE ReadsFirst(s)
  <2>1. PICK j \in 1..n : t[j] \in {"see", "read"} /\ \A i \in 1..n : i < j => t[i] # "hdr"
    BY <1>1, <1>10 DEF ReadsFirst
  <2>2. ASSUME NEW i \in 1..n + 1, i < j + 1, i # 1 PROVE s[i] # "hdr"
    <3>1. i - 1 \in 1..n /\ i - 1 < j /\ t[i - 1] = s[i]
      BY <1>2, <1>6, <2>2
    <3> QED BY <2>1, <3>1
  <2>3. j + 1 \in 1..n + 1 /\ s[j + 1] \in {"see", "read"}
    BY <1>2, <1>4, <2>1
  <2> QED BY <1>1, <1>10, <2>2, <2>3 DEF ReadsFirst
<1>11. ASSUME s[1] \in Movers, f \notin OldPointer[s[1]], ReadsFirst(t) PROVE FALSE
  <2>1. PICK j \in 1..n : t[j] \in {"see", "read"} /\ \A i \in 1..n : i < j => t[i] # "hdr"
    BY <1>1, <1>11 DEF ReadsFirst
  <2>2. j + 1 \in 1..n + 1 /\ 1 < j + 1 /\ s[j + 1] \in {"see", "read"}
    BY <1>2, <1>4, <2>1
  <2>3. PICK k \in 1..n + 1 : 1 < k /\ k < j + 1 /\ s[k] = "hdr"
    BY <1>1, <1>3, <1>11, <2>2 DEF InOrder
  <2>4. k - 1 \in 1..n /\ k - 1 < j /\ t[k - 1] = s[k]
    BY <1>2, <1>6, <2>3
  <2> QED BY <2>1, <2>3, <2>4
<1> QED BY <1>1, <1>2, <1>3, <1>4, <1>7, <1>8, <1>9, <1>10, <1>11 DEF t

\* A step that the handler goes on from, with the packet given away by a step that does
\* so alone, and a pointer to the header that is the old one, a new one, or one that
\* this step has made old.
LEMMA Advance ==
  ASSUME NEW p, Follows(p), p.f # None, p.rest \in Seq(Steps), p.rest # <<>>,
         NEW q, q.f = p.f, q.ip = p.ip, q.rest = Tail(p.rest),
         \/ q.pkt = p.pkt /\ Head(p.rest) \notin Gives
         \/ q.pkt = "gone" /\ Head(p.rest) \in Gives,
         \/ q.held = p.held /\ Head(p.rest) # "hdr"
         \/ q.held \notin Movers
         \/ q.held = Head(p.rest) /\ Head(p.rest) \in Movers
  PROVE  Follows(q)
<1> DEFINE r == Tables[table][p.f]
           s == p.rest
           h == Head(p.rest)
<1>1. /\ p.pkt \in {"ours", "gone"} /\ (r.link \/ p.ip)
      /\ InOrder(p.f, r.link, s) /\ \A j \in DOMAIN s : Among(r, s[j])
      /\ p.pkt = "ours" => Whole(r.gives, s)
      /\ p.pkt = "gone" => \A j \in DOMAIN s : Late(p.f, s[j])
      /\ p.held \in Movers => Among(r, p.held) /\ (p.f \in OldPointer[p.held] \/ ~ReadsFirst(s))
  BY DEF Follows
<1>2. /\ InOrder(p.f, r.link, Tail(s))
      /\ \A j \in DOMAIN Tail(s) : j + 1 \in DOMAIN s /\ Tail(s)[j] = s[j + 1]
      /\ h \notin Gives /\ Whole(r.gives, s) => Whole(r.gives, Tail(s))
      /\ h \in Gives => \A j \in DOMAIN Tail(s) : Late(p.f, Tail(s)[j])
      /\ h # "hdr" /\ ~ReadsFirst(s) => ~ReadsFirst(Tail(s))
      /\ h \in Movers /\ p.f \notin OldPointer[h] => ~ReadsFirst(Tail(s))
  BY <1>1, TailOf
<1>3. Among(r, h)
  <2>1. h = s[1] /\ 1 \in DOMAIN s
    OBVIOUS
  <2> QED BY <1>1, <2>1
<1>4. \A j \in DOMAIN Tail(s) : Among(r, Tail(s)[j])
  BY <1>1, <1>2
<1>5. q.pkt \in {"ours", "gone"} /\ (r.link \/ q.ip)
  BY <1>1
<1>6. q.pkt = "ours" => Whole(r.gives, Tail(s))
  BY <1>1, <1>2
<1>7. q.pkt = "gone" => \A j \in DOMAIN Tail(s) : Late(p.f, Tail(s)[j])
  BY <1>1, <1>2
<1>8. q.held \in Movers => Among(r, q.held) /\ (p.f \in OldPointer[q.held] \/ ~ReadsFirst(Tail(s)))
  BY <1>1, <1>2, <1>3
<1> HIDE DEF r, s, h
<1>9. r = Tables[table][q.f] /\ q.rest = Tail(s)
  BY DEF r, s
<1> QED BY <1>2, <1>4, <1>5, <1>6, <1>7, <1>8, <1>9 DEF Follows

\* A step that fails.
LEMMA Failing ==
  ASSUME NEW p, Follows(p), p.f # None, RowOK(p.f, Tables[table][p.f]),
         p.rest \in Seq(Steps), p.rest # <<>>, Head(p.rest) \in Fallible,
         NEW q, q.f = p.f, q.ip = p.ip, q.rest = Tables[table][p.f].fails,
         q.pkt = p.pkt, q.held = p.held
  PROVE  Follows(q)
<1> DEFINE r == Tables[table][p.f]
<1>1. /\ p.pkt \in {"ours", "gone"} /\ (r.link \/ p.ip)
      /\ \A j \in DOMAIN p.rest : Among(r, p.rest[j])
      /\ p.pkt = "gone" => \A j \in DOMAIN p.rest : Late(p.f, p.rest[j])
      /\ p.held \in Movers => Among(r, p.held)
  BY DEF Follows
<1>2. Head(p.rest) = p.rest[1] /\ 1 \in DOMAIN p.rest
  OBVIOUS
<1>3. Among(r, Head(p.rest)) /\ p.pkt = "ours"
  BY <1>1, <1>2 DEF Late
<1>4. /\ InOrder(p.f, r.link, r.fails) /\ Whole(r.gives, r.fails)
      /\ p.held \in Movers => p.f \in OldPointer[p.held] \/ ~ReadsFirst(r.fails)
  BY <1>1, <1>3 DEF RowOK
<1>5. \A j \in DOMAIN r.fails : Among(r, r.fails[j])
  BY DEF Among
<1> QED BY <1>1, <1>3, <1>4, <1>5 DEF Follows

\* A handler that is over, or goes no further since another has the packet.
LEMMA Ending ==
  ASSUME NEW p, Follows(p), NEW q, q.f = p.f, q.ip = p.ip, q.rest = <<>>, q.pkt = "gone",
         q.held = p.held
  PROVE  Follows(q)
BY DEF Follows, InOrder, ReadsFirst

\* A packet arrives.
LEMMA Arriving ==
  ASSUME NEW f, NEW r, r = Tables[table][f], RowOK(f, r),
         NEW q, q.f = f, q.rest = r.does, q.pkt = "ours", q.held = "none", r.link \/ q.ip
  PROVE  Follows(q)
<1>1. \A j \in DOMAIN r.does : Among(r, r.does[j])
  BY DEF Among
<1> QED BY <1>1 DEF Follows, RowOK, Movers

\* Every step of a CPU with a packet keeps to this.
LEMMA OnTheWay ==
  ASSUME IInv, PathInv, RowsOK(Tables), NEW c \in CPUs, Step(c)
  PROVE  table' = table /\ \E q : Follows(q) /\ cpu' = [cpu EXCEPT ![c] = q]
<1> USE DEF Goes, inputSame
<1> DEFINE p == cpu[c]
           h == Head(cpu[c].rest)
<1>1. Good(p) /\ Follows(p) /\ table \in DOMAIN Tables
  BY DEF IInv, TypeInv, PathInv
<1>2. ASSUME p.rest # <<>>
      PROVE  /\ p.f # None /\ RowOK(p.f, Tables[table][p.f]) /\ p.rest \in Seq(Steps)
             /\ Row(c) = Tables[table][p.f]
  BY <1>1, <1>2 DEF Good, RowsOK, Does, Row
<1>3. DOMAIN p = {"f", "rest", "pkt", "held", "ip", "key", "desc", "ret"}
  BY <1>1 DEF Good
\* The forms a step can take.
<1>4. ASSUME p.rest # <<>>, h \notin Gives, h # "hdr"
      PROVE  Follows(Past(c)) /\ \A d : Follows([Past(c) EXCEPT !.desc = d])
  <2>1. ASSUME NEW q, q = Past(c) \/ \E d : q = [Past(c) EXCEPT !.desc = d]
        PROVE  Follows(q)
    <3>1. q.f = p.f /\ q.ip = p.ip /\ q.rest = Tail(p.rest) /\ q.pkt = p.pkt /\ q.held = p.held
      BY <1>3, <2>1 DEF Past
    <3> QED BY <1>1, <1>2, <1>4, <3>1, Advance
  <2> QED BY <2>1
<1>5. ASSUME p.rest # <<>>, h \notin Gives
      PROVE  Follows([Past(c) EXCEPT !.held = "fresh"])
  <2>1. PICK q : q = [Past(c) EXCEPT !.held = "fresh"]
    OBVIOUS
  <2>2. q.f = p.f /\ q.ip = p.ip /\ q.rest = Tail(p.rest) /\ q.pkt = p.pkt /\ q.held = "fresh"
    BY <1>3, <2>1 DEF Past
  <2>3. "fresh" \notin Movers
    BY DEF Movers
  <2>4. Follows(q)
    BY <1>1, <1>2, <1>5, <2>2, <2>3, Advance
  <2> QED BY <2>1, <2>4
<1>6. ASSUME p.rest # <<>>, h \in Movers
      PROVE  Follows(Moved(c))
  <2>1. PICK q : q = Moved(c)
    OBVIOUS
  <2>2. q.f = p.f /\ q.ip = p.ip /\ q.rest = Tail(p.rest) /\ q.pkt = p.pkt
        /\ (q.held = p.held \/ q.held = h)
    BY <1>3, <2>1 DEF Past, Moved
  <2>3. h \notin Gives /\ h # "hdr"
    BY <1>6 DEF Movers, Gives
  <2>4. Follows(q)
    BY <1>1, <1>2, <1>6, <2>2, <2>3, Advance
  <2> QED BY <2>1, <2>4
<1>7. ASSUME p.rest # <<>>, h \in Fallible
      PROVE  Follows(Fail(c))
  <2>1. PICK q : q = Fail(c)
    OBVIOUS
  <2>2. /\ q.f = p.f /\ q.ip = p.ip /\ q.rest = Tables[table][p.f].fails /\ q.pkt = p.pkt
        /\ q.held = p.held
    BY <1>2, <1>3, <1>7, <2>1 DEF Fail
  <2>3. Follows(q)
    BY <1>1, <1>2, <1>7, <2>2, Failing
  <2> QED BY <2>1, <2>3
<1>8. ASSUME p.rest # <<>>, h \in Gives
      PROVE  /\ Follows([Past(c) EXCEPT !.pkt = "gone"])
             /\ \A x : Follows([Past(c) EXCEPT !.pkt = "gone", !.ret = x])
  <2>1. ASSUME NEW q, \/ q = [Past(c) EXCEPT !.pkt = "gone"]
                      \/ \E x : q = [Past(c) EXCEPT !.pkt = "gone", !.ret = x]
        PROVE  Follows(q)
    <3>1. q.f = p.f /\ q.ip = p.ip /\ q.rest = Tail(p.rest) /\ q.pkt = "gone" /\ q.held = p.held
      BY <1>3, <2>1 DEF Past
    <3>2. h # "hdr"
      BY <1>8 DEF Gives
    <3> QED BY <1>1, <1>2, <1>8, <3>1, <3>2, Advance
  <2> QED BY <2>1
<1>9. Follows(Taken(c)) /\ (p.pkt = "gone" => Follows([p EXCEPT !.rest = <<>>]))
  <2>1. ASSUME NEW q, q = Taken(c) \/ (p.pkt = "gone" /\ q = [p EXCEPT !.rest = <<>>])
        PROVE  Follows(q)
    <3>1. q.f = p.f /\ q.ip = p.ip /\ q.rest = <<>> /\ q.pkt = "gone" /\ q.held = p.held
      BY <1>3, <2>1 DEF Taken
    <3> QED BY <1>1, <3>1, Ending
  <2> QED BY <2>1
<1>10. \A d : Follows([p EXCEPT !.desc = d])
  BY <1>1, <1>3 DEF Follows
<1>11. Follows(Idle)
  BY DEF Idle, Follows
\* The steps.
<1>12. CASE \E f \in DOMAIN Tables[table] : Call(c, f)
  <2>1. PICK f \in DOMAIN Tables[table] : Call(c, f)
    BY <1>12
  <2>2. PICK q :
          /\ \E k \in Keys \cup {None}, ip \in {TRUE, ~ Tables[table][f].link} :
               q = [Idle EXCEPT !.f = f, !.rest = Tables[table][f].does,
                                !.pkt = "ours", !.ip = ip, !.key = k]
          /\ cpu' = [cpu EXCEPT ![c] = q]
    BY <2>1 DEF Call
  <2>3. RowOK(f, Tables[table][f])
    BY <1>1 DEF RowsOK
  <2>4. q.f = f /\ q.rest = Tables[table][f].does /\ q.pkt = "ours" /\ q.held = "none"
        /\ (Tables[table][f].link \/ q.ip)
    BY <2>2, <2>3 DEF Idle, RowOK
  <2>5. Follows(q)
    BY <2>3, <2>4, Arriving
  <2> QED BY <2>1, <2>2, <2>5 DEF Call
<1>13. CASE Header(c)
  BY <1>5, <1>13 DEF Header, At, Gives
<1>14. CASE Read(c) \/ Send(c) \/ Ignore(c)
  BY <1>4, <1>14 DEF Read, Send, Ignore, At, Gives, Inspects
<1>15. CASE Check(c)
  BY <1>4, <1>6, <1>7, <1>15 DEF Check, At, Gives, Movers, Fallible
<1>16. CASE Demux(c)
  BY <1>4, <1>5, <1>6, <1>16 DEF Demux, At, Gives, Movers
<1>17. CASE Take(c)
  BY <1>4, <1>6, <1>9, <1>17 DEF Take, At, Gives, Movers
<1>18. CASE Out(c) \/ FreeSkb(c)
  BY <1>8, <1>18 DEF Out, FreeSkb, At, Gives
<1>19. CASE Dropped(c)
  <2>1. p.rest # <<>> /\ h = "dropped" /\ h = p.rest[1] /\ 1 \in DOMAIN p.rest
    BY <1>2, <1>19 DEF Dropped, At
  <2>2. p.pkt = "gone"
    <3>1. ASSUME p.pkt # "gone" PROVE FALSE
      <4>1. Whole(Tables[table][p.f].gives, p.rest)
        BY <1>1, <1>2, <2>1, <3>1 DEF Follows
      <4>2. PICK i \in DOMAIN p.rest : i < 1
        BY <2>1, <4>1 DEF Whole
      <4> QED BY <1>2, <2>1, <4>2
    <3> QED BY <3>1
  <2>3. Follows(Past(c)) /\ Follows([p EXCEPT !.rest = <<>>])
    BY <1>4, <1>9, <2>1, <2>2 DEF Gives
  <2> QED BY <1>19, <2>3 DEF Dropped
<1>20. CASE Return(c)
  BY <1>11, <1>20 DEF Return
<1>21. CASE Look(c) \/ Add(c) \/ Stamp(c)
  <2>1. p.desc # None => At(c, Inspects)
    BY DEF IInv, TableInv
  <2>2. At(c, Inspects)
    BY <1>21, <2>1 DEF Look, Add, Stamp
  <2>3. Follows(Past(c)) /\ \A d : Follows([Past(c) EXCEPT !.desc = d])
    BY <1>4, <2>2 DEF At, Inspects, Gives
  <2>4. table' = table /\ \E q : Follows(q) /\ cpu' = [cpu EXCEPT ![c] = q]
    BY <1>1, <1>10, <1>21, <2>3 DEF Look, Add, Stamp
  <2> QED BY <2>4
<1>22. CASE Tally(c)
  BY <1>4, <1>22 DEF Tally, At, Gives
<1> QED BY <1>12, <1>13, <1>14, <1>15, <1>16, <1>17, <1>18, <1>19, <1>20, <1>21, <1>22
        DEF Step

\* A DUMP leaves the CPUs alone.
LEMMA PathNext ==
  ASSUME IInv, PathInv, RowsOK(Tables), [Next]_vars
  PROVE  PathInv'
<1>1. ASSUME NEW c \in CPUs, Step(c)
      PROVE  PathInv'
  <2>1. PICK q : Follows(q) /\ cpu' = [cpu EXCEPT ![c] = q]
    BY <1>1, OnTheWay
  <2>2. table' = table
    BY <1>1, OnTheWay
  <2>3. \A x : Follows(x)' = Follows(x)
    BY <2>2 DEF Follows
  <2>4. \A e \in CPUs : Follows(cpu'[e])
    BY <2>1 DEF PathInv, IInv, TypeInv
  <2> QED BY <2>2, <2>4 DEF PathInv, Follows
<1>2. CASE cpu' = cpu /\ table' = table
  BY <1>2 DEF PathInv, Follows
<1> QED BY <1>1, <1>2 DEF Next, move_to_list, Report, Reclaim, vars

-----------------------------------------------------------------------------
(* The theorems.                                                           *)

LEMMA AlwaysInv == Spec => []IInv
BY InvInit, InvNext, PTL DEF Spec

\* The count of entries is off by the failed inserts at the most and never too low, and
\* the table exceeds its limit by no more than the CPUs that look at the count together,
\* however many flows, CPUs and DUMPs there are.
THEOREM LimitAlwaysKept == Spec => []LimitKept
<1>1. IInv => LimitKept
  <2> SUFFICES ASSUME IInv PROVE LimitKept
    OBVIOUS
  <2>1. Cardinality(Making) \in Nat /\ Cardinality(CPUs) \in Nat /\ obj \in Nat
    BY Counts DEF IInv, TypeInv
  <2> QED BY <2>1 DEF IInv, LimitInv, LimitKept, Filled, Strays
<1> QED BY <1>1, AlwaysInv, PTL

\* Every entry of the table is there under its own flow, no CPU that is about to leave
\* its mark on an entry has one that was freed or one of another flow, and a new entry
\* belongs to the CPU that made it alone.
THEOREM TableAlwaysSound == Spec => []TableInv
<1>1. IInv => TableInv
  BY DEF IInv
<1> QED BY <1>1, AlwaysInv, PTL

\* The handlers of the four monitors, whatever packets come and however CPUs and DUMPs
\* take turns, keep to their order.
THEOREM PathAlwaysFollowed == ASSUME Tables = Handlers PROVE Spec => []PathInv
<1>1. RowsOK(Tables)
  BY HandlersOK
<1>2. Init => PathInv
  BY DEF Init, PathInv, Follows, Idle
<1>3. IInv /\ PathInv /\ [Next]_vars => PathInv'
  BY <1>1, PathNext
<1> QED BY <1>2, <1>3, AlwaysInv, PTL DEF Spec

\* What the head of a list is.
LEMMA HeadOf ==
  ASSUME IInv, PathInv, NEW c \in CPUs, cpu[c].rest # <<>>
  PROVE  /\ cpu[c].f # None /\ Follows(cpu[c])
         /\ 1 \in DOMAIN cpu[c].rest /\ Head(cpu[c].rest) = cpu[c].rest[1]
         /\ \A i \in DOMAIN cpu[c].rest : ~(i < 1)
<1>1. Good(cpu[c])
  BY DEF IInv, TypeInv
<1> QED BY <1>1 DEF PathInv, Good

\* None of them looks at a packet that it has freed or handed on, but at the lines
\* listed in LooksTooLate.
THEOREM PacketAlwaysOwn == ASSUME Tables = Handlers PROVE Spec => []ReadsOwnPacket
<1>1. ASSUME IInv, PathInv, NEW c \in CPUs, Looks(c), cpu[c].f \notin LooksTooLate
      PROVE  cpu[c].pkt = "ours"
  <2>1. cpu[c].rest # <<>> /\ Head(cpu[c].rest) \in Inspects \cup {"read"}
    BY <1>1 DEF Looks, At
  <2> QED BY <1>1, <2>1, HeadOf DEF Follows, Late
<1>2. IInv /\ PathInv => ReadsOwnPacket
  BY <1>1 DEF ReadsOwnPacket
<1> QED BY <1>2, AlwaysInv, PathAlwaysFollowed, PTL

\* None of them reads a header through a pointer from before the header could move, but
\* at the lines listed in OldPointer.
THEOREM HeaderAlwaysCurrent == ASSUME Tables = Handlers PROVE Spec => []ReadsCurrentHeader
<1>1. ASSUME IInv, PathInv, NEW c \in CPUs, NEW by \in DOMAIN OldPointer,
             At(c, {"see", "read"}), cpu[c].held = by
      PROVE  cpu[c].f \in OldPointer[by]
  <2>1. cpu[c].rest # <<>> /\ Head(cpu[c].rest) \in {"see", "read"}
    BY <1>1 DEF At
  <2>2. by \in Movers
    BY DEF Movers, OldPointer
  <2>3. ReadsFirst(cpu[c].rest)
    BY <1>1, <2>1, HeadOf DEF ReadsFirst
  <2> QED BY <1>1, <2>1, <2>2, <2>3, HeadOf DEF Follows
<1>2. IInv /\ PathInv => ReadsCurrentHeader
  BY <1>1 DEF ReadsCurrentHeader
<1> QED BY <1>2, AlwaysInv, PathAlwaysFollowed, PTL

\* None of them takes a packet of another protocol for an IP packet, but those listed in
\* TakesAllForIp.
THEOREM AlwaysIp == ASSUME Tables = Handlers PROVE Spec => []SeesOnlyIp
<1>1. ASSUME IInv, PathInv, NEW c \in CPUs, At(c, Inspects), Wanted(c),
             cpu[c].f \notin TakesAllForIp
      PROVE  cpu[c].ip
  <2>1. cpu[c].rest # <<>> /\ Head(cpu[c].rest) \in Inspects
    BY <1>1 DEF At
  <2>2. CASE Head(cpu[c].rest) = "seeip"
    BY <1>1, <2>1, <2>2 DEF Wanted, At
  <2>3. CASE Head(cpu[c].rest) \in {"see", "seeany"}
    BY <1>1, <2>1, <2>3, HeadOf DEF Follows, InOrder
  <2> QED BY <2>1, <2>2, <2>3 DEF Inspects
<1>2. IInv /\ PathInv => SeesOnlyIp
  BY <1>1 DEF SeesOnlyIp
<1> QED BY <1>2, AlwaysInv, PathAlwaysFollowed, PTL

\* Each function of the kernel that they replace gives its packet away exactly once, on
\* every path through it.
THEOREM PacketAlwaysGiven == ASSUME Tables = Handlers PROVE Spec => []GivenOnce
<1>1. ASSUME IInv, PathInv, NEW c \in CPUs, At(c, {"out", "free"})
      PROVE  cpu[c].pkt = "ours"
  <2>1. cpu[c].rest # <<>> /\ Head(cpu[c].rest) \in {"out", "free"}
    BY <1>1 DEF At
  <2> QED BY <1>1, <2>1, HeadOf DEF Follows, Late
<1>2. ASSUME IInv, PathInv, NEW c \in CPUs, cpu[c].f # None, cpu[c].rest = <<>>, Row(c).gives
      PROVE  cpu[c].pkt = "gone"
  <2>1. DOMAIN cpu[c].rest = {}
    BY <1>2
  <2> QED BY <1>2, <2>1 DEF PathInv, Follows, Whole, Row
<1>3. IInv /\ PathInv => GivenOnce
  BY <1>1, <1>2 DEF GivenOnce
<1> QED BY <1>3, AlwaysInv, PathAlwaysFollowed, PTL

-----------------------------------------------------------------------------
(* The marks: none is lost between the packet that left it and the report. *)

\* The marks to come, by the entries alone.
ToTell(f) ==
  {p \in Descs \X Nat : f[p[1]].at \in {"tree", "list"} /\ 1 <= p[2] /\ p[2] <= f[p[1]].n}

\* An entry that did not get into the tree is marked once, by the CPU that made it.
StrayInv ==
  \A d \in Descs : info[d].at = "stray" =>
    info[d].n = 0 \/ (info[d].n = 1 /\ \A c \in CPUs : cpu[c].desc # d)

TallyInv ==
  /\ seen \in Nat /\ told \in Nat /\ late \in Nat
  /\ \A d \in Descs : info[d].at = "made" => info[d].n = 0
  /\ StrayInv /\ IsFiniteSet(Unseen) /\ IsFiniteSet(ToTell(info))
  /\ seen = told + late + Cardinality(ToTell(info)) + Cardinality(Unseen)

\* What is due are the entries in the tree and those on the list.
LEMMA MarksToTell == IInv => Marks = ToTell(info)
<1> SUFFICES ASSUME IInv PROVE Marks = ToTell(info)
  OBVIOUS
<1> USE DEF IInv
<1>1. \A d \in Descs : d \in Due <=> info[d].at \in {"tree", "list"}
  BY DEF Due, Entries, TypeInv, TableInv
<1>2. Due \subseteq Descs
  BY DEF Due, Entries
<1>3. \A d \in Descs : info[d].n \in Nat
  BY DEF TypeInv, Entry
<1>4. \A p : p \in Marks <=> \E d \in Due : \E i \in 1..info[d].n : p = <<d, i>>
  BY DEF Marks
<1>5. \A p : p \in ToTell(info) <=>
        \E d \in Descs : \E i \in Nat : /\ p = <<d, i>> /\ info[d].at \in {"tree", "list"}
                                       /\ 1 <= i /\ i <= info[d].n
  BY DEF ToTell
<1>6. ASSUME NEW p, p \in Marks PROVE p \in ToTell(info)
  <2>1. PICK d \in Due : \E i \in 1..info[d].n : p = <<d, i>>
    BY <1>4, <1>6
  <2>2. PICK i \in 1..info[d].n : p = <<d, i>>
    BY <2>1
  <2>3. d \in Descs /\ info[d].at \in {"tree", "list"} /\ info[d].n \in Nat
    BY <1>1, <1>2, <1>3
  <2>4. i \in Nat /\ 1 <= i /\ i <= info[d].n
    BY <2>3
  <2> QED BY <1>5, <2>2, <2>3, <2>4
<1>7. ASSUME NEW p, p \in ToTell(info) PROVE p \in Marks
  <2>1. PICK d \in Descs : \E i \in Nat : /\ p = <<d, i>> /\ info[d].at \in {"tree", "list"}
                                          /\ 1 <= i /\ i <= info[d].n
    BY <1>5, <1>7
  <2>2. PICK i \in Nat : /\ p = <<d, i>> /\ info[d].at \in {"tree", "list"}
                         /\ 1 <= i /\ i <= info[d].n
    BY <2>1
  <2>3. d \in Due /\ i \in 1..info[d].n
    BY <1>1, <1>3, <2>2
  <2> QED BY <1>4, <2>2, <2>3
<1> QED BY <1>6, <1>7

\* Entries that are not due, before or after, do not count.
LEMMA SameMarks ==
  ASSUME NEW f, NEW g,
         \A d \in Descs : g[d].at \in {"tree", "list"} <=> f[d].at \in {"tree", "list"},
         \A d \in Descs : f[d].at \in {"tree", "list"} => g[d].n = f[d].n
  PROVE  ToTell(g) = ToTell(f)
BY DEF ToTell

\* A mark on an entry that is due, or becomes due with it, is one more.
LEMMA OneMoreMark ==
  ASSUME NEW f, NEW g, NEW d \in Descs, NEW n \in Nat, IsFiniteSet(ToTell(f)),
         \A e \in Descs \ {d} : g[e] = f[e],
         g[d].at \in {"tree", "list"}, g[d].n = n + 1,
         IF f[d].at \in {"tree", "list"} THEN f[d].n = n ELSE n = 0
  PROVE  /\ IsFiniteSet(ToTell(g))
         /\ Cardinality(ToTell(g)) = Cardinality(ToTell(f)) + 1
<1>1. <<d, n + 1>> \notin ToTell(f)
  BY DEF ToTell
<1>2. ASSUME NEW e \in Descs, NEW i \in Nat
      PROVE  <<e, i>> \in ToTell(g) <=> <<e, i>> \in ToTell(f) \/ (e = d /\ i = n + 1)
  <2>1. CASE e # d
    BY <2>1 DEF ToTell
  <2>2. CASE e = d /\ f[d].at \in {"tree", "list"}
    BY <2>2 DEF ToTell
  <2>3. CASE e = d /\ f[d].at \notin {"tree", "list"}
    BY <2>3 DEF ToTell
  <2> QED BY <2>1, <2>2, <2>3
<1>3. ToTell(g) \subseteq Descs \X Nat /\ ToTell(f) \subseteq Descs \X Nat
  BY DEF ToTell
<1>4. ToTell(g) = ToTell(f) \cup {<<d, n + 1>>}
  <2>1. <<d, n + 1>> \in Descs \X Nat
    OBVIOUS
  <2>2. \A p \in Descs \X Nat : p = <<p[1], p[2]>> /\ p[1] \in Descs /\ p[2] \in Nat
    OBVIOUS
  <2>3. \A p \in Descs \X Nat : p \in ToTell(g) <=> p \in ToTell(f) \/ p = <<d, n + 1>>
    BY <1>2, <2>2
  <2> QED BY <1>3, <2>1, <2>3
<1> QED BY <1>1, <1>4, FS_AddElement

\* A report takes the marks of its entry away.
LEMMA MarksTold ==
  ASSUME NEW f, NEW g, NEW d \in Descs, f[d].n \in Nat, f[d].at = "list",
         IsFiniteSet(ToTell(f)),
         \A e \in Descs \ {d} : g[e] = f[e], g[d].at = "done"
  PROVE  /\ IsFiniteSet(ToTell(g))
         /\ Cardinality(ToTell(f)) = f[d].n + Cardinality(ToTell(g))
<1> DEFINE P == {d} \X (1..f[d].n)
<1>1. IsFiniteSet(P) /\ Cardinality(P) = f[d].n
  <2>1. IsFiniteSet(1..f[d].n) /\ Cardinality(1..f[d].n) = f[d].n
    <3>1. /\ IsFiniteSet(1..f[d].n)
          /\ Cardinality(1..f[d].n) = IF 1 > f[d].n THEN 0 ELSE f[d].n - 1 + 1
      BY SMTT(30), FS_Interval
    <3> QED BY <3>1
  <2>2. IsFiniteSet({d}) /\ Cardinality({d}) = 1
    BY FS_Singleton
  <2>3. IsFiniteSet(P) /\ Cardinality(P) = Cardinality({d}) * Cardinality(1..f[d].n)
    BY <2>1, <2>2, FS_Product
  <2> QED BY <2>1, <2>2, <2>3
<1>2. P \subseteq ToTell(f)
  BY DEF ToTell
<1>3. ToTell(g) = ToTell(f) \ P
  <2>1. ASSUME NEW p \in Descs \X Nat
        PROVE  p \in ToTell(g) <=> p \in ToTell(f) /\ p \notin P
    <3>1. p[1] \in Descs /\ p[2] \in Nat /\ p = <<p[1], p[2]>>
      OBVIOUS
    <3>2. CASE p[1] = d
      BY <3>1, <3>2 DEF ToTell
    <3>3. CASE p[1] # d
      BY <3>1, <3>3 DEF ToTell
    <3> QED BY <3>2, <3>3
  <2>2. ToTell(g) \subseteq Descs \X Nat /\ ToTell(f) \subseteq Descs \X Nat
    BY DEF ToTell
  <2> QED BY <2>1, <2>2
<1> HIDE DEF P
<1>4. ToTell(f) \cap P = P
  BY <1>2
<1>5. Cardinality(ToTell(f)) \in Nat
  BY FS_CardinalityType
<1>6. IsFiniteSet(ToTell(g)) /\ Cardinality(ToTell(g)) = Cardinality(ToTell(f)) - Cardinality(P)
  <2>1. /\ IsFiniteSet(ToTell(f) \ P)
        /\ Cardinality(ToTell(f) \ P) = Cardinality(ToTell(f)) - Cardinality(ToTell(f) \cap P)
    BY FS_Difference
  <2> QED BY <1>3, <1>4, <2>1
<1> QED BY <1>1, <1>5, <1>6

\* A step that leaves the entries outside the tree alone, but for a new one.
LEMMA SameStrays ==
  ASSUME StrayInv,
         \A d \in Descs : info[d].at = "stray" => info'[d] = info[d],
         \A d \in Descs : info'[d].at = "stray" => info[d].at = "stray" \/ info'[d].n = 0,
         \A c \in CPUs, d \in Descs :
           cpu'[c].desc = d => cpu[c].desc = d \/ info'[d].at # "stray"
  PROVE  Unseen' = Unseen /\ StrayInv'
<1>1. \A d \in Descs : info'[d].at = "stray" /\ info'[d].n = 1 <=>
                       info[d].at = "stray" /\ info[d].n = 1
  OBVIOUS
<1>2. Unseen' = Unseen
  BY <1>1 DEF Unseen, Entries
<1>3. StrayInv'
  BY DEF StrayInv
<1> QED BY <1>2, <1>3

\* Only the mark of the CPU that made the entry changes one outside the tree.
LEMMA StraysKept ==
  ASSUME IInv, TallyInv, Next,
         ~ \E c \in CPUs : Stamp(c) /\ info[cpu[c].desc].at = "stray"
  PROVE  Unseen' = Unseen /\ StrayInv'
<1> USE DEF IInv
<1>1. info \in [Descs -> Entry] /\ \A c \in CPUs : cpu[c].desc \in Descs \cup {None}
  BY DEF TypeInv, Good
<1>2. CASE \E c \in CPUs : Passes(c)
  <2>1. PICK c \in CPUs : Passes(c)
    BY <1>2
  <2>2. info' = info /\ \E r : r.desc = None /\ cpu' = [cpu EXCEPT ![c] = r]
    BY <2>1, PassesBy DEF tableSame
  <2>3. \A e \in CPUs, d \in Descs : cpu'[e].desc = d => cpu[e].desc = d
    BY <2>2 DEF TypeInv
  <2> QED BY <2>2, <2>3, SameStrays DEF TallyInv
<1>3. ASSUME NEW c \in CPUs, Look(c) PROVE Unseen' = Unseen /\ StrayInv'
  <2>1. PICK x \in Descs \cup {None} :
          /\ \/ cpu' = [cpu EXCEPT ![c] = Past(c)] /\ info' = info
             \/ /\ cpu' = [cpu EXCEPT ![c] = [cpu[c] EXCEPT !.desc = x]]
                /\ info' = info /\ x = tree[cpu[c].key] /\ x # None
             \/ /\ cpu' = [cpu EXCEPT ![c] = [cpu[c] EXCEPT !.desc = x]]
                /\ x # None /\ info[x].at = "free"
                /\ info' = [info EXCEPT ![x] = [at |-> "made", key |-> cpu[c].key, n |-> 0]]
    <3>1. cpu[c].key \in Keys
      BY <1>3 DEF Look, Wanted, TypeInv, Good
    <3>2. tree[cpu[c].key] \in Descs \cup {None}
      BY <3>1 DEF TypeInv
    <3>3. \A d \in Entries("free") : d \in Descs /\ d # None /\ info[d].at = "free"
      BY DEF Entries
    <3> QED BY <1>3, <3>2, <3>3 DEF Look, Goes
  <2>2. cpu[c].desc = None /\ Past(c).desc = None
    BY <1>3 DEF Look, Past, TypeInv, Good
  <2>3. x = tree[cpu[c].key] /\ x # None => info[x].at = "tree"
    BY <1>3 DEF Look, Wanted, TypeInv, Good, TableInv
  <2>4. [cpu[c] EXCEPT !.desc = x].desc = x
    BY DEF TypeInv, Good
  <2>5. \A e \in CPUs \ {c} : cpu'[e].desc = cpu[e].desc
    BY <2>1 DEF TypeInv
  <2>6. cpu'[c].desc = None \/ (cpu'[c].desc = x /\ x \in Descs /\ info'[x].at # "stray")
    <3>1. CASE cpu' = [cpu EXCEPT ![c] = Past(c)]
      BY <2>2, <3>1 DEF TypeInv
    <3>2. CASE /\ cpu' = [cpu EXCEPT ![c] = [cpu[c] EXCEPT !.desc = x]]
               /\ info' = info /\ x = tree[cpu[c].key] /\ x # None
      BY <2>3, <2>4, <3>2 DEF TypeInv
    <3>3. CASE /\ cpu' = [cpu EXCEPT ![c] = [cpu[c] EXCEPT !.desc = x]]
               /\ x # None /\ info[x].at = "free"
               /\ info' = [info EXCEPT ![x] = [at |-> "made", key |-> cpu[c].key, n |-> 0]]
      <4>1. info'[x].at = "made"
        BY <1>1, <3>3
      <4> QED BY <2>4, <3>3, <4>1 DEF TypeInv
    <3> QED BY <2>1, <3>1, <3>2, <3>3
  <2>7. \A d \in Descs : info'[d] = info[d] \/ (info[d].at # "stray" /\ info'[d].at # "stray")
    BY <1>1, <2>1
  <2> QED BY <2>5, <2>6, <2>7, SameStrays DEF TallyInv
<1>4. ASSUME NEW c \in CPUs, Add(c) PROVE Unseen' = Unseen /\ StrayInv'
  <2>1. PICK d \in Descs : d = cpu[c].desc
    BY <1>4 DEF Add, TypeInv, Good
  <2>2. info[d].at = "made" /\ info[d].n = 0
    BY <1>4, <2>1 DEF Add, TallyInv
  <2>3. (\A e \in Descs \ {d} : info'[e] = info[e]) /\ info'[d].n = 0
    <3>1. CASE info' = [info EXCEPT ![d] = Fresh]
      BY <1>1, <3>1 DEF Fresh
    <3>2. CASE \E at \in {"tree", "stray"} : info' = [info EXCEPT ![d].at = at]
      BY <1>1, <2>2, <3>2
    <3> QED BY <1>4, <2>1, <3>1, <3>2 DEF Add
  <2>4. \A e \in CPUs : cpu'[e].desc # cpu[e].desc => info'[cpu'[e].desc].at = "tree"
    <3>1. CASE tree[cpu[c].key] = None
      BY <1>4, <3>1 DEF Add, Goes, TypeInv
    <3>2. CASE tree[cpu[c].key] # None
      <4>1. cpu[c].key \in Keys
        BY <1>4 DEF Add, TableInv, Wanted, TypeInv, Good
      <4>2. tree[cpu[c].key] \in Descs \ {d} /\ info[tree[cpu[c].key]].at = "tree"
        BY <2>2, <3>2, <4>1 DEF TypeInv, TableInv
      <4>3. cpu' = [cpu EXCEPT ![c] = [cpu[c] EXCEPT !.desc = tree[cpu[c].key]]]
        BY <1>4, <3>2 DEF Add, Goes
      <4> QED BY <2>3, <4>2, <4>3 DEF TypeInv, Good
    <3> QED BY <3>1, <3>2
  <2> QED BY <2>2, <2>3, <2>4, SameStrays DEF TallyInv
<1>5. ASSUME NEW c \in CPUs, Stamp(c) PROVE Unseen' = Unseen /\ StrayInv'
  <2>1. PICK d \in Descs : d = cpu[c].desc
    BY <1>5 DEF Stamp, TypeInv, Good
  <2>2. info[d].at # "stray" /\ info' = [info EXCEPT ![d].n = @ + 1]
    BY <1>5, <2>1 DEF Stamp
  <2>3. cpu' = [cpu EXCEPT ![c] = [Past(c) EXCEPT !.desc = None]]
    BY <1>5 DEF Stamp, Goes
  <2>4. (\A e \in Descs \ {d} : info'[e] = info[e]) /\ info'[d].at = info[d].at
    BY <1>1, <2>2
  <2>5. \A e \in CPUs, x \in Descs : cpu'[e].desc = x => cpu[e].desc = x
    <3>1. [Past(c) EXCEPT !.desc = None].desc = None
      BY DEF Past, TypeInv, Good
    <3> QED BY <2>3, <3>1 DEF TypeInv
  <2> QED BY <2>2, <2>4, <2>5, SameStrays DEF TallyInv
<1>6. ASSUME NEW c \in CPUs, Tally(c) PROVE Unseen' = Unseen /\ StrayInv'
  <2>1. \A e \in Descs : info'[e] = info[e] \/ (info[e].at # "stray" /\ info'[e].at # "stray")
    <3>1. cpu[c].key \in Keys \cup {None}
      BY DEF TypeInv, Good
    <3>2. CASE UNCHANGED info
      BY <3>2
    <3>3. CASE \E d \in Descs : info[d].at = "tree" /\ info' = [info EXCEPT ![d].n = @ + 1]
      BY <1>1, <3>3
    <3>4. CASE \E d \in Descs, k \in Keys :
                 /\ info[d].at = "free"
                 /\ info' = [info EXCEPT ![d] = [at |-> "tree", key |-> k, n |-> 1]]
      BY <1>1, <3>4
    <3>5. \A k \in Keys : tree[k] # None => tree[k] \in Descs /\ info[tree[k]].at = "tree"
      BY DEF TypeInv, TableInv
    <3> QED BY <1>6, <3>1, <3>2, <3>3, <3>4, <3>5 DEF Tally, Entries
  <2>2. cpu' = [cpu EXCEPT ![c] = Past(c)] /\ Past(c).desc = cpu[c].desc
    BY <1>6 DEF Tally, Goes, Past, TypeInv, Good
  <2>3. \A e \in CPUs : cpu'[e].desc = cpu[e].desc
    BY <2>2 DEF TypeInv
  <2> QED BY <2>1, <2>3, SameStrays DEF TallyInv
<1>7. CASE move_to_list
  BY <1>1, <1>7, SameStrays DEF move_to_list, Moves, TallyInv, Entry
<1>8. ASSUME NEW d \in Descs, Report(d) \/ Reclaim(d) PROVE Unseen' = Unseen /\ StrayInv'
  <2>1. cpu' = cpu /\ info[d].at # "stray"
    BY <1>8 DEF Report, Reclaim
  <2>2. (\A e \in Descs \ {d} : info'[e] = info[e]) /\ info'[d].at # "stray"
    <3>1. CASE info' = [info EXCEPT ![d].at = "done"]
      BY <1>1, <3>1
    <3>2. CASE info' = [info EXCEPT ![d] = Fresh]
      BY <1>1, <3>2 DEF Fresh
    <3> QED BY <1>8, <3>1, <3>2 DEF Report, Reclaim
  <2> QED BY <2>1, <2>2, SameStrays DEF TallyInv
<1> QED BY <1>2, <1>3, <1>4, <1>5, <1>6, <1>7, <1>8 DEF Next, Step, Passes

LEMMA TallyStays ==
  ASSUME IInv, TallyInv, UNCHANGED <<seen, told, late>>, ToTell(info') = ToTell(info),
         \A d \in Descs : info'[d].at = "made" => info'[d].n = 0,
         Unseen' = Unseen /\ StrayInv'
  PROVE  TallyInv'
BY DEF TallyInv

\* The mark on an entry outside the tree: nobody else will mark it.
LEMMA TallyStray ==
  ASSUME IInv, TallyInv, NEW c \in CPUs, Stamp(c), info[cpu[c].desc].at = "stray"
  PROVE  TallyInv'
<1> USE DEF IInv
<1>1. PICK d \in Descs : d = cpu[c].desc
  BY DEF Stamp, TypeInv, Good
<1>2. info \in [Descs -> Entry] /\ d # None
  BY <1>1 DEF TypeInv, Stamp
<1>3. info[d].at = "stray" /\ info[d].n = 0
  BY <1>1 DEF TallyInv, StrayInv
<1>4. /\ seen' = seen + 1 /\ told' = told /\ late' = late
      /\ info' = [info EXCEPT ![d].n = @ + 1]
      /\ cpu' = [cpu EXCEPT ![c] = [Past(c) EXCEPT !.desc = None]]
  BY <1>1, <1>3 DEF Stamp, Goes
<1>5. (\A e \in Descs \ {d} : info'[e] = info[e]) /\ info'[d].at = "stray" /\ info'[d].n = 1
  BY <1>2, <1>3, <1>4
<1>6. ToTell(info') = ToTell(info)
  <2>1. \A e \in Descs : info'[e].at \in {"tree", "list"} <=> info[e].at \in {"tree", "list"}
    BY <1>3, <1>5
  <2>2. \A e \in Descs : info[e].at \in {"tree", "list"} => info'[e].n = info[e].n
    BY <1>3, <1>5
  <2> QED BY <2>1, <2>2, SameMarks
<1>7. Unseen' = Unseen \cup {d} /\ d \notin Unseen
  BY <1>3, <1>5 DEF Unseen, Entries
<1>8. IsFiniteSet(Unseen') /\ Cardinality(Unseen') = Cardinality(Unseen) + 1
  BY <1>7, FS_AddElement DEF TallyInv
<1>9. StrayInv'
  <2>1. [Past(c) EXCEPT !.desc = None].desc = None
    BY DEF Past, TypeInv, Good
  <2>2. \A e \in CPUs : cpu'[e].desc # d
    BY <1>1, <1>2, <1>3, <1>4, <2>1 DEF TableInv, TypeInv
  <2>3. \A e \in CPUs : cpu'[e].desc = cpu[e].desc \/ cpu'[e].desc = None
    BY <1>4, <2>1 DEF TypeInv
  <2>4. None \notin Descs
    OBVIOUS
  <2> QED BY <1>5, <2>2, <2>3, <2>4 DEF StrayInv, TallyInv
<1>10. Cardinality(ToTell(info)) \in Nat /\ Cardinality(Unseen) \in Nat
  BY FS_CardinalityType DEF TallyInv
<1>11. \A e \in Descs : info'[e].at = "made" => info'[e].n = 0
  BY <1>5 DEF TallyInv
<1> QED BY <1>4, <1>6, <1>8, <1>9, <1>10, <1>11 DEF TallyInv

LEMMA TallyStep ==
  ASSUME IInv, TallyInv, NEW c \in CPUs, Step(c),
         ~ \E e \in CPUs : Stamp(e) /\ info[cpu[e].desc].at = "stray"
  PROVE  TallyInv'
<1> USE DEF IInv
<1>0. \A d \in Descs : info[d].n \in Nat /\ (info[d].at = "made" => info[d].n = 0)
  BY DEF TypeInv, Entry, TallyInv
<1>1. /\ Cardinality(ToTell(info)) \in Nat /\ Cardinality(Unseen) \in Nat
      /\ info \in [Descs -> Entry]
  BY FS_CardinalityType DEF TallyInv, TypeInv
<1>7. Unseen' = Unseen /\ StrayInv'
  BY StraysKept DEF Next
<1>2. CASE Passes(c)
  <2>1. tableSame
    BY <1>2, PassesBy
  <2> QED BY <1>7, <2>1 DEF tableSame, TallyInv
<1>3. CASE Look(c)
  <2>1. UNCHANGED <<seen, told, late>>
    BY <1>3 DEF Look
  <2>2. \/ info' = info
        \/ \E d \in Entries("free") :
             info' = [info EXCEPT ![d] = [at |-> "made", key |-> cpu[c].key, n |-> 0]]
    BY <1>3 DEF Look
  <2>3. ToTell(info') = ToTell(info) /\ \A d \in Descs : info'[d].at = "made" => info'[d].n = 0
    <3>1. \A d \in Descs : info'[d].at \in {"tree", "list"} <=> info[d].at \in {"tree", "list"}
      BY <1>1, <2>2 DEF Entries
    <3>2. \A d \in Descs : /\ info[d].at \in {"tree", "list"} => info'[d].n = info[d].n
                           /\ info'[d].at = "made" => info'[d].n = 0
      BY <1>0, <1>1, <2>2 DEF Entries
    <3> QED BY <3>1, <3>2, SameMarks
  <2> QED BY <1>7, <2>1, <2>3, TallyStays
<1>4. CASE Add(c)
  <2>1. UNCHANGED <<seen, told, late>>
    BY <1>4 DEF Add
  <2>2. PICK d \in Descs : d = cpu[c].desc
    BY <1>4 DEF Add, TypeInv, Good
  <2>3. info[d].at = "made" /\ info[d].n = 0
    BY <1>0, <1>4, <2>2 DEF Add
  <2>4. (\A e \in Descs \ {d} : info'[e] = info[e]) /\ info'[d].n = 0
    <3>1. CASE info' = [info EXCEPT ![d] = Fresh]
      BY <1>1, <3>1 DEF Fresh
    <3>2. CASE \E at \in {"tree", "stray"} : info' = [info EXCEPT ![d].at = at]
      BY <1>1, <2>3, <3>2
    <3> QED BY <1>4, <2>2, <3>1, <3>2 DEF Add
  <2>5. \A e \in Descs : info'[e].at = "made" => info'[e].n = 0
    BY <1>0, <2>4
  <2>6. ToTell(info') = ToTell(info)
    <3>1. ASSUME NEW e \in Descs, NEW i \in Nat
          PROVE  /\ info'[e].at \in {"tree", "list"} /\ 1 <= i /\ i <= info'[e].n
                    <=> info[e].at \in {"tree", "list"} /\ 1 <= i /\ i <= info[e].n
      BY <2>3, <2>4
    <3> QED BY <3>1 DEF ToTell
  <2> QED BY <1>7, <2>1, <2>5, <2>6, TallyStays
<1>5. CASE Stamp(c)
  <2>0. PICK d \in Descs : d = cpu[c].desc
    BY <1>5 DEF Stamp, TypeInv, Good
  <2>1. info[d].at \in {"tree", "list", "done"} /\ info[d].n \in Nat
    <3>1. info[d].at \notin {"made", "free", "stray"}
      BY <1>5, <2>0 DEF Stamp, TableInv
    <3> QED BY <1>0, <1>1, <3>1 DEF Entry
  <2>2. /\ seen' = seen + 1 /\ told' = told /\ info' = [info EXCEPT ![d].n = @ + 1]
        /\ late' = IF info[d].at = "done" THEN late + 1 ELSE late
    BY <1>5, <2>0 DEF Stamp
  <2>3. /\ \A e \in Descs \ {d} : info'[e] = info[e]
        /\ info'[d].at = info[d].at /\ info'[d].n = info[d].n + 1
    BY <1>1, <2>1, <2>2
  <2>4. \A e \in Descs : info'[e].at = "made" => info'[e].n = 0
    BY <1>0, <2>1, <2>3
  <2>5. CASE info[d].at = "done"
    <3>1. ToTell(info') = ToTell(info)
      <4>1. \A e \in Descs : info'[e].at \in {"tree", "list"} <=> info[e].at \in {"tree", "list"}
        BY <2>3
      <4>2. \A e \in Descs : info[e].at \in {"tree", "list"} => info'[e].n = info[e].n
        BY <2>3, <2>5
      <4> QED BY <4>1, <4>2, SameMarks
    <3> QED BY <1>1, <1>7, <2>2, <2>4, <2>5, <3>1 DEF TallyInv
  <2>6. CASE info[d].at \in {"tree", "list"}
    <3>1. /\ IsFiniteSet(ToTell(info'))
          /\ Cardinality(ToTell(info')) = Cardinality(ToTell(info)) + 1
      BY SMTT(30), <2>1, <2>3, <2>6, OneMoreMark DEF TallyInv
    <3>2. late' = late
      BY <2>2, <2>6
    <3> QED BY <1>1, <1>7, <2>2, <2>4, <3>1, <3>2 DEF TallyInv
  <2> QED BY <2>1, <2>5, <2>6
<1>6. CASE Tally(c)
  <2>1. told' = told /\ late' = late
    BY <1>6 DEF Tally
  <2>2. CASE UNCHANGED <<info, seen>>
    BY <1>7, <2>1, <2>2 DEF TallyInv
  <2>3. CASE \E k \in Keys : /\ tree[k] # None /\ seen' = seen + 1
                             /\ info' = [info EXCEPT ![tree[k]].n = @ + 1]
    <3>1. PICK k \in Keys : /\ tree[k] # None /\ seen' = seen + 1
                            /\ info' = [info EXCEPT ![tree[k]].n = @ + 1]
      BY <2>3
    <3>2. PICK d \in Descs : d = tree[k]
      BY <3>1 DEF TypeInv
    <3>3. info[d].at = "tree" /\ info[d].n \in Nat
      BY <1>0, <3>1, <3>2 DEF TableInv
    <3>4. /\ \A e \in Descs \ {d} : info'[e] = info[e]
          /\ info'[d].at = "tree" /\ info'[d].n = info[d].n + 1
      BY <1>1, <3>1, <3>2, <3>3
    <3>5. /\ IsFiniteSet(ToTell(info'))
          /\ Cardinality(ToTell(info')) = Cardinality(ToTell(info)) + 1
      BY <3>3, <3>4, OneMoreMark DEF TallyInv
    <3>6. \A e \in Descs : info'[e].at = "made" => info'[e].n = 0
      BY <1>0, <3>4
    <3> QED BY <1>1, <1>7, <2>1, <3>1, <3>5, <3>6 DEF TallyInv
  <2>4. CASE \E k \in Keys, d \in Entries("free") :
               /\ info' = [info EXCEPT ![d] = [at |-> "tree", key |-> k, n |-> 1]]
               /\ seen' = seen + 1
    <3>1. PICK k \in Keys, d \in Entries("free") :
               /\ info' = [info EXCEPT ![d] = [at |-> "tree", key |-> k, n |-> 1]]
               /\ seen' = seen + 1
      BY <2>4
    <3>2. d \in Descs /\ info[d].at = "free"
      BY DEF Entries
    <3>3. /\ \A e \in Descs \ {d} : info'[e] = info[e]
          /\ info'[d].at = "tree" /\ info'[d].n = 0 + 1
      BY <1>1, <3>1, <3>2
    <3>4. /\ IsFiniteSet(ToTell(info'))
          /\ Cardinality(ToTell(info')) = Cardinality(ToTell(info)) + 1
      BY <3>2, <3>3, OneMoreMark DEF TallyInv
    <3>5. \A e \in Descs : info'[e].at = "made" => info'[e].n = 0
      BY <1>0, <3>3
    <3>6. seen' = seen + 1 /\ seen \in Nat /\ told \in Nat /\ late \in Nat
      BY <3>1 DEF TallyInv
    <3>7. seen' = told' + late' + Cardinality(ToTell(info')) + Cardinality(Unseen')
      BY <1>1, <1>7, <2>1, <3>4, <3>6 DEF TallyInv
    <3> QED BY <1>7, <2>1, <3>4, <3>5, <3>6, <3>7 DEF TallyInv
  <2>5. cpu[c].key \in Keys \cup {None}
    BY DEF TypeInv, Good
  <2> QED BY <1>6, <2>2, <2>3, <2>4, <2>5 DEF Tally
<1> QED BY <1>2, <1>3, <1>4, <1>5, <1>6 DEF Step, Passes

LEMMA TallyDump ==
  ASSUME IInv, TallyInv, move_to_list \/ \E d \in Descs : Report(d) \/ Reclaim(d)
  PROVE  TallyInv'
<1> USE DEF IInv
<1>1. /\ Cardinality(ToTell(info)) \in Nat /\ Cardinality(Unseen) \in Nat
      /\ info \in [Descs -> Entry]
  BY FS_CardinalityType DEF TallyInv, TypeInv
<1>5. Unseen' = Unseen /\ StrayInv'
  <2>1. cpu' = cpu /\ Next
    BY DEF Next, move_to_list, Report, Reclaim
  <2>2. \A d \in Descs : /\ info[d].at = "stray" => info'[d] = info[d]
                         /\ info'[d].at = "stray" => info[d].at = "stray"
    BY SMTT(30), <1>1 DEF move_to_list, Moves, Report, Reclaim, Entry, Fresh
  <2> QED BY <2>1, <2>2, SameStrays DEF TallyInv
<1>2. CASE move_to_list
  <2>1. info' = Moves /\ UNCHANGED <<seen, told, late>>
    BY <1>2 DEF move_to_list
  <2>2. \A d \in Descs :
          /\ info'[d].at \in {"tree", "list"} <=> info[d].at \in {"tree", "list"}
          /\ info'[d].at = "made" <=> info[d].at = "made"
          /\ info'[d].n = info[d].n
    BY <1>1, <2>1 DEF Moves, Entry
  <2>3. ToTell(info') = ToTell(info)
    BY <2>2, SameMarks
  <2> QED BY <1>5, <2>1, <2>2, <2>3, TallyStays DEF TallyInv
<1>3. ASSUME NEW d \in Descs, Report(d) PROVE TallyInv'
  <2>1. /\ info[d].at = "list" /\ info[d].n \in Nat
        /\ told' = told + info[d].n /\ UNCHANGED <<seen, late>>
        /\ info' = [info EXCEPT ![d].at = "done"]
    BY <1>1, <1>3 DEF Report, Entry
  <2>2. (\A e \in Descs \ {d} : info'[e] = info[e]) /\ info'[d].at = "done"
    BY <1>1, <2>1
  <2>3. /\ IsFiniteSet(ToTell(info'))
        /\ Cardinality(ToTell(info)) = info[d].n + Cardinality(ToTell(info'))
    <3>1. IsFiniteSet(ToTell(info))
      BY DEF TallyInv
    <3>2. info'[d].at = "done" /\ info[d].at = "list" /\ info[d].n \in Nat
      BY <2>1, <2>2
    <3>3. \A e \in Descs \ {d} : info'[e] = info[e]
      BY <2>2
    <3> QED BY <3>1, <3>2, <3>3, MarksTold
  <2>4. Cardinality(ToTell(info')) \in Nat
    BY <2>3, FS_CardinalityType
  <2>5. \A e \in Descs : info'[e].at = "made" => info'[e].n = 0
    BY <2>2 DEF TallyInv
  <2> QED BY SMTT(30), <1>1, <1>5, <2>1, <2>3, <2>4, <2>5 DEF TallyInv
<1>4. ASSUME NEW d \in Descs, Reclaim(d) PROVE TallyInv'
  <2>1. /\ info[d].at = "done" /\ UNCHANGED <<seen, told, late>>
        /\ info' = [info EXCEPT ![d] = Fresh]
    BY <1>4 DEF Reclaim
  <2>2. (\A e \in Descs \ {d} : info'[e] = info[e]) /\ info'[d].at = "free"
    BY <1>1, <2>1 DEF Fresh
  <2>3. ToTell(info') = ToTell(info)
    <3>1. \A e \in Descs : info'[e].at \in {"tree", "list"} <=> info[e].at \in {"tree", "list"}
      BY <2>1, <2>2
    <3>2. \A e \in Descs : info[e].at \in {"tree", "list"} => info'[e].n = info[e].n
      BY <2>1, <2>2
    <3> QED BY <3>1, <3>2, SameMarks
  <2>4. \A e \in Descs : info'[e].at = "made" => info'[e].n = 0
    BY <2>2 DEF TallyInv
  <2> QED BY <1>5, <2>1, <2>3, <2>4, TallyStays
<1> QED BY <1>2, <1>3, <1>4

\* Every packet that inspect_packet or the counters of tcp_retrans mark is told by
\* dump_data, still on an entry that a DUMP will find, came after its entry was told, or
\* is the only one on an entry that did not get into the tree: neither two CPUs in find_alloc_desc with one new flow nor a move_to_list
\* between the look and the mark loses another.
THEOREM AlwaysTallied == Spec => []Tallied
<1>1. Init => TallyInv
  <2> SUFFICES ASSUME Init PROVE TallyInv
    OBVIOUS
  <2>1. \A d \in Descs : info[d].at = "free" /\ info[d].n = 0
    BY DEF Init, Fresh
  <2>2. ToTell(info) = {}
    BY <2>1 DEF ToTell
  <2>3. IsFiniteSet(ToTell(info)) /\ Cardinality(ToTell(info)) = 0
    BY <2>2, FS_EmptySet, Zenon
  <2>4. Unseen = {}
    BY <2>1 DEF Unseen, Entries
  <2>5. IsFiniteSet(Unseen) /\ Cardinality(Unseen) = 0
    BY <2>4, FS_EmptySet, Zenon
  <2> QED BY <2>1, <2>3, <2>5 DEF Init, TallyInv, StrayInv
<1>2. IInv /\ TallyInv /\ [Next]_vars => TallyInv'
  <2> SUFFICES ASSUME IInv, TallyInv, [Next]_vars PROVE TallyInv'
    OBVIOUS
  <2>1. CASE UNCHANGED vars
    BY <2>1 DEF vars, TallyInv, StrayInv, Unseen, Entries
  <2> QED BY <2>1, TallyStep, TallyStray, TallyDump DEF Next
<1>3. IInv /\ TallyInv => Tallied
  BY MarksToTell DEF TallyInv, Tallied
<1> QED BY <1>1, <1>2, <1>3, AlwaysInv, PTL DEF Spec
=============================================================================
