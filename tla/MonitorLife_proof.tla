-------------------------- MODULE MonitorLife_proof --------------------------
(***************************************************************************)
(* Proofs about MonitorLife, for all monitors, any number of flows,        *)
(* descriptors and activations: when a deactivation has returned the       *)
(* monitor is quiet, the text of the module and the buffer outlive the     *)
(* handlers, no handler uses a freed descriptor, and what a monitor takes  *)
(* out of its tree is freed or put back.                                   *)
(***************************************************************************)
EXTENDS MonitorLife, FiniteSetTheorems, TLAPS

-----------------------------------------------------------------------------
(* What the sequences of the rows have in common: enough steps in the      *)
(* right order before whatever may only happen when the monitor is quiet.  *)

Steps == {"hook", "unhook", "unprobe", "start", "stop", "sync", "msleep", "drain", "detach",
          "free", "defer", "clean", "forget", "clear", "close", "destroy", "cancel", "off",
          "wait"}

\* The per-CPU timers call these two kinds, whatever is hooked.
Timed == {"timer", "ticker"}

\* Commands come, and the uprobes they hook, whether activated or not, until the exit of
\* the module does away with them.
Asked == {"asked", "command"}
Ender(k) == IF k = "asked" THEN "unprobe" ELSE "close"

\* A step that waits for the handlers that run when it begins.
Waits(m, step) == step = "sync" \/ (step = "msleep" /\ m \in Sleepers)

\* What only goes well when no handler is left, or loses nothing only then.
Disposals(m) ==
  {"clean"} \cup (IF m \in ExitsBackwards THEN {} ELSE {"destroy"})
    \cup (IF m \in Leaks THEN {} ELSE {"detach"})

\* The steps up to the n-th come before a disposal, or before the end.
Stops(m, s) == {n \in 0..Len(s) : n = Len(s) \/ s[n + 1] \in Disposals(m)}

\* What there is among the first n steps.
Has(s, n, step) == \E i \in 1..n : s[i] = step
Waiting(m, s, n) == \E i \in 1..n : Waits(m, s[i])
WaitsDrains(m, s, n) == \E i, j \in 1..n : i < j /\ Waits(m, s[i]) /\ s[j] = "drain"
UnhooksWaits(m, s, n) == \E i, j \in 1..n : i < j /\ s[i] = "unhook" /\ Waits(m, s[j])
UnhooksDrains(m, s, n) ==
  \E i, j, k \in 1..n :
    i < j /\ j < k /\ s[i] = "unhook" /\ Waits(m, s[j]) /\ s[k] = "drain"

Holds(s, step) == \E i \in DOMAIN s : s[i] = step
Sweeps(s) == Holds(s, "clean") \/ Holds(s, "detach")

\* What is taken out of the tree is disposed of, and not freed without a wait.
Disposed(s) ==
  \A i \in DOMAIN s : s[i] = "detach" =>
    \E k \in DOMAIN s : i < k /\ s[k] \in {"free", "defer"}
FreedLate(m, s) ==
  \A i, k \in DOMAIN s : i < k /\ s[i] = "detach" /\ s[k] = "free" =>
    \E j \in DOMAIN s : i < j /\ j < k /\ Waits(m, s[j])

\* The monitors that are not quiet unless msleep outlasts their handlers.
Hurried == {"sched_delay", "throttle_delay", "ping_delay", "ping_delay6"}

\* An activation, a deactivation of a monitor whose handlers are of these kinds,
\* and the exit of the module, which contains one.
Begins(s, kinds) ==
  /\ s \in Seq(Steps) /\ Disposed(s)
  /\ \A i \in DOMAIN s : /\ s[i] \notin {"off", "free", "destroy"}
                         /\ (s[i] = "start" => "own" \in kinds)
                         /\ s[i] = "forget" => i = 1

Ends(m, s, kinds) ==
  /\ s \in Seq(Steps) /\ Disposed(s) /\ FreedLate(m, s)
  /\ \A i \in DOMAIN s : s[i] \notin {"off", "hook", "start", "forget", "destroy"}
  /\ Holds(s, "clean") => m \in FreesInUse \/ kinds \cap Lasting = {}
  /\ \E q \in 0..Len(s) :
       /\ \A i \in 1..q : s[i] \notin Disposals(m)
       /\ "probe" \in kinds \/ "reaper" \in kinds => UnhooksWaits(m, s, q)
       /\ "counted" \in kinds => UnhooksDrains(m, s, q)
       /\ "guarded" \in kinds => Has(s, q, "unprobe")
       /\ "own" \in kinds => Has(s, q, "stop")

BeforeOff(m) ==
  {"cancel", "wait", "unprobe", "close"} \cup (IF m \in ExitsBackwards THEN {"destroy"} ELSE {})
\* Not behind the deactivation.
UpToOff == {"off", "unprobe", "close"}

Exits(m, s) ==
  /\ s \in Seq(Steps) /\ (m \notin NeverExits => Holds(s, "off"))
  /\ \A i \in DOMAIN s : s[i] \notin {"hook", "start", "forget", "detach", "free", "defer"}
  /\ \A i, j \in DOMAIN s : s[i] = "off" =>
       (j < i => s[j] \in BeforeOff(m)) /\ (j > i => s[j] \notin UpToOff)

\* The per-CPU timers are stopped first.
Cancels(s) == Len(s) >= 1 /\ s[1] = "cancel"

\* A monitor whose handlers keep descriptors that only it frees.
Wary(m) == Life[m].data = "kept" /\ m \notin FreesInUse

RowKinds(m) == Life[m].hooks \cup Life[m].styled
ExitSteps(m) == <<"cancel">> \o Life[m].exit \o <<"sync">>

RowOK(m) ==
  /\ RowKinds(m) \subseteq Kinds
  /\ Begins(Life[m].on, Life[m].hooks) /\ Life[m].off \in Seq(Steps)
  /\ Hurried \subseteq Sleepers => Ends(m, Life[m].off, RowKinds(m))
  /\ Exits(m, ExitSteps(m)) /\ Cancels(ExitSteps(m))
  /\ m \in NeverExits => ~Holds(ExitSteps(m), "destroy")
  /\ Life[m].styled \cap Asked = {}
  /\ \A k \in RowKinds(m) \cap Asked : Holds(ExitSteps(m), Ender(k))
  /\ Life[m].dump \in Seq(Steps) /\ Disposed(Life[m].dump)

\* Whoever keeps descriptors frees nothing where it does not wait.
RowWary(m) ==
  Wary(m) => /\ m \notin NeverExits /\ Life[m].reaps \subseteq {"reaper"}
             /\ ~Holds(Life[m].on, "clean") /\ ~Holds(Life[m].dump, "free")

\* Whoever leaks nothing empties its tree in every deactivation or at the exit.
RowSweeps(m) ==
  m \notin Leaks =>
    \/ Life[m].data = "none" /\ ~Holds(Life[m].on, "forget")
    \/ /\ Life[m].data # "none" /\ Life[m].inserts \cap RowKinds(m) \cap Lasting = {}
       /\ m \notin NeverExits
       /\ \/ Sweeps(Life[m].off)
          \/ Sweeps(ExitSteps(m)) /\ ~Holds(Life[m].on, "forget")

\* The sequences that activations consist of.
LEMMA OnShapes ==
  \A kinds :
    /\ Begins(<<"hook">>, kinds)
    /\ Begins(Deferred \o <<"msleep", "hook">>, kinds)
    /\ Begins(<<"forget", "hook">>, kinds)
    /\ Begins(Deferred \o <<"hook">>, kinds)
    /\ Begins(<<"forget", "clean", "hook">>, kinds)
    /\ Begins(<<"clean", "hook">>, kinds)
    /\ Begins(<<>>, kinds)
    /\ "own" \in kinds => Begins(<<"msleep", "hook", "start">>, kinds)
    /\ "own" \in kinds => Begins(<<"start">>, kinds)
<1>1. ASSUME NEW kinds, NEW s, s = <<"hook">>
     PROVE  Begins(s, kinds)
  <2>1. /\ s \in Seq(Steps) /\ Len(s) = 1
        /\ s[1] = "hook"
    BY <1>1 DEF Steps
  <2>2. Disposed(s)
    BY <2>1 DEF Disposed
  <2> QED BY <1>1, <2>1, <2>2 DEF Begins
<1>2. ASSUME NEW kinds, NEW s, s = Deferred \o <<"msleep", "hook">>
     PROVE  Begins(s, kinds)
  <2>1. /\ s \in Seq(Steps) /\ Len(s) = 4
        /\ s[1] = "detach" /\ s[2] = "defer" /\ s[3] = "msleep" /\ s[4] = "hook"
    BY <1>2 DEF Steps, Deferred
  <2>2. Disposed(s)
    BY <2>1 DEF Disposed
  <2> QED BY <1>2, <2>1, <2>2 DEF Begins
<1>3. ASSUME NEW kinds, NEW s, s = <<"forget", "hook">>
     PROVE  Begins(s, kinds)
  <2>1. /\ s \in Seq(Steps) /\ Len(s) = 2
        /\ s[1] = "forget" /\ s[2] = "hook"
    BY <1>3 DEF Steps
  <2>2. Disposed(s)
    BY <2>1 DEF Disposed
  <2> QED BY <1>3, <2>1, <2>2 DEF Begins
<1>4. ASSUME NEW kinds, NEW s, s = Deferred \o <<"hook">>
     PROVE  Begins(s, kinds)
  <2>1. /\ s \in Seq(Steps) /\ Len(s) = 3
        /\ s[1] = "detach" /\ s[2] = "defer" /\ s[3] = "hook"
    BY <1>4 DEF Steps, Deferred
  <2>2. Disposed(s)
    BY <2>1 DEF Disposed
  <2> QED BY <1>4, <2>1, <2>2 DEF Begins
<1>5. ASSUME NEW kinds, NEW s, s = <<"forget", "clean", "hook">>
     PROVE  Begins(s, kinds)
  <2>1. /\ s \in Seq(Steps) /\ Len(s) = 3
        /\ s[1] = "forget" /\ s[2] = "clean" /\ s[3] = "hook"
    BY <1>5 DEF Steps
  <2>2. Disposed(s)
    BY <2>1 DEF Disposed
  <2> QED BY <1>5, <2>1, <2>2 DEF Begins
<1>6. ASSUME NEW kinds, NEW s, s = <<"clean", "hook">>
     PROVE  Begins(s, kinds)
  <2>1. /\ s \in Seq(Steps) /\ Len(s) = 2
        /\ s[1] = "clean" /\ s[2] = "hook"
    BY <1>6 DEF Steps
  <2>2. Disposed(s)
    BY <2>1 DEF Disposed
  <2> QED BY <1>6, <2>1, <2>2 DEF Begins
<1>7. ASSUME NEW kinds, NEW s, s = <<>>
     PROVE  Begins(s, kinds)
  <2>1. /\ s \in Seq(Steps) /\ Len(s) = 0
    BY <1>7 DEF Steps
  <2>2. Disposed(s)
    BY <2>1 DEF Disposed
  <2> QED BY <1>7, <2>1, <2>2 DEF Begins
<1>8. ASSUME NEW kinds, NEW s, s = <<"msleep", "hook", "start">>, "own" \in kinds
     PROVE  Begins(s, kinds)
  <2>1. /\ s \in Seq(Steps) /\ Len(s) = 3
        /\ s[1] = "msleep" /\ s[2] = "hook" /\ s[3] = "start"
    BY <1>8 DEF Steps
  <2>2. Disposed(s)
    BY <2>1 DEF Disposed
  <2> QED BY <1>8, <2>1, <2>2 DEF Begins
<1>9. ASSUME NEW kinds, NEW s, s = <<"start">>, "own" \in kinds
     PROVE  Begins(s, kinds)
  <2>1. /\ s \in Seq(Steps) /\ Len(s) = 1
        /\ s[1] = "start"
    BY <1>9 DEF Steps
  <2>2. Disposed(s)
    BY <2>1 DEF Disposed
  <2> QED BY <1>9, <2>1, <2>2 DEF Begins
<1> QED BY <1>1, <1>2, <1>3, <1>4, <1>5, <1>6, <1>7, <1>8, <1>9

\* The sequences that the exits of the module consist of.
LEMMA ExitShapes ==
  \A m :
    /\ Exits(m, <<"cancel">> \o <<"off", "destroy">> \o <<"sync">>)
    /\ Cancels(<<"cancel">> \o <<"off", "destroy">> \o <<"sync">>)
    /\ Exits(m, <<"cancel">> \o <<"off", "clean", "destroy">> \o <<"sync">>)
    /\ Cancels(<<"cancel">> \o <<"off", "clean", "destroy">> \o <<"sync">>)
    /\ Exits(m, <<"cancel">> \o <<"off", "msleep", "destroy">> \o <<"sync">>)
    /\ Cancels(<<"cancel">> \o <<"off", "msleep", "destroy">> \o <<"sync">>)
    /\ m \in NeverExits => Exits(m, <<"cancel">> \o <<>> \o <<"sync">>)
    /\ m \in NeverExits => Cancels(<<"cancel">> \o <<>> \o <<"sync">>)
    /\ Exits(m, <<"cancel">> \o <<"unprobe", "close", "off", "destroy">> \o <<"sync">>)
    /\ Cancels(<<"cancel">> \o <<"unprobe", "close", "off", "destroy">> \o <<"sync">>)
    /\ \A k : Holds(<<"cancel">> \o <<"unprobe", "close", "off", "destroy">> \o <<"sync">>, Ender(k))
    /\ Exits(m, <<"cancel">> \o <<"off", "msleep", "sync", "destroy">> \o <<"sync">>)
    /\ Cancels(<<"cancel">> \o <<"off", "msleep", "sync", "destroy">> \o <<"sync">>)
    /\ Exits(m, <<"cancel">> \o <<"off", "msleep", "sync">> \o <<"sync">>)
    /\ Cancels(<<"cancel">> \o <<"off", "msleep", "sync">> \o <<"sync">>)
    /\ m \in ExitsBackwards => Exits(m, <<"cancel">> \o <<"destroy", "off">> \o <<"sync">>)
    /\ m \in ExitsBackwards => Cancels(<<"cancel">> \o <<"destroy", "off">> \o <<"sync">>)
    /\ Exits(m, <<"cancel">> \o <<"off", "msleep", "clean", "destroy">> \o <<"sync">>)
    /\ Cancels(<<"cancel">> \o <<"off", "msleep", "clean", "destroy">> \o <<"sync">>)
    /\ Exits(m, <<"cancel">> \o <<"off", "msleep", "sync", "clean", "destroy">> \o <<"sync">>)
    /\ Cancels(<<"cancel">> \o <<"off", "msleep", "sync", "clean", "destroy">> \o <<"sync">>)
    /\ Exits(m, <<"cancel">> \o <<"off", "msleep", "destroy", "msleep", "clean">> \o <<"sync">>)
    /\ Cancels(<<"cancel">> \o <<"off", "msleep", "destroy", "msleep", "clean">> \o <<"sync">>)
    /\ ~Holds(<<"cancel">> \o <<>> \o <<"sync">>, "destroy")
<1>1. ASSUME NEW m, NEW s, s = <<"cancel">> \o <<"off", "destroy">> \o <<"sync">>
     PROVE  Exits(m, s) /\ Cancels(s)
  <2>1. /\ s \in Seq(Steps) /\ Len(s) = 4
        /\ s[1] = "cancel" /\ s[2] = "off" /\ s[3] = "destroy" /\ s[4] = "sync"
    BY <1>1 DEF Steps
  <2>2. Cancels(s)
    BY <2>1 DEF Cancels
  <2>3. Holds(s, "off") /\ \A i \in DOMAIN s : s[i] = "off" => i = 2
    BY <2>1 DEF Holds
  <2>4. \A j \in DOMAIN s : s[j] \notin {"hook", "start", "forget", "detach", "free", "defer"}
    BY <2>1
  <2>5. \A j \in DOMAIN s : (j < 2 => s[j] \in BeforeOff(m)) /\ (j > 2 => s[j] \notin UpToOff)
    BY <2>1 DEF BeforeOff, UpToOff
  <2> QED BY <2>1, <2>2, <2>3, <2>4, <2>5 DEF Exits
<1>2. ASSUME NEW m, NEW s, s = <<"cancel">> \o <<"off", "clean", "destroy">> \o <<"sync">>
     PROVE  Exits(m, s) /\ Cancels(s)
  <2>1. /\ s \in Seq(Steps) /\ Len(s) = 5
        /\ s[1] = "cancel" /\ s[2] = "off" /\ s[3] = "clean" /\ s[4] = "destroy"
        /\ s[5] = "sync"
    BY <1>2 DEF Steps
  <2>2. Cancels(s)
    BY <2>1 DEF Cancels
  <2>3. Holds(s, "off") /\ \A i \in DOMAIN s : s[i] = "off" => i = 2
    BY <2>1 DEF Holds
  <2>4. \A j \in DOMAIN s : s[j] \notin {"hook", "start", "forget", "detach", "free", "defer"}
    BY <2>1
  <2>5. \A j \in DOMAIN s : (j < 2 => s[j] \in BeforeOff(m)) /\ (j > 2 => s[j] \notin UpToOff)
    BY <2>1 DEF BeforeOff, UpToOff
  <2> QED BY <2>1, <2>2, <2>3, <2>4, <2>5 DEF Exits
<1>3. ASSUME NEW m, NEW s, s = <<"cancel">> \o <<"off", "msleep", "destroy">> \o <<"sync">>
     PROVE  Exits(m, s) /\ Cancels(s)
  <2>1. /\ s \in Seq(Steps) /\ Len(s) = 5
        /\ s[1] = "cancel" /\ s[2] = "off" /\ s[3] = "msleep" /\ s[4] = "destroy"
        /\ s[5] = "sync"
    BY <1>3 DEF Steps
  <2>2. Cancels(s)
    BY <2>1 DEF Cancels
  <2>3. Holds(s, "off") /\ \A i \in DOMAIN s : s[i] = "off" => i = 2
    BY <2>1 DEF Holds
  <2>4. \A j \in DOMAIN s : s[j] \notin {"hook", "start", "forget", "detach", "free", "defer"}
    BY <2>1
  <2>5. \A j \in DOMAIN s : (j < 2 => s[j] \in BeforeOff(m)) /\ (j > 2 => s[j] \notin UpToOff)
    BY <2>1 DEF BeforeOff, UpToOff
  <2> QED BY <2>1, <2>2, <2>3, <2>4, <2>5 DEF Exits
<1>4. ASSUME NEW m, NEW s, s = <<"cancel">> \o <<>> \o <<"sync">>, m \in NeverExits
     PROVE  Exits(m, s) /\ Cancels(s)
  <2>1. /\ s \in Seq(Steps) /\ Len(s) = 2
        /\ s[1] = "cancel" /\ s[2] = "sync"
    BY <1>4 DEF Steps
  <2>2. Cancels(s)
    BY <2>1 DEF Cancels
  <2> QED BY <1>4, <2>1, <2>2 DEF Exits, BeforeOff, Holds
<1>5. ASSUME NEW m, NEW s,
             s = <<"cancel">> \o <<"unprobe", "close", "off", "destroy">> \o <<"sync">>
     PROVE  Exits(m, s) /\ Cancels(s) /\ \A k : Holds(s, Ender(k))
  <2>1. /\ s \in Seq(Steps) /\ Len(s) = 6
        /\ s[1] = "cancel" /\ s[2] = "unprobe" /\ s[3] = "close" /\ s[4] = "off"
        /\ s[5] = "destroy" /\ s[6] = "sync"
    BY <1>5 DEF Steps
  <2>2. Cancels(s)
    BY <2>1 DEF Cancels
  <2>3. Holds(s, "off") /\ \A i \in DOMAIN s : s[i] = "off" => i = 4
    BY <2>1 DEF Holds
  <2>4. \A j \in DOMAIN s : s[j] \notin {"hook", "start", "forget", "detach", "free", "defer"}
    BY <2>1
  <2>5. \A j \in DOMAIN s : (j < 4 => s[j] \in BeforeOff(m)) /\ (j > 4 => s[j] \notin UpToOff)
    BY <2>1 DEF BeforeOff, UpToOff
  <2>6. \A k : Holds(s, Ender(k))
    BY <2>1 DEF Holds, Ender
  <2> QED BY <2>1, <2>2, <2>3, <2>4, <2>5, <2>6 DEF Exits
<1>6. ASSUME NEW m, NEW s, s = <<"cancel">> \o <<"off", "msleep", "sync", "destroy">> \o <<"sync">>
     PROVE  Exits(m, s) /\ Cancels(s)
  <2>1. /\ s \in Seq(Steps) /\ Len(s) = 6
        /\ s[1] = "cancel" /\ s[2] = "off" /\ s[3] = "msleep" /\ s[4] = "sync"
        /\ s[5] = "destroy" /\ s[6] = "sync"
    BY <1>6 DEF Steps
  <2>2. Cancels(s)
    BY <2>1 DEF Cancels
  <2>3. Holds(s, "off") /\ \A i \in DOMAIN s : s[i] = "off" => i = 2
    BY <2>1 DEF Holds
  <2>4. \A j \in DOMAIN s : s[j] \notin {"hook", "start", "forget", "detach", "free", "defer"}
    BY <2>1
  <2>5. \A j \in DOMAIN s : (j < 2 => s[j] \in BeforeOff(m)) /\ (j > 2 => s[j] \notin UpToOff)
    BY <2>1 DEF BeforeOff, UpToOff
  <2> QED BY <2>1, <2>2, <2>3, <2>4, <2>5 DEF Exits
<1>7. ASSUME NEW m, NEW s, s = <<"cancel">> \o <<"off", "msleep", "sync">> \o <<"sync">>
     PROVE  Exits(m, s) /\ Cancels(s)
  <2>1. /\ s \in Seq(Steps) /\ Len(s) = 5
        /\ s[1] = "cancel" /\ s[2] = "off" /\ s[3] = "msleep" /\ s[4] = "sync"
        /\ s[5] = "sync"
    BY <1>7 DEF Steps
  <2>2. Cancels(s)
    BY <2>1 DEF Cancels
  <2>3. Holds(s, "off") /\ \A i \in DOMAIN s : s[i] = "off" => i = 2
    BY <2>1 DEF Holds
  <2>4. \A j \in DOMAIN s : s[j] \notin {"hook", "start", "forget", "detach", "free", "defer"}
    BY <2>1
  <2>5. \A j \in DOMAIN s : (j < 2 => s[j] \in BeforeOff(m)) /\ (j > 2 => s[j] \notin UpToOff)
    BY <2>1 DEF BeforeOff, UpToOff
  <2> QED BY <2>1, <2>2, <2>3, <2>4, <2>5 DEF Exits
<1>8. ASSUME NEW m, NEW s, s = <<"cancel">> \o <<"destroy", "off">> \o <<"sync">>,
             m \in ExitsBackwards
     PROVE  Exits(m, s) /\ Cancels(s)
  <2>1. /\ s \in Seq(Steps) /\ Len(s) = 4
        /\ s[1] = "cancel" /\ s[2] = "destroy" /\ s[3] = "off" /\ s[4] = "sync"
    BY <1>8 DEF Steps
  <2>2. Cancels(s)
    BY <2>1 DEF Cancels
  <2>3. Holds(s, "off") /\ \A i \in DOMAIN s : s[i] = "off" => i = 3
    BY <2>1 DEF Holds
  <2>4. \A j \in DOMAIN s : s[j] \notin {"hook", "start", "forget", "detach", "free", "defer"}
    BY <2>1
  <2>5. \A j \in DOMAIN s : (j < 3 => s[j] \in BeforeOff(m)) /\ (j > 3 => s[j] \notin UpToOff)
    BY <1>8, <2>1 DEF BeforeOff, UpToOff
  <2> QED BY <2>1, <2>2, <2>3, <2>4, <2>5 DEF Exits
<1>9. ASSUME NEW m, NEW s, s = <<"cancel">> \o <<"off", "msleep", "clean", "destroy">> \o <<"sync">>
     PROVE  Exits(m, s) /\ Cancels(s)
  <2>1. /\ s \in Seq(Steps) /\ Len(s) = 6
        /\ s[1] = "cancel" /\ s[2] = "off" /\ s[3] = "msleep" /\ s[4] = "clean"
        /\ s[5] = "destroy" /\ s[6] = "sync"
    BY <1>9 DEF Steps
  <2>2. Cancels(s)
    BY <2>1 DEF Cancels
  <2>3. Holds(s, "off") /\ \A i \in DOMAIN s : s[i] = "off" => i = 2
    BY <2>1 DEF Holds
  <2>4. \A j \in DOMAIN s : s[j] \notin {"hook", "start", "forget", "detach", "free", "defer"}
    BY <2>1
  <2>5. \A j \in DOMAIN s : (j < 2 => s[j] \in BeforeOff(m)) /\ (j > 2 => s[j] \notin UpToOff)
    BY <2>1 DEF BeforeOff, UpToOff
  <2> QED BY <2>1, <2>2, <2>3, <2>4, <2>5 DEF Exits
<1>10. ASSUME NEW m, NEW s,
              s = <<"cancel">> \o <<"off", "msleep", "sync", "clean", "destroy">> \o <<"sync">>
     PROVE  Exits(m, s) /\ Cancels(s)
  <2>1. /\ s \in Seq(Steps) /\ Len(s) = 7
        /\ s[1] = "cancel" /\ s[2] = "off" /\ s[3] = "msleep" /\ s[4] = "sync"
        /\ s[5] = "clean" /\ s[6] = "destroy" /\ s[7] = "sync"
    BY <1>10 DEF Steps
  <2>2. Cancels(s)
    BY <2>1 DEF Cancels
  <2>3. Holds(s, "off") /\ \A i \in DOMAIN s : s[i] = "off" => i = 2
    BY <2>1 DEF Holds
  <2>4. \A j \in DOMAIN s : s[j] \notin {"hook", "start", "forget", "detach", "free", "defer"}
    BY <2>1
  <2>5. \A j \in DOMAIN s : (j < 2 => s[j] \in BeforeOff(m)) /\ (j > 2 => s[j] \notin UpToOff)
    BY <2>1 DEF BeforeOff, UpToOff
  <2> QED BY <2>1, <2>2, <2>3, <2>4, <2>5 DEF Exits
<1>11. ASSUME NEW m, NEW s,
              s = <<"cancel">> \o <<"off", "msleep", "destroy", "msleep", "clean">> \o <<"sync">>
     PROVE  Exits(m, s) /\ Cancels(s)
  <2>1. /\ s \in Seq(Steps) /\ Len(s) = 7
        /\ s[1] = "cancel" /\ s[2] = "off" /\ s[3] = "msleep" /\ s[4] = "destroy"
        /\ s[5] = "msleep" /\ s[6] = "clean" /\ s[7] = "sync"
    BY <1>11 DEF Steps
  <2>2. Cancels(s)
    BY <2>1 DEF Cancels
  <2>3. Holds(s, "off") /\ \A i \in DOMAIN s : s[i] = "off" => i = 2
    BY <2>1 DEF Holds
  <2>4. \A j \in DOMAIN s : s[j] \notin {"hook", "start", "forget", "detach", "free", "defer"}
    BY <2>1
  <2>5. \A j \in DOMAIN s : (j < 2 => s[j] \in BeforeOff(m)) /\ (j > 2 => s[j] \notin UpToOff)
    BY <2>1 DEF BeforeOff, UpToOff
  <2> QED BY <2>1, <2>2, <2>3, <2>4, <2>5 DEF Exits
<1>12. ASSUME NEW s, s = <<"cancel">> \o <<>> \o <<"sync">>
      PROVE  ~Holds(s, "destroy")
  BY <1>12 DEF Holds
<1> QED BY <1>1, <1>2, <1>3, <1>4, <1>5, <1>6, <1>7, <1>8, <1>9, <1>10, <1>11, <1>12

\* The sequences that reports consist of.
LEMMA DumpShapes ==
  /\ <<>> \in Seq(Steps) /\ Disposed(<<>>)
  /\ Deferred \in Seq(Steps) /\ Disposed(Deferred)
  /\ <<"detach", "sync", "free">> \in Seq(Steps) /\ Disposed(<<"detach", "sync", "free">>)
  /\ <<"detach", "free">> \in Seq(Steps) /\ Disposed(<<"detach", "free">>)
  /\ ~Holds(<<>>, "free") /\ ~Holds(Deferred, "free")
<1>1. ASSUME NEW s, s = <<>>
     PROVE  s \in Seq(Steps) /\ Disposed(s) /\ ~Holds(s, "free")
  BY <1>1 DEF Steps, Disposed, Holds
<1>2. ASSUME NEW s, s = Deferred
     PROVE  s \in Seq(Steps) /\ Disposed(s) /\ ~Holds(s, "free")
  BY <1>2 DEF Steps, Disposed, Holds, Deferred
<1>3. ASSUME NEW s, s = <<"detach", "sync", "free">>
     PROVE  s \in Seq(Steps) /\ Disposed(s)
  BY <1>3 DEF Steps, Disposed, Holds
<1>4. ASSUME NEW s, s = <<"detach", "free">>
     PROVE  s \in Seq(Steps) /\ Disposed(s)
  BY <1>4 DEF Steps, Disposed, Holds
<1> QED BY <1>1, <1>2, <1>3, <1>4

\* The sequences that deactivations consist of, and the kinds of handlers they get rid of.
LEMMA OffShapes ==
  ASSUME NEW m, NEW kinds
  PROVE  /\ m \in Leaks /\ kinds \subseteq {"reaper", "counted"}
              => Ends(m, <<"unhook", "detach", "sync", "free", "sync", "msleep", "drain">>, kinds)
         /\ m \in Leaks /\ kinds \subseteq {"reaper", "counted", "guarded"}
              => Ends(m, <<"unhook", "unprobe", "detach", "sync", "free", "sync", "msleep", "drain">>,
                         kinds)
         /\ kinds \subseteq {"probe", "reaper", "counted", "guarded", "timer"}
              => Ends(m, <<"msleep", "unhook", "unprobe">> \o DrainEnd \o Deferred, kinds)
         /\ m \in Sleepers /\ kinds \subseteq {"probe", "counted"}
              => Ends(m, <<"unhook", "msleep", "drain">>, kinds)
         /\ kinds \subseteq {"timer"}
              => Ends(m, <<"sync">>, kinds)
         /\ kinds \subseteq {"probe", "reaper"}
              => Ends(m, <<"unhook", "sync", "msleep", "clean">>, kinds)
         /\ kinds \subseteq {"probe"}
              => Ends(m, <<"unhook", "sync">>, kinds)
         /\ kinds \subseteq {"probe"}
              => Ends(m, <<"unhook", "sync", "msleep">>, kinds)
         /\ m \in FreesInUse /\ kinds \subseteq {"probe", "reaper", "own"} \cup Asked
              => Ends(m, <<"stop", "msleep", "unprobe", "unhook">> \o DrainEnd \o <<"clean">>,
                         kinds)
         /\ kinds \subseteq {"reaper", "counted", "timer"}
              => Ends(m, <<"unhook">> \o DrainEnd \o Deferred, kinds)
         /\ kinds \subseteq {"probe", "reaper", "counted"}
              => Ends(m, <<"unhook">> \o DrainEnd, kinds)
         /\ (m \in FreesInUse \/ "ticker" \notin kinds)
            /\ kinds \subseteq {"probe", "reaper", "counted", "ticker"}
              => Ends(m, <<"unhook">> \o DrainEnd \o <<"clean">>, kinds)
         /\ kinds \subseteq {"guarded"}
              => Ends(m, <<"unprobe">> \o DrainEnd, kinds)
         /\ kinds \subseteq {"own", "timer"}
              => Ends(m, <<"clear", "sync", "stop", "msleep", "drain">>, kinds)
         /\ m \in Sleepers /\ kinds \subseteq {"probe", "counted", "guarded"}
              => Ends(m, <<"unhook", "unprobe", "unhook", "msleep", "drain">> \o Deferred, kinds)
         /\ kinds \subseteq {"probe", "counted", "guarded"}
              => Ends(m, <<"unhook", "unprobe">> \o DrainEnd \o Deferred, kinds)
         /\ kinds \subseteq {"counted", "guarded"}
              => Ends(m, <<"unhook", "unprobe">> \o DrainEnd \o <<"clean">>, kinds)
         /\ kinds \subseteq {"guarded"}
              => Ends(m, <<"unprobe">> \o DrainEnd \o <<"clean">>, kinds)
         /\ kinds \subseteq {}
              => Ends(m, DrainEnd, kinds)
         /\ kinds \subseteq {"counted", "guarded"}
              => Ends(m, <<"unprobe", "unhook">> \o DrainEnd, kinds)
<1>1. ASSUME NEW s, s = <<"unhook", "detach", "sync", "free", "sync", "msleep", "drain">>,
             m \in Leaks, kinds \subseteq {"reaper", "counted"}
      PROVE  Ends(m, s, kinds)
  <2>1. /\ s \in Seq(Steps) /\ Len(s) = 7
        /\ s[1] = "unhook" /\ s[2] = "detach" /\ s[3] = "sync" /\ s[4] = "free"
        /\ s[5] = "sync" /\ s[6] = "msleep" /\ s[7] = "drain"
    BY <1>1 DEF Steps
  <2>2. Disposed(s) /\ FreedLate(m, s)
    BY <2>1 DEF Disposed, FreedLate, Waits
  <2>3. 7 \in 0..Len(s) /\ \A i \in 1..7 : s[i] \notin Disposals(m)
    BY <1>1, <2>1 DEF Disposals
  <2>4. UnhooksDrains(m, s, 7)
    BY <2>1 DEF UnhooksDrains, Waits
  <2>5. \A i \in DOMAIN s : s[i] \notin {"off", "hook", "start", "forget", "destroy"}
    BY <2>1
  <2>6. ~Holds(s, "clean")
    BY <2>1 DEF Holds
  <2>7. UnhooksWaits(m, s, 7)
    BY <2>1 DEF UnhooksWaits, Waits
  <2> QED BY <1>1, <2>1, <2>2, <2>3, <2>4, <2>5, <2>6, <2>7 DEF Ends
<1>2. ASSUME NEW s, s = <<"unhook", "unprobe", "detach", "sync", "free",
                          "sync", "msleep", "drain">>,
             m \in Leaks, kinds \subseteq {"reaper", "counted", "guarded"}
      PROVE  Ends(m, s, kinds)
  <2>1. /\ s \in Seq(Steps) /\ Len(s) = 8
        /\ s[1] = "unhook" /\ s[2] = "unprobe" /\ s[3] = "detach" /\ s[4] = "sync"
        /\ s[5] = "free" /\ s[6] = "sync" /\ s[7] = "msleep" /\ s[8] = "drain"
    BY <1>2 DEF Steps
  <2>2. Disposed(s) /\ FreedLate(m, s)
    BY <2>1 DEF Disposed, FreedLate, Waits
  <2>3. 8 \in 0..Len(s) /\ \A i \in 1..8 : s[i] \notin Disposals(m)
    BY <1>2, <2>1 DEF Disposals
  <2>4. UnhooksWaits(m, s, 8)
    BY <2>1 DEF UnhooksWaits, Waits
  <2>5. UnhooksDrains(m, s, 8)
    BY <2>1 DEF UnhooksDrains, Waits
  <2>6. Has(s, 8, "unprobe")
    BY <2>1 DEF Has
  <2>7. \A i \in DOMAIN s : s[i] \notin {"off", "hook", "start", "forget", "destroy"}
    BY <2>1
  <2>8. ~Holds(s, "clean")
    BY <2>1 DEF Holds
  <2> QED BY <1>2, <2>1, <2>2, <2>3, <2>4, <2>5, <2>6, <2>7, <2>8 DEF Ends
<1>3. ASSUME NEW s, s = <<"msleep", "unhook", "unprobe">> \o DrainEnd \o Deferred,
             kinds \subseteq {"probe", "reaper", "counted", "guarded", "timer"}
      PROVE  Ends(m, s, kinds)
  <2>1. /\ s \in Seq(Steps) /\ Len(s) = 8
        /\ s[1] = "msleep" /\ s[2] = "unhook" /\ s[3] = "unprobe" /\ s[4] = "sync"
        /\ s[5] = "msleep" /\ s[6] = "drain" /\ s[7] = "detach" /\ s[8] = "defer"
    BY <1>3 DEF Steps, DrainEnd, Deferred
  <2>2. Disposed(s) /\ FreedLate(m, s)
    BY <2>1 DEF Disposed, FreedLate, Waits
  <2>3. 6 \in 0..Len(s) /\ \A i \in 1..6 : s[i] \notin Disposals(m)
    BY <2>1 DEF Disposals
  <2>4. UnhooksWaits(m, s, 6)
    BY <2>1 DEF UnhooksWaits, Waits
  <2>5. UnhooksDrains(m, s, 6)
    BY <2>1 DEF UnhooksDrains, Waits
  <2>6. Has(s, 6, "unprobe")
    BY <2>1 DEF Has
  <2>7. \A i \in DOMAIN s : s[i] \notin {"off", "hook", "start", "forget", "destroy"}
    BY <2>1
  <2>8. ~Holds(s, "clean")
    BY <2>1 DEF Holds
  <2> QED BY <1>3, <2>1, <2>2, <2>3, <2>4, <2>5, <2>6, <2>7, <2>8 DEF Ends
<1>4. ASSUME NEW s, s = <<"unhook", "msleep", "drain">>,
             m \in Sleepers, kinds \subseteq {"probe", "counted"}
      PROVE  Ends(m, s, kinds)
  <2>1. /\ s \in Seq(Steps) /\ Len(s) = 3
        /\ s[1] = "unhook" /\ s[2] = "msleep" /\ s[3] = "drain"
    BY <1>4 DEF Steps
  <2>2. Disposed(s) /\ FreedLate(m, s)
    BY <2>1 DEF Disposed, FreedLate, Waits
  <2>3. 3 \in 0..Len(s) /\ \A i \in 1..3 : s[i] \notin Disposals(m)
    BY <2>1 DEF Disposals
  <2>4. UnhooksWaits(m, s, 3)
    BY <1>4, <2>1 DEF UnhooksWaits, Waits
  <2>5. UnhooksDrains(m, s, 3)
    BY <1>4, <2>1 DEF UnhooksDrains, Waits
  <2>6. \A i \in DOMAIN s : s[i] \notin {"off", "hook", "start", "forget", "destroy"}
    BY <2>1
  <2>7. ~Holds(s, "clean")
    BY <2>1 DEF Holds
  <2> QED BY <1>4, <2>1, <2>2, <2>3, <2>4, <2>5, <2>6, <2>7 DEF Ends
<1>5. ASSUME NEW s, s = <<"sync">>,
             kinds \subseteq {"timer"}
      PROVE  Ends(m, s, kinds)
  <2>1. /\ s \in Seq(Steps) /\ Len(s) = 1
        /\ s[1] = "sync"
    BY <1>5 DEF Steps
  <2>2. Disposed(s) /\ FreedLate(m, s)
    BY <2>1 DEF Disposed, FreedLate, Waits
  <2>3. 1 \in 0..Len(s) /\ \A i \in 1..1 : s[i] \notin Disposals(m)
    BY <2>1 DEF Disposals
  <2>4. \A i \in DOMAIN s : s[i] \notin {"off", "hook", "start", "forget", "destroy"}
    BY <2>1
  <2>5. ~Holds(s, "clean")
    BY <2>1 DEF Holds
  <2> QED BY <1>5, <2>1, <2>2, <2>3, <2>4, <2>5 DEF Ends
<1>6. ASSUME NEW s, s = <<"unhook", "sync", "msleep", "clean">>,
             kinds \subseteq {"probe", "reaper"}
      PROVE  Ends(m, s, kinds)
  <2>1. /\ s \in Seq(Steps) /\ Len(s) = 4
        /\ s[1] = "unhook" /\ s[2] = "sync" /\ s[3] = "msleep" /\ s[4] = "clean"
    BY <1>6 DEF Steps
  <2>2. Disposed(s) /\ FreedLate(m, s)
    BY <2>1 DEF Disposed, FreedLate, Waits
  <2>3. 3 \in 0..Len(s) /\ \A i \in 1..3 : s[i] \notin Disposals(m)
    BY <2>1 DEF Disposals
  <2>4. UnhooksWaits(m, s, 3)
    BY <2>1 DEF UnhooksWaits, Waits
  <2>5. \A i \in DOMAIN s : s[i] \notin {"off", "hook", "start", "forget", "destroy"}
    BY <2>1
  <2>6. Holds(s, "clean") => m \in FreesInUse \/ kinds \cap Lasting = {}
    BY <1>6, <2>1 DEF Holds, Lasting
  <2> QED BY <1>6, <2>1, <2>2, <2>3, <2>4, <2>5, <2>6 DEF Ends
<1>7. ASSUME NEW s, s = <<"unhook", "sync">>,
             kinds \subseteq {"probe"}
      PROVE  Ends(m, s, kinds)
  <2>1. /\ s \in Seq(Steps) /\ Len(s) = 2
        /\ s[1] = "unhook" /\ s[2] = "sync"
    BY <1>7 DEF Steps
  <2>2. Disposed(s) /\ FreedLate(m, s)
    BY <2>1 DEF Disposed, FreedLate, Waits
  <2>3. 2 \in 0..Len(s) /\ \A i \in 1..2 : s[i] \notin Disposals(m)
    BY <2>1 DEF Disposals
  <2>4. UnhooksWaits(m, s, 2)
    BY <2>1 DEF UnhooksWaits, Waits
  <2>5. \A i \in DOMAIN s : s[i] \notin {"off", "hook", "start", "forget", "destroy"}
    BY <2>1
  <2>6. ~Holds(s, "clean")
    BY <2>1 DEF Holds
  <2> QED BY <1>7, <2>1, <2>2, <2>3, <2>4, <2>5, <2>6 DEF Ends
<1>8. ASSUME NEW s, s = <<"unhook", "sync", "msleep">>,
             kinds \subseteq {"probe"}
      PROVE  Ends(m, s, kinds)
  <2>1. /\ s \in Seq(Steps) /\ Len(s) = 3
        /\ s[1] = "unhook" /\ s[2] = "sync" /\ s[3] = "msleep"
    BY <1>8 DEF Steps
  <2>2. Disposed(s) /\ FreedLate(m, s)
    BY <2>1 DEF Disposed, FreedLate, Waits
  <2>3. 3 \in 0..Len(s) /\ \A i \in 1..3 : s[i] \notin Disposals(m)
    BY <2>1 DEF Disposals
  <2>4. UnhooksWaits(m, s, 3)
    BY <2>1 DEF UnhooksWaits, Waits
  <2>5. \A i \in DOMAIN s : s[i] \notin {"off", "hook", "start", "forget", "destroy"}
    BY <2>1
  <2>6. ~Holds(s, "clean")
    BY <2>1 DEF Holds
  <2> QED BY <1>8, <2>1, <2>2, <2>3, <2>4, <2>5, <2>6 DEF Ends
<1>9. ASSUME NEW s, s = <<"stop", "msleep", "unprobe", "unhook">> \o DrainEnd \o <<"clean">>,
             m \in FreesInUse, kinds \subseteq {"probe", "reaper", "own"} \cup Asked
      PROVE  Ends(m, s, kinds)
  <2>1. /\ s \in Seq(Steps) /\ Len(s) = 8
        /\ s[1] = "stop" /\ s[2] = "msleep" /\ s[3] = "unprobe" /\ s[4] = "unhook"
        /\ s[5] = "sync" /\ s[6] = "msleep" /\ s[7] = "drain" /\ s[8] = "clean"
    BY <1>9 DEF Steps, DrainEnd
  <2>2. Disposed(s) /\ FreedLate(m, s)
    BY <2>1 DEF Disposed, FreedLate, Waits
  <2>3. 7 \in 0..Len(s) /\ \A i \in 1..7 : s[i] \notin Disposals(m)
    BY <2>1 DEF Disposals
  <2>4. UnhooksWaits(m, s, 7)
    BY <2>1 DEF UnhooksWaits, Waits
  <2>5. Has(s, 7, "unprobe")
    BY <2>1 DEF Has
  <2>6. Has(s, 7, "stop")
    BY <2>1 DEF Has
  <2>7. \A i \in DOMAIN s : s[i] \notin {"off", "hook", "start", "forget", "destroy"}
    BY <2>1
  <2>8. Holds(s, "clean") => m \in FreesInUse \/ kinds \cap Lasting = {}
    BY <1>9, <2>1 DEF Holds, Lasting
  <2> QED BY <1>9, <2>1, <2>2, <2>3, <2>4, <2>5, <2>6, <2>7, <2>8 DEF Ends, Asked
<1>10. ASSUME NEW s, s = <<"unhook">> \o DrainEnd \o Deferred,
             kinds \subseteq {"reaper", "counted", "timer"}
      PROVE  Ends(m, s, kinds)
  <2>1. /\ s \in Seq(Steps) /\ Len(s) = 6
        /\ s[1] = "unhook" /\ s[2] = "sync" /\ s[3] = "msleep" /\ s[4] = "drain"
        /\ s[5] = "detach" /\ s[6] = "defer"
    BY <1>10 DEF Steps, DrainEnd, Deferred
  <2>2. Disposed(s) /\ FreedLate(m, s)
    BY <2>1 DEF Disposed, FreedLate, Waits
  <2>3. 4 \in 0..Len(s) /\ \A i \in 1..4 : s[i] \notin Disposals(m)
    BY <2>1 DEF Disposals
  <2>4. UnhooksWaits(m, s, 4)
    BY <2>1 DEF UnhooksWaits, Waits
  <2>5. UnhooksDrains(m, s, 4)
    BY <2>1 DEF UnhooksDrains, Waits
  <2>6. \A i \in DOMAIN s : s[i] \notin {"off", "hook", "start", "forget", "destroy"}
    BY <2>1
  <2>7. ~Holds(s, "clean")
    BY <2>1 DEF Holds
  <2> QED BY <1>10, <2>1, <2>2, <2>3, <2>4, <2>5, <2>6, <2>7 DEF Ends
<1>11. ASSUME NEW s, s = <<"unhook">> \o DrainEnd,
             kinds \subseteq {"probe", "reaper", "counted"}
      PROVE  Ends(m, s, kinds)
  <2>1. /\ s \in Seq(Steps) /\ Len(s) = 4
        /\ s[1] = "unhook" /\ s[2] = "sync" /\ s[3] = "msleep" /\ s[4] = "drain"
    BY <1>11 DEF Steps, DrainEnd
  <2>2. Disposed(s) /\ FreedLate(m, s)
    BY <2>1 DEF Disposed, FreedLate, Waits
  <2>3. 4 \in 0..Len(s) /\ \A i \in 1..4 : s[i] \notin Disposals(m)
    BY <2>1 DEF Disposals
  <2>4. UnhooksWaits(m, s, 4)
    BY <2>1 DEF UnhooksWaits, Waits
  <2>5. UnhooksDrains(m, s, 4)
    BY <2>1 DEF UnhooksDrains, Waits
  <2>6. \A i \in DOMAIN s : s[i] \notin {"off", "hook", "start", "forget", "destroy"}
    BY <2>1
  <2>7. ~Holds(s, "clean")
    BY <2>1 DEF Holds
  <2> QED BY <1>11, <2>1, <2>2, <2>3, <2>4, <2>5, <2>6, <2>7 DEF Ends
<1>12. ASSUME NEW s, s = <<"unhook">> \o DrainEnd \o <<"clean">>,
             (m \in FreesInUse \/ "ticker" \notin kinds),
             kinds \subseteq {"probe", "reaper", "counted", "ticker"}
      PROVE  Ends(m, s, kinds)
  <2>1. /\ s \in Seq(Steps) /\ Len(s) = 5
        /\ s[1] = "unhook" /\ s[2] = "sync" /\ s[3] = "msleep" /\ s[4] = "drain"
        /\ s[5] = "clean"
    BY <1>12 DEF Steps, DrainEnd
  <2>2. Disposed(s) /\ FreedLate(m, s)
    BY <2>1 DEF Disposed, FreedLate, Waits
  <2>3. 4 \in 0..Len(s) /\ \A i \in 1..4 : s[i] \notin Disposals(m)
    BY <2>1 DEF Disposals
  <2>4. UnhooksWaits(m, s, 4)
    BY <2>1 DEF UnhooksWaits, Waits
  <2>5. UnhooksDrains(m, s, 4)
    BY <2>1 DEF UnhooksDrains, Waits
  <2>6. \A i \in DOMAIN s : s[i] \notin {"off", "hook", "start", "forget", "destroy"}
    BY <2>1
  <2>7. Holds(s, "clean") => m \in FreesInUse \/ kinds \cap Lasting = {}
    BY <1>12, <2>1 DEF Holds, Lasting
  <2> QED BY <1>12, <2>1, <2>2, <2>3, <2>4, <2>5, <2>6, <2>7 DEF Ends
<1>13. ASSUME NEW s, s = <<"unprobe">> \o DrainEnd,
             kinds \subseteq {"guarded"}
      PROVE  Ends(m, s, kinds)
  <2>1. /\ s \in Seq(Steps) /\ Len(s) = 4
        /\ s[1] = "unprobe" /\ s[2] = "sync" /\ s[3] = "msleep" /\ s[4] = "drain"
    BY <1>13 DEF Steps, DrainEnd
  <2>2. Disposed(s) /\ FreedLate(m, s)
    BY <2>1 DEF Disposed, FreedLate, Waits
  <2>3. 4 \in 0..Len(s) /\ \A i \in 1..4 : s[i] \notin Disposals(m)
    BY <2>1 DEF Disposals
  <2>4. Has(s, 4, "unprobe")
    BY <2>1 DEF Has
  <2>5. \A i \in DOMAIN s : s[i] \notin {"off", "hook", "start", "forget", "destroy"}
    BY <2>1
  <2>6. ~Holds(s, "clean")
    BY <2>1 DEF Holds
  <2> QED BY <1>13, <2>1, <2>2, <2>3, <2>4, <2>5, <2>6 DEF Ends
<1>14. ASSUME NEW s, s = <<"clear", "sync", "stop", "msleep", "drain">>,
             kinds \subseteq {"own", "timer"}
      PROVE  Ends(m, s, kinds)
  <2>1. /\ s \in Seq(Steps) /\ Len(s) = 5
        /\ s[1] = "clear" /\ s[2] = "sync" /\ s[3] = "stop" /\ s[4] = "msleep"
        /\ s[5] = "drain"
    BY <1>14 DEF Steps
  <2>2. Disposed(s) /\ FreedLate(m, s)
    BY <2>1 DEF Disposed, FreedLate, Waits
  <2>3. 5 \in 0..Len(s) /\ \A i \in 1..5 : s[i] \notin Disposals(m)
    BY <2>1 DEF Disposals
  <2>4. Has(s, 5, "stop")
    BY <2>1 DEF Has
  <2>5. \A i \in DOMAIN s : s[i] \notin {"off", "hook", "start", "forget", "destroy"}
    BY <2>1
  <2>6. ~Holds(s, "clean")
    BY <2>1 DEF Holds
  <2> QED BY <1>14, <2>1, <2>2, <2>3, <2>4, <2>5, <2>6 DEF Ends
<1>15. ASSUME NEW s, s = <<"unhook", "unprobe", "unhook", "msleep", "drain">> \o Deferred,
             m \in Sleepers, kinds \subseteq {"probe", "counted", "guarded"}
      PROVE  Ends(m, s, kinds)
  <2>1. /\ s \in Seq(Steps) /\ Len(s) = 7
        /\ s[1] = "unhook" /\ s[2] = "unprobe" /\ s[3] = "unhook" /\ s[4] = "msleep"
        /\ s[5] = "drain" /\ s[6] = "detach" /\ s[7] = "defer"
    BY <1>15 DEF Steps, Deferred
  <2>2. Disposed(s) /\ FreedLate(m, s)
    BY <2>1 DEF Disposed, FreedLate, Waits
  <2>3. 5 \in 0..Len(s) /\ \A i \in 1..5 : s[i] \notin Disposals(m)
    BY <2>1 DEF Disposals
  <2>4. UnhooksWaits(m, s, 5)
    BY <1>15, <2>1 DEF UnhooksWaits, Waits
  <2>5. UnhooksDrains(m, s, 5)
    BY <1>15, <2>1 DEF UnhooksDrains, Waits
  <2>6. Has(s, 5, "unprobe")
    BY <2>1 DEF Has
  <2>7. \A i \in DOMAIN s : s[i] \notin {"off", "hook", "start", "forget", "destroy"}
    BY <2>1
  <2>8. ~Holds(s, "clean")
    BY <2>1 DEF Holds
  <2> QED BY <1>15, <2>1, <2>2, <2>3, <2>4, <2>5, <2>6, <2>7, <2>8 DEF Ends
<1>16. ASSUME NEW s, s = <<"unhook", "unprobe">> \o DrainEnd \o Deferred,
             kinds \subseteq {"probe", "counted", "guarded"}
      PROVE  Ends(m, s, kinds)
  <2>1. /\ s \in Seq(Steps) /\ Len(s) = 7
        /\ s[1] = "unhook" /\ s[2] = "unprobe" /\ s[3] = "sync" /\ s[4] = "msleep"
        /\ s[5] = "drain" /\ s[6] = "detach" /\ s[7] = "defer"
    BY <1>16 DEF Steps, DrainEnd, Deferred
  <2>2. Disposed(s) /\ FreedLate(m, s)
    BY <2>1 DEF Disposed, FreedLate, Waits
  <2>3. 5 \in 0..Len(s) /\ \A i \in 1..5 : s[i] \notin Disposals(m)
    BY <2>1 DEF Disposals
  <2>4. UnhooksWaits(m, s, 5)
    BY <2>1 DEF UnhooksWaits, Waits
  <2>5. UnhooksDrains(m, s, 5)
    BY <2>1 DEF UnhooksDrains, Waits
  <2>6. Has(s, 5, "unprobe")
    BY <2>1 DEF Has
  <2>7. \A i \in DOMAIN s : s[i] \notin {"off", "hook", "start", "forget", "destroy"}
    BY <2>1
  <2>8. ~Holds(s, "clean")
    BY <2>1 DEF Holds
  <2> QED BY <1>16, <2>1, <2>2, <2>3, <2>4, <2>5, <2>6, <2>7, <2>8 DEF Ends
<1>17. ASSUME NEW s, s = <<"unhook", "unprobe">> \o DrainEnd \o <<"clean">>,
             kinds \subseteq {"counted", "guarded"}
      PROVE  Ends(m, s, kinds)
  <2>1. /\ s \in Seq(Steps) /\ Len(s) = 6
        /\ s[1] = "unhook" /\ s[2] = "unprobe" /\ s[3] = "sync" /\ s[4] = "msleep"
        /\ s[5] = "drain" /\ s[6] = "clean"
    BY <1>17 DEF Steps, DrainEnd
  <2>2. Disposed(s) /\ FreedLate(m, s)
    BY <2>1 DEF Disposed, FreedLate, Waits
  <2>3. 5 \in 0..Len(s) /\ \A i \in 1..5 : s[i] \notin Disposals(m)
    BY <2>1 DEF Disposals
  <2>4. UnhooksDrains(m, s, 5)
    BY <2>1 DEF UnhooksDrains, Waits
  <2>5. Has(s, 5, "unprobe")
    BY <2>1 DEF Has
  <2>6. \A i \in DOMAIN s : s[i] \notin {"off", "hook", "start", "forget", "destroy"}
    BY <2>1
  <2>7. Holds(s, "clean") => m \in FreesInUse \/ kinds \cap Lasting = {}
    BY <1>17, <2>1 DEF Holds, Lasting
  <2> QED BY <1>17, <2>1, <2>2, <2>3, <2>4, <2>5, <2>6, <2>7 DEF Ends
<1>18. ASSUME NEW s, s = <<"unprobe">> \o DrainEnd \o <<"clean">>,
             kinds \subseteq {"guarded"}
      PROVE  Ends(m, s, kinds)
  <2>1. /\ s \in Seq(Steps) /\ Len(s) = 5
        /\ s[1] = "unprobe" /\ s[2] = "sync" /\ s[3] = "msleep" /\ s[4] = "drain"
        /\ s[5] = "clean"
    BY <1>18 DEF Steps, DrainEnd
  <2>2. Disposed(s) /\ FreedLate(m, s)
    BY <2>1 DEF Disposed, FreedLate, Waits
  <2>3. 4 \in 0..Len(s) /\ \A i \in 1..4 : s[i] \notin Disposals(m)
    BY <2>1 DEF Disposals
  <2>4. Has(s, 4, "unprobe")
    BY <2>1 DEF Has
  <2>5. \A i \in DOMAIN s : s[i] \notin {"off", "hook", "start", "forget", "destroy"}
    BY <2>1
  <2>6. Holds(s, "clean") => m \in FreesInUse \/ kinds \cap Lasting = {}
    BY <1>18, <2>1 DEF Holds, Lasting
  <2> QED BY <1>18, <2>1, <2>2, <2>3, <2>4, <2>5, <2>6 DEF Ends
<1>19. ASSUME NEW s, s = DrainEnd,
             kinds \subseteq {}
      PROVE  Ends(m, s, kinds)
  <2>1. /\ s \in Seq(Steps) /\ Len(s) = 3
        /\ s[1] = "sync" /\ s[2] = "msleep" /\ s[3] = "drain"
    BY <1>19 DEF Steps, DrainEnd
  <2>2. Disposed(s) /\ FreedLate(m, s)
    BY <2>1 DEF Disposed, FreedLate, Waits
  <2>3. 3 \in 0..Len(s) /\ \A i \in 1..3 : s[i] \notin Disposals(m)
    BY <2>1 DEF Disposals
  <2>4. \A i \in DOMAIN s : s[i] \notin {"off", "hook", "start", "forget", "destroy"}
    BY <2>1
  <2>5. ~Holds(s, "clean")
    BY <2>1 DEF Holds
  <2> QED BY <1>19, <2>1, <2>2, <2>3, <2>4, <2>5 DEF Ends
<1>20. ASSUME NEW s, s = <<"unprobe", "unhook">> \o DrainEnd,
             kinds \subseteq {"counted", "guarded"}
      PROVE  Ends(m, s, kinds)
  <2>1. /\ s \in Seq(Steps) /\ Len(s) = 5
        /\ s[1] = "unprobe" /\ s[2] = "unhook" /\ s[3] = "sync" /\ s[4] = "msleep"
        /\ s[5] = "drain"
    BY <1>20 DEF Steps, DrainEnd
  <2>2. Disposed(s) /\ FreedLate(m, s)
    BY <2>1 DEF Disposed, FreedLate, Waits
  <2>3. 5 \in 0..Len(s) /\ \A i \in 1..5 : s[i] \notin Disposals(m)
    BY <2>1 DEF Disposals
  <2>4. UnhooksDrains(m, s, 5)
    BY <2>1 DEF UnhooksDrains, Waits
  <2>5. Has(s, 5, "unprobe")
    BY <2>1 DEF Has
  <2>6. \A i \in DOMAIN s : s[i] \notin {"off", "hook", "start", "forget", "destroy"}
    BY <2>1
  <2>7. ~Holds(s, "clean")
    BY <2>1 DEF Holds
  <2>8. "probe" \notin kinds /\ "reaper" \notin kinds /\ "own" \notin kinds
    BY <1>20
  <2> QED BY <2>2, <2>1, <2>3, <2>4, <2>5, <2>6, <2>7, <2>8 DEF Ends
<1>21. m \in Leaks /\ kinds \subseteq {"reaper", "counted"}
        => Ends(m, <<"unhook", "detach", "sync", "free", "sync", "msleep", "drain">>, kinds)
  BY Zenon, <1>1
<1>22. m \in Leaks /\ kinds \subseteq {"reaper", "counted", "guarded"}
        => Ends(m, <<"unhook", "unprobe", "detach", "sync", "free", "sync", "msleep", "drain">>,
                         kinds)
  BY Zenon, <1>2
<1>23. kinds \subseteq {"probe", "reaper", "counted", "guarded", "timer"}
        => Ends(m, <<"msleep", "unhook", "unprobe">> \o DrainEnd \o Deferred, kinds)
  BY Zenon, <1>3
<1>24. m \in Sleepers /\ kinds \subseteq {"probe", "counted"}
        => Ends(m, <<"unhook", "msleep", "drain">>, kinds)
  BY Zenon, <1>4
<1>25. kinds \subseteq {"timer"}
        => Ends(m, <<"sync">>, kinds)
  BY Zenon, <1>5
<1>26. kinds \subseteq {"probe", "reaper"}
        => Ends(m, <<"unhook", "sync", "msleep", "clean">>, kinds)
  BY Zenon, <1>6
<1>27. kinds \subseteq {"probe"}
        => Ends(m, <<"unhook", "sync">>, kinds)
  BY Zenon, <1>7
<1>28. kinds \subseteq {"probe"}
        => Ends(m, <<"unhook", "sync", "msleep">>, kinds)
  BY Zenon, <1>8
<1>29. m \in FreesInUse /\ kinds \subseteq {"probe", "reaper", "own"} \cup Asked
        => Ends(m, <<"stop", "msleep", "unprobe", "unhook">> \o DrainEnd \o <<"clean">>,
                         kinds)
  BY Zenon, <1>9
<1>30. kinds \subseteq {"reaper", "counted", "timer"}
        => Ends(m, <<"unhook">> \o DrainEnd \o Deferred, kinds)
  BY Zenon, <1>10
<1>31. kinds \subseteq {"probe", "reaper", "counted"}
        => Ends(m, <<"unhook">> \o DrainEnd, kinds)
  BY Zenon, <1>11
<1>32. (m \in FreesInUse \/ "ticker" \notin kinds)
       /\ kinds \subseteq {"probe", "reaper", "counted", "ticker"}
        => Ends(m, <<"unhook">> \o DrainEnd \o <<"clean">>, kinds)
  BY Zenon, <1>12
<1>33. kinds \subseteq {"guarded"}
        => Ends(m, <<"unprobe">> \o DrainEnd, kinds)
  BY Zenon, <1>13
<1>34. kinds \subseteq {"own", "timer"}
        => Ends(m, <<"clear", "sync", "stop", "msleep", "drain">>, kinds)
  BY Zenon, <1>14
<1>35. m \in Sleepers /\ kinds \subseteq {"probe", "counted", "guarded"}
        => Ends(m, <<"unhook", "unprobe", "unhook", "msleep", "drain">> \o Deferred, kinds)
  BY Zenon, <1>15
<1>36. kinds \subseteq {"probe", "counted", "guarded"}
        => Ends(m, <<"unhook", "unprobe">> \o DrainEnd \o Deferred, kinds)
  BY Zenon, <1>16
<1>37. kinds \subseteq {"counted", "guarded"}
        => Ends(m, <<"unhook", "unprobe">> \o DrainEnd \o <<"clean">>, kinds)
  BY Zenon, <1>17
<1>38. kinds \subseteq {"guarded"}
        => Ends(m, <<"unprobe">> \o DrainEnd \o <<"clean">>, kinds)
  BY Zenon, <1>18
<1>39. kinds \subseteq {}
        => Ends(m, DrainEnd, kinds)
  BY Zenon, <1>19
<1>40. kinds \subseteq {"counted", "guarded"}
        => Ends(m, <<"unprobe", "unhook">> \o DrainEnd, kinds)
  BY Zenon, <1>20
<1> QED BY <1>21, <1>22, <1>23, <1>24, <1>25, <1>26, <1>27, <1>28,
        <1>29, <1>30, <1>31, <1>32, <1>33, <1>34, <1>35, <1>36,
        <1>37, <1>38, <1>39, <1>40

\* Deactivations, too, consist of these steps, whatever they get rid of.
LEMMA OffSteps ==
  /\ <<"unhook", "detach", "sync", "free", "sync", "msleep", "drain">> \in Seq(Steps)
  /\ Sweeps(<<"unhook", "detach", "sync", "free", "sync", "msleep", "drain">>)
  /\ <<"unhook", "unprobe", "detach", "sync", "free", "sync", "msleep", "drain">> \in Seq(Steps)
  /\ Sweeps(<<"unhook", "unprobe", "detach", "sync", "free", "sync", "msleep", "drain">>)
  /\ <<"msleep", "unhook", "unprobe">> \o DrainEnd \o Deferred \in Seq(Steps)
  /\ Sweeps(<<"msleep", "unhook", "unprobe">> \o DrainEnd \o Deferred)
  /\ <<"unhook", "msleep", "drain">> \in Seq(Steps)
  /\ <<"sync">> \in Seq(Steps)
  /\ <<"unhook", "sync", "msleep", "clean">> \in Seq(Steps)
  /\ Sweeps(<<"unhook", "sync", "msleep", "clean">>)
  /\ <<"unhook", "sync">> \in Seq(Steps)
  /\ <<"unhook", "sync", "msleep">> \in Seq(Steps)
  /\ <<"stop", "msleep", "unprobe", "unhook">> \o DrainEnd \o <<"clean">> \in Seq(Steps)
  /\ Sweeps(<<"stop", "msleep", "unprobe", "unhook">> \o DrainEnd \o <<"clean">>)
  /\ <<"unhook">> \o DrainEnd \o Deferred \in Seq(Steps)
  /\ Sweeps(<<"unhook">> \o DrainEnd \o Deferred)
  /\ <<"unhook">> \o DrainEnd \in Seq(Steps)
  /\ <<"unhook">> \o DrainEnd \o <<"clean">> \in Seq(Steps)
  /\ Sweeps(<<"unhook">> \o DrainEnd \o <<"clean">>)
  /\ <<"unprobe">> \o DrainEnd \in Seq(Steps)
  /\ <<"clear", "sync", "stop", "msleep", "drain">> \in Seq(Steps)
  /\ <<"unhook", "unprobe", "unhook", "msleep", "drain">> \o Deferred \in Seq(Steps)
  /\ Sweeps(<<"unhook", "unprobe", "unhook", "msleep", "drain">> \o Deferred)
  /\ <<"unhook", "unprobe">> \o DrainEnd \o Deferred \in Seq(Steps)
  /\ Sweeps(<<"unhook", "unprobe">> \o DrainEnd \o Deferred)
  /\ <<"unhook", "unprobe">> \o DrainEnd \o <<"clean">> \in Seq(Steps)
  /\ Sweeps(<<"unhook", "unprobe">> \o DrainEnd \o <<"clean">>)
  /\ <<"unprobe">> \o DrainEnd \o <<"clean">> \in Seq(Steps)
  /\ Sweeps(<<"unprobe">> \o DrainEnd \o <<"clean">>)
  /\ DrainEnd \in Seq(Steps)
  /\ <<"unprobe", "unhook">> \o DrainEnd \in Seq(Steps)
<1>1. ASSUME NEW s, s = <<"unhook", "detach", "sync", "free", "sync", "msleep", "drain">>
     PROVE  s \in Seq(Steps) /\ Sweeps(s)
  <2>1. s \in Seq(Steps) /\ 2 \in DOMAIN s /\ s[2] = "detach"
    BY <1>1 DEF Steps
  <2> QED BY <2>1 DEF Sweeps, Holds
<1>2. ASSUME NEW s, s = <<"unhook", "unprobe", "detach", "sync", "free", "sync", "msleep", "drain">>
     PROVE  s \in Seq(Steps) /\ Sweeps(s)
  <2>1. s \in Seq(Steps) /\ 3 \in DOMAIN s /\ s[3] = "detach"
    BY <1>2 DEF Steps
  <2> QED BY <2>1 DEF Sweeps, Holds
<1>3. ASSUME NEW s, s = <<"msleep", "unhook", "unprobe">> \o DrainEnd \o Deferred
     PROVE  s \in Seq(Steps) /\ Sweeps(s)
  <2>1. s \in Seq(Steps) /\ 7 \in DOMAIN s /\ s[7] = "detach"
    BY <1>3 DEF Steps, DrainEnd, Deferred
  <2> QED BY <2>1 DEF Sweeps, Holds
<1>4. ASSUME NEW s, s = <<"unhook", "msleep", "drain">>
     PROVE  s \in Seq(Steps)
  BY <1>4 DEF Steps
<1>5. ASSUME NEW s, s = <<"sync">>
     PROVE  s \in Seq(Steps)
  BY <1>5 DEF Steps
<1>6. ASSUME NEW s, s = <<"unhook", "sync", "msleep", "clean">>
     PROVE  s \in Seq(Steps) /\ Sweeps(s)
  <2>1. s \in Seq(Steps) /\ 4 \in DOMAIN s /\ s[4] = "clean"
    BY <1>6 DEF Steps
  <2> QED BY <2>1 DEF Sweeps, Holds
<1>7. ASSUME NEW s, s = <<"unhook", "sync">>
     PROVE  s \in Seq(Steps)
  BY <1>7 DEF Steps
<1>8. ASSUME NEW s, s = <<"unhook", "sync", "msleep">>
     PROVE  s \in Seq(Steps)
  BY <1>8 DEF Steps
<1>9. ASSUME NEW s, s = <<"stop", "msleep", "unprobe", "unhook">> \o DrainEnd \o <<"clean">>
     PROVE  s \in Seq(Steps) /\ Sweeps(s)
  <2>1. s \in Seq(Steps) /\ 8 \in DOMAIN s /\ s[8] = "clean"
    BY <1>9 DEF Steps, DrainEnd
  <2> QED BY <2>1 DEF Sweeps, Holds
<1>10. ASSUME NEW s, s = <<"unhook">> \o DrainEnd \o Deferred
     PROVE  s \in Seq(Steps) /\ Sweeps(s)
  <2>1. s \in Seq(Steps) /\ 5 \in DOMAIN s /\ s[5] = "detach"
    BY <1>10 DEF Steps, DrainEnd, Deferred
  <2> QED BY <2>1 DEF Sweeps, Holds
<1>11. ASSUME NEW s, s = <<"unhook">> \o DrainEnd
     PROVE  s \in Seq(Steps)
  BY <1>11 DEF Steps, DrainEnd
<1>12. ASSUME NEW s, s = <<"unhook">> \o DrainEnd \o <<"clean">>
     PROVE  s \in Seq(Steps) /\ Sweeps(s)
  <2>1. s \in Seq(Steps) /\ 5 \in DOMAIN s /\ s[5] = "clean"
    BY <1>12 DEF Steps, DrainEnd
  <2> QED BY <2>1 DEF Sweeps, Holds
<1>13. ASSUME NEW s, s = <<"unprobe">> \o DrainEnd
     PROVE  s \in Seq(Steps)
  BY <1>13 DEF Steps, DrainEnd
<1>14. ASSUME NEW s, s = <<"clear", "sync", "stop", "msleep", "drain">>
     PROVE  s \in Seq(Steps)
  BY <1>14 DEF Steps
<1>15. ASSUME NEW s, s = <<"unhook", "unprobe", "unhook", "msleep", "drain">> \o Deferred
     PROVE  s \in Seq(Steps) /\ Sweeps(s)
  <2>1. s \in Seq(Steps) /\ 6 \in DOMAIN s /\ s[6] = "detach"
    BY <1>15 DEF Steps, Deferred
  <2> QED BY <2>1 DEF Sweeps, Holds
<1>16. ASSUME NEW s, s = <<"unhook", "unprobe">> \o DrainEnd \o Deferred
     PROVE  s \in Seq(Steps) /\ Sweeps(s)
  <2>1. s \in Seq(Steps) /\ 6 \in DOMAIN s /\ s[6] = "detach"
    BY <1>16 DEF Steps, DrainEnd, Deferred
  <2> QED BY <2>1 DEF Sweeps, Holds
<1>17. ASSUME NEW s, s = <<"unhook", "unprobe">> \o DrainEnd \o <<"clean">>
     PROVE  s \in Seq(Steps) /\ Sweeps(s)
  <2>1. s \in Seq(Steps) /\ 6 \in DOMAIN s /\ s[6] = "clean"
    BY <1>17 DEF Steps, DrainEnd
  <2> QED BY <2>1 DEF Sweeps, Holds
<1>18. ASSUME NEW s, s = <<"unprobe">> \o DrainEnd \o <<"clean">>
     PROVE  s \in Seq(Steps) /\ Sweeps(s)
  <2>1. s \in Seq(Steps) /\ 5 \in DOMAIN s /\ s[5] = "clean"
    BY <1>18 DEF Steps, DrainEnd
  <2> QED BY <2>1 DEF Sweeps, Holds
<1>19. ASSUME NEW s, s = DrainEnd
     PROVE  s \in Seq(Steps)
  BY <1>19 DEF Steps, DrainEnd
<1>20. ASSUME NEW s, s = <<"unprobe", "unhook">> \o DrainEnd
     PROVE  s \in Seq(Steps)
  BY <1>20 DEF Steps, DrainEnd
<1> QED BY <1>1, <1>2, <1>3, <1>4, <1>5, <1>6, <1>7, <1>8, <1>9,
        <1>10, <1>11, <1>12, <1>13, <1>14, <1>15, <1>16, <1>17, <1>18, <1>19, <1>20
\* The row of each monitor.
LEMMA LifeRows ==
  /\ Life["mutex_monitor"] = mutex_monitor /\ Life["rw_sem"] = rw_sem /\ Life["sys_delay"] = sys_delay
  /\ Life["sched_delay"] = sched_delay /\ Life["irq_delay"] = irq_delay /\ Life["irq_stats"] = irq_stats
  /\ Life["irq_trace"] = irq_trace /\ Life["sys_cost"] = sys_cost /\ Life["sig_info"] = sig_info
  /\ Life["throttle_delay"] = throttle_delay /\ Life["run_trace"] = run_trace /\ Life["exec_monitor"] = exec_monitor
  /\ Life["exit_monitor"] = exit_monitor /\ Life["utilization"] = utilization /\ Life["perf"] = perf
  /\ Life["reboot"] = reboot /\ Life["kprobe"] = kprobe /\ Life["uprobe"] = uprobe
  /\ Life["task_monitor"] = task_monitor /\ Life["ping_delay"] = ping_delay /\ Life["ping_delay6"] = ping_delay6
  /\ Life["drop_packet"] = drop_packet /\ Life["net_bandwidth"] = net_bandwidth /\ Life["tcp_retrans"] = tcp_retrans
  /\ Life["tcp_connect"] = tcp_connect /\ Life["alloc_top"] = alloc_top /\ Life["high_order"] = high_order
  /\ Life["memory_leak"] = memory_leak /\ Life["rss_monitor"] = rss_monitor /\ Life["memcg_stats"] = memcg_stats
  /\ Life["rw_top"] = rw_top /\ Life["fs_cache"] = fs_cache /\ Life["fs_orphan"] = fs_orphan
  /\ Life["fs_shm"] = fs_shm /\ Life["pmu"] = pmu
BY DEF Life

\* Every row consists of such sequences.
LEMMA RowsAreOK == \A m \in DOMAIN Life : RowOK(m)
<1> USE OnShapes, ExitShapes, OffShapes, OffSteps, DumpShapes
        DEF RowOK, RowKinds, ExitSteps, Hurried, Kinds, Leaks, Asked,
            NeverExits, ExitsBackwards, FreesInUse
<1>1. RowOK("mutex_monitor")
  BY LifeRows DEF mutex_monitor, Plain
<1>2. RowOK("rw_sem")
  BY LifeRows DEF rw_sem, Plain
<1>3. RowOK("sys_delay")
  BY SMTT(30), LifeRows DEF sys_delay, Chained, Plain
<1>4. RowOK("sched_delay")
  BY LifeRows DEF sched_delay, Plain
<1>5. RowOK("irq_delay")
  BY LifeRows DEF irq_delay, Plain
<1>6. RowOK("irq_stats")
  <2>1. /\ Life["irq_stats"].off = <<"unhook", "sync", "msleep", "clean">>
        /\ RowKinds("irq_stats") \subseteq {"probe", "reaper"}
    BY LifeRows DEF irq_stats, Plain
  <2>2. Ends("irq_stats", <<"unhook", "sync", "msleep", "clean">>, RowKinds("irq_stats"))
    BY <2>1, OffShapes
  <2> QED BY <2>1, <2>2, LifeRows DEF irq_stats, Plain
<1>7. RowOK("irq_trace")
  BY LifeRows DEF irq_trace, Plain
<1>8. RowOK("sys_cost")
  BY LifeRows DEF sys_cost, Plain
<1>9. RowOK("sig_info")
  BY LifeRows DEF sig_info, Plain
<1>10. RowOK("throttle_delay")
  <2>1. /\ Life["throttle_delay"].off = <<"unhook", "msleep", "drain">>
        /\ RowKinds("throttle_delay") \subseteq {"probe", "counted"}
        /\ "throttle_delay" \in Hurried
    BY LifeRows DEF throttle_delay, Plain
  <2>2. Hurried \subseteq Sleepers
          => Ends("throttle_delay", <<"unhook", "msleep", "drain">>, RowKinds("throttle_delay"))
    BY <2>1, OffShapes
  <2> QED BY ZenonT(30), <2>1, <2>2, LifeRows DEF throttle_delay, Plain
<1>11. RowOK("run_trace")
  <2> DEFINE off == <<"stop", "msleep", "unprobe", "unhook">> \o DrainEnd \o <<"clean">>
             s == <<"cancel">> \o <<"unprobe", "close", "off", "destroy">> \o <<"sync">>
  <2>1. /\ Life["run_trace"].off = off
        /\ RowKinds("run_trace") \subseteq {"probe", "reaper", "own"} \cup Asked
        /\ ExitSteps("run_trace") = s
        /\ RowKinds("run_trace") \subseteq Kinds /\ "run_trace" \in FreesInUse
        /\ "run_trace" \notin NeverExits
        /\ Life["run_trace"].styled \cap Asked = {}
    BY LifeRows DEF run_trace, Plain
  <2>2. Ends("run_trace", off, RowKinds("run_trace"))
    BY <2>1, OffShapes
  <2>3. Exits("run_trace", s) /\ Cancels(s) /\ \A k : Holds(s, Ender(k))
    BY ExitShapes
  <2>4. /\ Begins(Life["run_trace"].on, Life["run_trace"].hooks)
        /\ Life["run_trace"].dump \in Seq(Steps) /\ Disposed(Life["run_trace"].dump)
    BY LifeRows, OnShapes, DumpShapes DEF run_trace, Plain
  <2>5. Life["run_trace"].off \in Seq(Steps)
    BY <2>1, OffSteps
  <2> QED BY <2>1, <2>2, <2>3, <2>4, <2>5
<1>12. RowOK("exec_monitor")
  BY LifeRows DEF exec_monitor, Chained, Plain
<1>13. RowOK("exit_monitor")
  BY LifeRows DEF exit_monitor, Plain
<1>14. RowOK("utilization")
  BY SMTT(30), LifeRows DEF utilization, Chained, Plain
<1>15. RowOK("perf")
  BY SMTT(30), LifeRows DEF perf, Chained, Plain
<1>16. RowOK("reboot")
  BY LifeRows DEF reboot, Plain
<1>17. RowOK("kprobe")
  BY LifeRows DEF kprobe, Plain
<1>18. RowOK("uprobe")
  BY LifeRows DEF uprobe, kprobe, Plain
<1>19. RowOK("task_monitor")
  BY LifeRows DEF task_monitor, Plain
<1>20. RowOK("ping_delay")
  BY LifeRows DEF ping_delay, Plain
<1>21. RowOK("ping_delay6")
  BY LifeRows DEF ping_delay6, ping_delay, Plain
<1>22. RowOK("drop_packet")
  BY LifeRows DEF drop_packet, ping_delay, Plain
<1>23. RowOK("net_bandwidth")
  BY LifeRows DEF net_bandwidth, drop_packet, ping_delay, Plain
<1>24. RowOK("tcp_retrans")
  BY LifeRows DEF tcp_retrans, Plain
<1>25. RowOK("tcp_connect")
  BY LifeRows DEF tcp_connect, Plain
<1>26. RowOK("alloc_top")
  BY LifeRows DEF alloc_top, Plain
<1>27. RowOK("high_order")
  BY LifeRows DEF high_order, Plain
<1>28. RowOK("memory_leak")
  <2>1. /\ Life["memory_leak"].off = <<"unhook">> \o DrainEnd \o <<"clean">>
        /\ RowKinds("memory_leak") \subseteq {"probe", "reaper"}
    BY LifeRows DEF memory_leak, Plain
  <2>2. Ends("memory_leak", <<"unhook">> \o DrainEnd \o <<"clean">>, RowKinds("memory_leak"))
    BY <2>1, OffShapes
  <2> QED BY <2>1, <2>2, LifeRows DEF memory_leak, Plain
<1>29. RowOK("rss_monitor")
  BY LifeRows DEF rss_monitor, Plain
<1>30. RowOK("memcg_stats")
  BY LifeRows DEF memcg_stats, Plain
<1>31. RowOK("rw_top")
  BY LifeRows DEF rw_top, Plain
<1>32. RowOK("fs_cache")
  BY LifeRows DEF fs_cache, memcg_stats, Plain
<1>33. RowOK("fs_orphan")
  BY LifeRows DEF fs_orphan, memcg_stats, Plain
<1>34. RowOK("fs_shm")
  BY LifeRows DEF fs_shm, memcg_stats, Plain
<1>35. RowOK("pmu")
  <2>1. /\ Life["pmu"].off = <<"unhook", "sync", "msleep", "clean">>
        /\ RowKinds("pmu") \subseteq {"probe", "reaper"}
    BY LifeRows DEF pmu, Plain
  <2>2. Ends("pmu", <<"unhook", "sync", "msleep", "clean">>, RowKinds("pmu"))
    BY <2>1, OffShapes
  <2> QED BY <2>1, <2>2, LifeRows DEF pmu, Plain
<1>36. DOMAIN Life = {
      "mutex_monitor", "rw_sem", "sys_delay", "sched_delay", "irq_delay",
      "irq_stats", "irq_trace", "sys_cost", "sig_info", "throttle_delay",
      "run_trace", "exec_monitor", "exit_monitor", "utilization", "perf",
      "reboot", "kprobe", "uprobe", "task_monitor", "ping_delay",
      "ping_delay6", "drop_packet", "net_bandwidth", "tcp_retrans",
      "tcp_connect", "alloc_top", "high_order", "memory_leak",
      "rss_monitor", "memcg_stats", "rw_top", "fs_cache", "fs_orphan",
      "fs_shm", "pmu"}
  BY DEF Life
<1> HIDE DEF RowOK
<1> QED BY <1>1, <1>2, <1>3, <1>4, <1>5, <1>6, <1>7, <1>8, <1>9, <1>10, <1>11,
           <1>12, <1>13, <1>14, <1>15, <1>16, <1>17, <1>18, <1>19, <1>20, <1>21, <1>22,
           <1>23, <1>24, <1>25, <1>26, <1>27, <1>28, <1>29, <1>30, <1>31, <1>32, <1>33,
           <1>34, <1>35, <1>36
\* What activations and exits of the module do without.
LEMMA Lacks ==
  /\ ~Holds(<<"hook">>, "clean")
  /\ ~Holds(<<"hook">>, "forget")
  /\ ~Holds(Deferred \o <<"msleep", "hook">>, "clean")
  /\ ~Holds(Deferred \o <<"msleep", "hook">>, "forget")
  /\ ~Holds(<<"forget", "hook">>, "clean")
  /\ ~Holds(Deferred \o <<"hook">>, "clean")
  /\ ~Holds(Deferred \o <<"hook">>, "forget")
  /\ ~Holds(<<"clean", "hook">>, "forget")
  /\ ~Holds(<<>>, "clean")
  /\ ~Holds(<<>>, "forget")
  /\ ~Holds(<<"msleep", "hook", "start">>, "clean")
  /\ ~Holds(<<"msleep", "hook", "start">>, "forget")
  /\ ~Holds(<<"start">>, "clean")
  /\ ~Holds(<<"start">>, "forget")
  /\ Sweeps(<<"cancel">> \o <<"off", "clean", "destroy">> \o <<"sync">>)
  /\ Sweeps(<<"cancel">> \o <<"off", "msleep", "clean", "destroy">> \o <<"sync">>)
  /\ Sweeps(<<"cancel">> \o <<"off", "msleep", "sync", "clean", "destroy">> \o <<"sync">>)
  /\ Sweeps(<<"cancel">> \o <<"off", "msleep", "destroy", "msleep", "clean">> \o <<"sync">>)
<1>1. ASSUME NEW s, s = <<"hook">>
     PROVE  ~Holds(s, "clean")
  BY <1>1 DEF Holds
<1>2. ASSUME NEW s, s = <<"hook">>
     PROVE  ~Holds(s, "forget")
  BY <1>2 DEF Holds
<1>3. ASSUME NEW s, s = Deferred \o <<"msleep", "hook">>
     PROVE  ~Holds(s, "clean")
  BY <1>3 DEF Holds, Deferred
<1>4. ASSUME NEW s, s = Deferred \o <<"msleep", "hook">>
     PROVE  ~Holds(s, "forget")
  BY <1>4 DEF Holds, Deferred
<1>5. ASSUME NEW s, s = <<"forget", "hook">>
     PROVE  ~Holds(s, "clean")
  BY <1>5 DEF Holds
<1>6. ASSUME NEW s, s = Deferred \o <<"hook">>
     PROVE  ~Holds(s, "clean")
  BY <1>6 DEF Holds, Deferred
<1>7. ASSUME NEW s, s = Deferred \o <<"hook">>
     PROVE  ~Holds(s, "forget")
  BY <1>7 DEF Holds, Deferred
<1>8. ASSUME NEW s, s = <<"clean", "hook">>
     PROVE  ~Holds(s, "forget")
  BY <1>8 DEF Holds
<1>9. ASSUME NEW s, s = <<>>
     PROVE  ~Holds(s, "clean")
  BY <1>9 DEF Holds
<1>10. ASSUME NEW s, s = <<>>
     PROVE  ~Holds(s, "forget")
  BY <1>10 DEF Holds
<1>11. ASSUME NEW s, s = <<"msleep", "hook", "start">>
     PROVE  ~Holds(s, "clean")
  BY <1>11 DEF Holds
<1>12. ASSUME NEW s, s = <<"msleep", "hook", "start">>
     PROVE  ~Holds(s, "forget")
  BY <1>12 DEF Holds
<1>13. ASSUME NEW s, s = <<"start">>
     PROVE  ~Holds(s, "clean")
  BY <1>13 DEF Holds
<1>14. ASSUME NEW s, s = <<"start">>
     PROVE  ~Holds(s, "forget")
  BY <1>14 DEF Holds
<1>15. ASSUME NEW s, s = <<"cancel">> \o <<"off", "clean", "destroy">> \o <<"sync">>
     PROVE  Sweeps(s)
  <2>1. 3 \in DOMAIN s /\ s[3] = "clean"
    BY <1>15
  <2> QED BY <2>1 DEF Sweeps, Holds
<1>16. ASSUME NEW s, s = <<"cancel">> \o <<"off", "msleep", "clean", "destroy">> \o <<"sync">>
     PROVE  Sweeps(s)
  <2>1. 4 \in DOMAIN s /\ s[4] = "clean"
    BY <1>16
  <2> QED BY <2>1 DEF Sweeps, Holds
<1>17. ASSUME NEW s,
              s = <<"cancel">> \o <<"off", "msleep", "sync", "clean", "destroy">> \o <<"sync">>
     PROVE  Sweeps(s)
  <2>1. 5 \in DOMAIN s /\ s[5] = "clean"
    BY <1>17
  <2> QED BY <2>1 DEF Sweeps, Holds
<1>18. ASSUME NEW s,
              s = <<"cancel">> \o <<"off", "msleep", "destroy", "msleep", "clean">> \o <<"sync">>
     PROVE  Sweeps(s)
  <2>1. 6 \in DOMAIN s /\ s[6] = "clean"
    BY <1>18
  <2> QED BY <2>1 DEF Sweeps, Holds
<1> QED BY <1>1, <1>2, <1>3, <1>4, <1>5, <1>6, <1>7, <1>8, <1>9, <1>10, <1>11,
           <1>12, <1>13, <1>14, <1>15, <1>16, <1>17, <1>18

\* What the rows of the monitors that keep descriptors have in common.
LEMMA RowsAreWary == \A m \in DOMAIN Life : RowWary(m)
<1> USE Lacks, DumpShapes
        DEF RowWary, Wary, FreesInUse, NeverExits
<1>1. RowWary("mutex_monitor")
  BY LifeRows DEF mutex_monitor, Plain
<1>2. RowWary("rw_sem")
  BY LifeRows DEF rw_sem, Plain
<1>3. RowWary("sys_delay")
  BY LifeRows DEF sys_delay, Chained, Plain
<1>4. RowWary("sched_delay")
  BY LifeRows DEF sched_delay, Plain
<1>5. RowWary("irq_delay")
  BY LifeRows DEF irq_delay, Plain
<1>6. RowWary("irq_stats")
  BY LifeRows DEF irq_stats, Plain
<1>7. RowWary("irq_trace")
  BY LifeRows DEF irq_trace, Plain
<1>8. RowWary("sys_cost")
  BY LifeRows DEF sys_cost, Plain
<1>9. RowWary("sig_info")
  BY LifeRows DEF sig_info, Plain
<1>10. RowWary("throttle_delay")
  BY LifeRows DEF throttle_delay, Plain
<1>11. RowWary("run_trace")
  BY LifeRows DEF run_trace, Plain
<1>12. RowWary("exec_monitor")
  BY LifeRows DEF exec_monitor, Chained, Plain
<1>13. RowWary("exit_monitor")
  BY LifeRows DEF exit_monitor, Plain
<1>14. RowWary("utilization")
  BY LifeRows DEF utilization, Chained, Plain
<1>15. RowWary("perf")
  BY LifeRows DEF perf, Chained, Plain
<1>16. RowWary("reboot")
  BY LifeRows DEF reboot, Plain
<1>17. RowWary("kprobe")
  BY LifeRows DEF kprobe, Plain
<1>18. RowWary("uprobe")
  BY LifeRows DEF uprobe, kprobe, Plain
<1>19. RowWary("task_monitor")
  BY LifeRows DEF task_monitor, Plain
<1>20. RowWary("ping_delay")
  BY LifeRows DEF ping_delay, Plain
<1>21. RowWary("ping_delay6")
  BY LifeRows DEF ping_delay6, ping_delay, Plain
<1>22. RowWary("drop_packet")
  BY LifeRows DEF drop_packet, ping_delay, Plain
<1>23. RowWary("net_bandwidth")
  BY LifeRows DEF net_bandwidth, drop_packet, ping_delay, Plain
<1>24. RowWary("tcp_retrans")
  BY LifeRows DEF tcp_retrans, Plain
<1>25. RowWary("tcp_connect")
  BY LifeRows DEF tcp_connect, Plain
<1>26. RowWary("alloc_top")
  BY LifeRows DEF alloc_top, Plain
<1>27. RowWary("high_order")
  BY LifeRows DEF high_order, Plain
<1>28. RowWary("memory_leak")
  BY LifeRows DEF memory_leak, Plain
<1>29. RowWary("rss_monitor")
  BY LifeRows DEF rss_monitor, Plain
<1>30. RowWary("memcg_stats")
  BY LifeRows DEF memcg_stats, Plain
<1>31. RowWary("rw_top")
  BY LifeRows DEF rw_top, Plain
<1>32. RowWary("fs_cache")
  BY LifeRows DEF fs_cache, memcg_stats, Plain
<1>33. RowWary("fs_orphan")
  BY LifeRows DEF fs_orphan, memcg_stats, Plain
<1>34. RowWary("fs_shm")
  BY LifeRows DEF fs_shm, memcg_stats, Plain
<1>35. RowWary("pmu")
  BY LifeRows DEF pmu, Plain
<1>36. DOMAIN Life = {
      "mutex_monitor", "rw_sem", "sys_delay", "sched_delay", "irq_delay",
      "irq_stats", "irq_trace", "sys_cost", "sig_info", "throttle_delay",
      "run_trace", "exec_monitor", "exit_monitor", "utilization", "perf",
      "reboot", "kprobe", "uprobe", "task_monitor", "ping_delay",
      "ping_delay6", "drop_packet", "net_bandwidth", "tcp_retrans",
      "tcp_connect", "alloc_top", "high_order", "memory_leak",
      "rss_monitor", "memcg_stats", "rw_top", "fs_cache", "fs_orphan",
      "fs_shm", "pmu"}
  BY DEF Life
<1> HIDE DEF RowWary
<1> QED BY <1>1, <1>2, <1>3, <1>4, <1>5, <1>6, <1>7, <1>8, <1>9, <1>10, <1>11,
           <1>12, <1>13, <1>14, <1>15, <1>16, <1>17, <1>18, <1>19, <1>20, <1>21, <1>22,
           <1>23, <1>24, <1>25, <1>26, <1>27, <1>28, <1>29, <1>30, <1>31, <1>32, <1>33,
           <1>34, <1>35, <1>36

\* What the rows of the monitors that leak nothing have in common.
LEMMA RowsSweep == \A m \in DOMAIN Life : RowSweeps(m)
<1> USE Lacks, OffSteps
        DEF RowSweeps, RowKinds, ExitSteps, Lasting, Leaks, NeverExits
<1>1. RowSweeps("mutex_monitor")
  BY LifeRows DEF mutex_monitor, Plain
<1>2. RowSweeps("rw_sem")
  BY LifeRows DEF rw_sem, Plain
<1>3. RowSweeps("sys_delay")
  BY LifeRows DEF sys_delay, Chained, Plain
<1>4. RowSweeps("sched_delay")
  BY LifeRows DEF sched_delay, Plain
<1>5. RowSweeps("irq_delay")
  BY LifeRows DEF irq_delay, Plain
<1>6. RowSweeps("irq_stats")
  BY LifeRows DEF irq_stats, Plain
<1>7. RowSweeps("irq_trace")
  BY LifeRows DEF irq_trace, Plain
<1>8. RowSweeps("sys_cost")
  BY LifeRows DEF sys_cost, Plain
<1>9. RowSweeps("sig_info")
  BY LifeRows DEF sig_info, Plain
<1>10. RowSweeps("throttle_delay")
  BY LifeRows DEF throttle_delay, Plain
<1>11. RowSweeps("run_trace")
  BY LifeRows DEF run_trace, Plain
<1>12. RowSweeps("exec_monitor")
  BY LifeRows DEF exec_monitor, Chained, Plain
<1>13. RowSweeps("exit_monitor")
  BY LifeRows DEF exit_monitor, Plain
<1>14. RowSweeps("utilization")
  BY LifeRows DEF utilization, Chained, Plain
<1>15. RowSweeps("perf")
  BY LifeRows DEF perf, Chained, Plain
<1>16. RowSweeps("reboot")
  BY LifeRows DEF reboot, Plain
<1>17. RowSweeps("kprobe")
  BY LifeRows DEF kprobe, Plain
<1>18. RowSweeps("uprobe")
  BY LifeRows DEF uprobe, kprobe, Plain
<1>19. RowSweeps("task_monitor")
  BY LifeRows DEF task_monitor, Plain
<1>20. RowSweeps("ping_delay")
  BY LifeRows DEF ping_delay, Plain
<1>21. RowSweeps("ping_delay6")
  BY LifeRows DEF ping_delay6, ping_delay, Plain
<1>22. RowSweeps("drop_packet")
  BY LifeRows DEF drop_packet, ping_delay, Plain
<1>23. RowSweeps("net_bandwidth")
  BY LifeRows DEF net_bandwidth, drop_packet, ping_delay, Plain
<1>24. RowSweeps("tcp_retrans")
  BY LifeRows DEF tcp_retrans, Plain
<1>25. RowSweeps("tcp_connect")
  BY LifeRows DEF tcp_connect, Plain
<1>26. RowSweeps("alloc_top")
  BY LifeRows DEF alloc_top, Plain
<1>27. RowSweeps("high_order")
  BY LifeRows DEF high_order, Plain
<1>28. RowSweeps("memory_leak")
  BY LifeRows DEF memory_leak, Plain
<1>29. RowSweeps("rss_monitor")
  BY LifeRows DEF rss_monitor, Plain
<1>30. RowSweeps("memcg_stats")
  BY LifeRows DEF memcg_stats, Plain
<1>31. RowSweeps("rw_top")
  BY LifeRows DEF rw_top, Plain
<1>32. RowSweeps("fs_cache")
  BY LifeRows DEF fs_cache, memcg_stats, Plain
<1>33. RowSweeps("fs_orphan")
  BY LifeRows DEF fs_orphan, memcg_stats, Plain
<1>34. RowSweeps("fs_shm")
  BY LifeRows DEF fs_shm, memcg_stats, Plain
<1>35. RowSweeps("pmu")
  BY LifeRows DEF pmu, Plain
<1>36. DOMAIN Life = {
      "mutex_monitor", "rw_sem", "sys_delay", "sched_delay", "irq_delay",
      "irq_stats", "irq_trace", "sys_cost", "sig_info", "throttle_delay",
      "run_trace", "exec_monitor", "exit_monitor", "utilization", "perf",
      "reboot", "kprobe", "uprobe", "task_monitor", "ping_delay",
      "ping_delay6", "drop_packet", "net_bandwidth", "tcp_retrans",
      "tcp_connect", "alloc_top", "high_order", "memory_leak",
      "rss_monitor", "memcg_stats", "rw_top", "fs_cache", "fs_orphan",
      "fs_shm", "pmu"}
  BY DEF Life
<1> HIDE DEF RowSweeps
<1> QED BY <1>1, <1>2, <1>3, <1>4, <1>5, <1>6, <1>7, <1>8, <1>9, <1>10, <1>11,
           <1>12, <1>13, <1>14, <1>15, <1>16, <1>17, <1>18, <1>19, <1>20, <1>21, <1>22,
           <1>23, <1>24, <1>25, <1>26, <1>27, <1>28, <1>29, <1>30, <1>31, <1>32, <1>33,
           <1>34, <1>35, <1>36

-----------------------------------------------------------------------------
(* What is left of a sequence when its first step is done.                 *)

\* What an order of steps says of each of them.
LEMMA Weaker ==
  ASSUME NEW m, NEW s, NEW n
  PROVE  /\ UnhooksWaits(m, s, n) => Waiting(m, s, n)
         /\ UnhooksDrains(m, s, n) => WaitsDrains(m, s, n)
         /\ WaitsDrains(m, s, n) => Has(s, n, "drain")
BY DEF UnhooksWaits, UnhooksDrains, Waiting, WaitsDrains, Has

\* What comes before a stop, comes before any later one.
LEMMA Longer ==
  ASSUME NEW m, NEW s, NEW u, NEW n \in Nat, NEW k \in Nat, n <= k, \A i \in 1..n : s[i] = u[i]
  PROVE  /\ UnhooksWaits(m, s, n) => UnhooksWaits(m, u, k)
         /\ UnhooksDrains(m, s, n) => UnhooksDrains(m, u, k)
         /\ \A x : Has(s, n, x) => Has(u, k, x)
<1>1. 1..n \subseteq 1..k
  OBVIOUS
<1>2. \A x : Has(s, n, x) => Has(u, k, x)
  BY <1>1 DEF Has
<1>3. ASSUME UnhooksWaits(m, s, n) PROVE UnhooksWaits(m, u, k)
  <2>1. PICK i \in 1..n, j \in 1..n : i < j /\ s[i] = "unhook" /\ Waits(m, s[j])
    BY <1>3 DEF UnhooksWaits
  <2>2. i \in 1..k /\ j \in 1..k /\ s[i] = u[i] /\ s[j] = u[j]
    BY <1>1
  <2> QED BY <2>1, <2>2 DEF UnhooksWaits
<1>4. ASSUME UnhooksDrains(m, s, n) PROVE UnhooksDrains(m, u, k)
  <2>1. PICK i \in 1..n, j \in 1..n, l \in 1..n :
          i < j /\ j < l /\ s[i] = "unhook" /\ Waits(m, s[j]) /\ s[l] = "drain"
    BY <1>4 DEF UnhooksDrains
  <2>2. /\ i \in 1..k /\ j \in 1..k /\ l \in 1..k /\ s[i] = u[i] /\ s[j] = u[j] /\ s[l] = u[l]
    BY <1>1
  <2> QED BY <2>1, <2>2 DEF UnhooksDrains
<1> QED BY <1>2, <1>3, <1>4

\* A deactivation does enough before its first disposal, whatever comes after it.
LEMMA Grown ==
  ASSUME NEW m, NEW s, NEW kinds, Ends(m, s, kinds), NEW t \in Seq(Steps),
         NEW n \in Stops(m, s \o t)
  PROVE  /\ "probe" \in kinds \/ "reaper" \in kinds => UnhooksWaits(m, s \o t, n)
         /\ "counted" \in kinds => UnhooksDrains(m, s \o t, n)
         /\ "guarded" \in kinds => Has(s \o t, n, "unprobe")
         /\ "own" \in kinds => Has(s \o t, n, "stop")
<1>1. s \in Seq(Steps)
  BY DEF Ends
<1>2. PICK q \in 0..Len(s) :
        /\ \A i \in 1..q : s[i] \notin Disposals(m)
        /\ "probe" \in kinds \/ "reaper" \in kinds => UnhooksWaits(m, s, q)
        /\ "counted" \in kinds => UnhooksDrains(m, s, q)
        /\ "guarded" \in kinds => Has(s, q, "unprobe")
        /\ "own" \in kinds => Has(s, q, "stop")
  BY DEF Ends
<1>3. PICK u : u = s \o t
  OBVIOUS
<1>4. u \in Seq(Steps) /\ Len(u) = Len(s) + Len(t) /\ \A i \in 1..Len(s) : u[i] = s[i]
  BY <1>1, <1>3
<1>5. Len(s) \in Nat /\ Len(t) \in Nat /\ q \in Nat /\ q <= Len(s)
  BY <1>1
<1>6. n \in Nat /\ (n = Len(u) \/ u[n + 1] \in Disposals(m))
  <2>1. Len(u) \in Nat /\ n \in Stops(m, u)
    BY <1>3, <1>4
  <2> QED BY <2>1 DEF Stops
<1>7. q <= n
  <2>1. CASE n = Len(u)
    BY <1>4, <1>5, <2>1
  <2>2. CASE u[n + 1] \in Disposals(m)
    <3>1. SUFFICES ASSUME n < q PROVE FALSE
      BY <1>5, <1>6
    <3>2. n + 1 \in 1..q /\ n + 1 \in 1..Len(s)
      BY <1>5, <1>6, <3>1
    <3> QED BY <1>2, <1>4, <2>2, <3>2
  <2> QED BY <1>6, <2>1, <2>2
<1>8. \A i \in 1..q : s[i] = u[i]
  BY <1>4, <1>5
<1>9. /\ UnhooksWaits(m, s, q) => UnhooksWaits(m, u, n)
      /\ UnhooksDrains(m, s, q) => UnhooksDrains(m, u, n)
      /\ \A x : Has(s, q, x) => Has(u, n, x)
  BY <1>5, <1>6, <1>7, <1>8, Longer
<1> QED BY <1>2, <1>3, <1>9

\* What is left of a list when its first step is done keeps what came before its stops.
LEMMA Rest ==
  ASSUME NEW m, NEW s \in Seq(Steps), s # <<>>, NEW u, u = Tail(s) \/ u = <<"wait">> \o Tail(s)
  PROVE  /\ u \in Seq(Steps)
         /\ \A x : ~Holds(s, x) /\ x # "wait" => ~Holds(u, x)
         /\ \A x : Holds(s, x) => Head(s) = x \/ Holds(u, x)
         /\ \A n \in Stops(m, u) : \E k \in Stops(m, s) :
              /\ \A x : Has(s, k, x) => Head(s) = x \/ Has(u, n, x)
              /\ Waiting(m, s, k) => Waits(m, Head(s)) \/ Waiting(m, u, n)
              /\ WaitsDrains(m, s, k)
                   => WaitsDrains(m, u, n) \/ (Waits(m, Head(s)) /\ Has(u, n, "drain"))
              /\ UnhooksWaits(m, s, k)
                   => UnhooksWaits(m, u, n) \/ (Head(s) = "unhook" /\ Waiting(m, u, n))
              /\ UnhooksDrains(m, s, k)
                   => UnhooksDrains(m, u, n) \/ (Head(s) = "unhook" /\ WaitsDrains(m, u, n))
<1>1. u \in Seq(Steps)
  <2>1. Tail(s) \in Seq(Steps)
    OBVIOUS
  <2>2. "wait" \in Steps
    BY DEF Steps
  <2> QED BY <2>1, <2>2
<1>2. PICK d \in {0, 1} :
        /\ Len(u) + d = Len(s) /\ \A i \in 1..Len(u) : d = 1 \/ i # 1 => u[i] = s[i + d]
        /\ d = 0 => Len(u) >= 1 /\ u[1] = "wait"
  <2>1. CASE u = Tail(s)
    <3>1. Len(u) + 1 = Len(s) /\ \A i \in 1..Len(u) : u[i] = s[i + 1]
      BY <2>1
    <3> QED BY <3>1
  <2>2. CASE u = <<"wait">> \o Tail(s)
    <3>1. /\ Len(u) + 0 = Len(s) /\ \A i \in 1..Len(u) : i # 1 => u[i] = s[i + 0]
          /\ Len(u) >= 1 /\ u[1] = "wait"
      BY <2>2
    <3> QED BY <3>1
  <2> QED BY <2>1, <2>2
<1>3. PICK a \in Nat, b \in Nat : /\ a = Len(u) /\ b = Len(s) /\ DOMAIN u = 1..a /\ DOMAIN s = 1..b
                              /\ b >= 1 /\ Head(s) = s[1]
  <2>1. Head(s) = s[1] /\ DOMAIN s = 1..Len(s) /\ Len(s) \in Nat /\ Len(s) >= 1
    OBVIOUS
  <2>2. DOMAIN u = 1..Len(u) /\ Len(u) \in Nat
    BY <1>1
  <2> QED BY <2>1, <2>2
<1>4. /\ a + d = b /\ d \in Nat /\ \A i \in 1..a : d = 1 \/ i # 1 => u[i] = s[i + d]
      /\ d = 0 => a >= 1 /\ u[1] = "wait"
  BY <1>2, <1>3
<1>5. ASSUME NEW x, x # "wait", Holds(u, x) PROVE Holds(s, x)
  <2>1. PICK i \in 1..a : u[i] = x
    BY <1>3, <1>5 DEF Holds
  <2>2. i + d \in 1..b /\ s[i + d] = x
    BY <1>3, <1>4, <1>5, <2>1
  <2> QED BY <1>3, <2>2 DEF Holds
<1>6. ASSUME NEW x, Holds(s, x) PROVE Head(s) = x \/ Holds(u, x)
  <2>1. PICK i \in 1..b : s[i] = x
    BY <1>3, <1>6 DEF Holds
  <2>2. CASE i = 1
    BY <1>3, <2>1, <2>2
  <2>3. CASE i # 1
    <3>1. i - d \in 1..a /\ u[i - d] = x
      BY <1>3, <1>4, <2>1, <2>3
    <3> QED BY <1>3, <3>1 DEF Holds
  <2> QED BY <2>2, <2>3
<1>7. ASSUME NEW n \in Stops(m, u)
      PROVE  \E k \in Stops(m, s) :
              /\ \A x : Has(s, k, x) => Head(s) = x \/ Has(u, n, x)
              /\ Waiting(m, s, k) => Waits(m, Head(s)) \/ Waiting(m, u, n)
              /\ WaitsDrains(m, s, k)
                   => WaitsDrains(m, u, n) \/ (Waits(m, Head(s)) /\ Has(u, n, "drain"))
              /\ UnhooksWaits(m, s, k)
                   => UnhooksWaits(m, u, n) \/ (Head(s) = "unhook" /\ Waiting(m, u, n))
              /\ UnhooksDrains(m, s, k)
                   => UnhooksDrains(m, u, n) \/ (Head(s) = "unhook" /\ WaitsDrains(m, u, n))
  <2>1. n \in 0..a /\ (n = a \/ u[n + 1] \in Disposals(m))
    BY <1>3 DEF Stops
  <2>2. "wait" \notin Disposals(m)
    BY DEF Disposals
  <2>3. PICK k : k = n + d
    OBVIOUS
  <2>4. k \in Stops(m, s)
    <3>1. k \in 0..b
      BY <1>3, <1>4, <2>1, <2>3
    <3>2. CASE n = a
      BY <1>4, <2>3, <3>1, <3>2, <1>3 DEF Stops
    <3>3. CASE n # a
      <4>1. n + 1 \in 1..a /\ (d = 1 \/ n + 1 # 1)
        BY <1>4, <2>1, <2>2, <3>3
      <4>2. u[n + 1] = s[k + 1]
        BY <1>4, <2>1, <2>3, <4>1
      <4> QED BY <2>1, <3>1, <3>3, <4>2, <1>3 DEF Stops
    <3> QED BY <3>2, <3>3
  <2>5. ASSUME NEW i \in 1..k, i # 1
        PROVE  i - d \in 1..n /\ u[i - d] = s[i]
    <3>1. i - d \in 1..n
      BY <1>4, <2>1, <2>3, <2>5
    <3>2. i - d \in 1..a /\ (d = 1 \/ i - d # 1) /\ (i - d) + d = i
      BY <1>4, <2>1, <2>3, <2>5, <3>1
    <3> QED BY <1>4, <3>1, <3>2
  <2>6. 1..k \subseteq Nat
    BY <1>4, <2>3
  <2>7. \A x : Has(s, k, x) => Head(s) = x \/ Has(u, n, x)
    BY <1>3, <2>5 DEF Has
  <2>8. Waiting(m, s, k) => Waits(m, Head(s)) \/ Waiting(m, u, n)
    BY <1>3, <2>5 DEF Waiting
  <2>9. ASSUME WaitsDrains(m, s, k)
        PROVE  WaitsDrains(m, u, n) \/ (Waits(m, Head(s)) /\ Has(u, n, "drain"))
    <3>1. PICK i \in 1..k, j \in 1..k : i < j /\ Waits(m, s[i]) /\ s[j] = "drain"
      BY <2>9 DEF WaitsDrains
    <3>2. j - d \in 1..n /\ u[j - d] = "drain"
      <4>1. j # 1
        BY <2>6, <3>1
      <4> QED BY <2>5, <3>1, <4>1
    <3>3. CASE i = 1
      BY <1>3, <3>1, <3>2, <3>3 DEF Has
    <3>4. CASE i # 1
      <4>1. i - d \in 1..n /\ u[i - d] = s[i]
        BY <2>5, <3>4
      <4>2. i - d < j - d
        BY <2>6, <3>1
      <4> QED BY <3>1, <3>2, <4>1, <4>2 DEF WaitsDrains
    <3> QED BY <3>3, <3>4
  <2>10. ASSUME UnhooksWaits(m, s, k)
         PROVE  UnhooksWaits(m, u, n) \/ (Head(s) = "unhook" /\ Waiting(m, u, n))
    <3>1. PICK i \in 1..k, j \in 1..k : i < j /\ s[i] = "unhook" /\ Waits(m, s[j])
      BY <2>10 DEF UnhooksWaits
    <3>2. j - d \in 1..n /\ u[j - d] = s[j]
      <4>1. j # 1
        BY <2>6, <3>1
      <4> QED BY <2>5, <3>1, <4>1
    <3>3. CASE i = 1
      BY <1>3, <3>1, <3>2, <3>3 DEF Waiting
    <3>4. CASE i # 1
      <4>1. i - d \in 1..n /\ u[i - d] = s[i]
        BY <2>5, <3>4
      <4>2. i - d < j - d
        BY <2>6, <3>1
      <4> QED BY <3>1, <3>2, <4>1, <4>2 DEF UnhooksWaits
    <3> QED BY <3>3, <3>4
  <2>11. ASSUME UnhooksDrains(m, s, k)
         PROVE  UnhooksDrains(m, u, n) \/ (Head(s) = "unhook" /\ WaitsDrains(m, u, n))
    <3>1. PICK i \in 1..k, j \in 1..k, l \in 1..k :
            i < j /\ j < l /\ s[i] = "unhook" /\ Waits(m, s[j]) /\ s[l] = "drain"
      BY <2>11 DEF UnhooksDrains
    <3>2. j - d \in 1..n /\ u[j - d] = s[j] /\ l - d \in 1..n /\ u[l - d] = s[l] /\ j - d < l - d
      <4>1. j # 1 /\ l # 1 /\ j - d < l - d
        BY <2>6, <3>1
      <4> QED BY <2>5, <3>1, <4>1
    <3>3. CASE i = 1
      BY <1>3, <3>1, <3>2, <3>3 DEF WaitsDrains
    <3>4. CASE i # 1
      <4>1. i - d \in 1..n /\ u[i - d] = s[i]
        BY <2>5, <3>4
      <4>2. i - d < j - d
        BY <2>6, <3>1
      <4> QED BY <3>1, <3>2, <4>1, <4>2 DEF UnhooksDrains
    <3> QED BY <3>3, <3>4
  <2> QED BY <2>4, <2>7, <2>8, <2>9, <2>10, <2>11
<1> QED BY <1>1, <1>5, <1>6, <1>7


\* No list is freed before there has been a wait.
WaitsFirst(m, s) ==
  \A k \in DOMAIN s : s[k] = "free" => \E j \in DOMAIN s : j < k /\ Waits(m, s[j])

\* What is true of all steps in order is still true of those that are left.
LEMMA RestInOrder ==
  ASSUME NEW m, NEW s \in Seq(Steps), s # <<>>, NEW u, u = Tail(s) \/ u = <<"wait">> \o Tail(s)
  PROVE  /\ Disposed(s) => Disposed(u)
         /\ FreedLate(m, s) => FreedLate(m, u)
         /\ WaitsFirst(m, s) => Waits(m, Head(s)) \/ WaitsFirst(m, u)
         /\ Exits(m, s) /\ Head(s) # "off" => Exits(m, u)
         /\ (\A i \in DOMAIN s : s[i] = "forget" => i = 1) => ~Holds(u, "forget")
         /\ Head(s) = "detach" /\ u = Tail(s) =>
              /\ Disposed(s) => Holds(u, "free") \/ Holds(u, "defer")
              /\ FreedLate(m, s) => WaitsFirst(m, u)
<1>1. PICK d \in {0, 1} :
        /\ Len(u) + d = Len(s) /\ \A i \in 1..Len(u) : d = 1 \/ i # 1 => u[i] = s[i + d]
        /\ d = 0 => Len(u) >= 1 /\ u[1] = "wait"
        /\ u = Tail(s) => d = 1
  <2>1. CASE u = Tail(s)
    <3>1. Len(u) + 1 = Len(s) /\ \A i \in 1..Len(u) : u[i] = s[i + 1]
      BY <2>1
    <3> QED BY <3>1
  <2>2. CASE u # Tail(s)
    <3>1. /\ Len(u) + 0 = Len(s) /\ \A i \in 1..Len(u) : i # 1 => u[i] = s[i + 0]
          /\ Len(u) >= 1 /\ u[1] = "wait"
      BY <2>2
    <3> QED BY <2>2, <3>1
  <2> QED BY <2>1, <2>2
<1>2. u \in Seq(Steps) /\ \A x : Holds(s, x) => Head(s) = x \/ Holds(u, x)
  BY Rest
<1>3. PICK a \in Nat, b \in Nat : /\ a = Len(u) /\ b = Len(s) /\ DOMAIN u = 1..a /\ DOMAIN s = 1..b
                              /\ b >= 1 /\ Head(s) = s[1]
  <2>1. Head(s) = s[1] /\ DOMAIN s = 1..Len(s) /\ Len(s) \in Nat /\ Len(s) >= 1
    OBVIOUS
  <2>2. DOMAIN u = 1..Len(u) /\ Len(u) \in Nat
    BY <1>2
  <2> QED BY <2>1, <2>2
<1>4. /\ a + d = b /\ d \in Nat /\ \A i \in 1..a : d = 1 \/ i # 1 => u[i] = s[i + d]
      /\ d = 0 => a >= 1 /\ u[1] = "wait"
  BY <1>1, <1>3
\* A step that is left was a step, one place on; a step behind the first is left.
<1>5. ASSUME NEW i \in 1..a, u[i] # "wait"
      PROVE  i + d \in 1..b /\ u[i] = s[i + d] /\ i + d # 1
  BY <1>3, <1>4, <1>5
<1>6. ASSUME NEW i \in 1..b, i # 1
      PROVE  i - d \in 1..a /\ u[i - d] = s[i]
  <2>1. i - d \in 1..a /\ (d = 1 \/ i - d # 1) /\ (i - d) + d = i
    BY <1>3, <1>4, <1>6
  <2> QED BY <1>4, <2>1
<1>7. ASSUME Disposed(s) PROVE Disposed(u)
  <2>1. SUFFICES ASSUME NEW i \in 1..a, u[i] = "detach"
                 PROVE  \E k \in 1..a : i < k /\ u[k] \in {"free", "defer"}
    BY <1>3 DEF Disposed
  <2>2. i + d \in 1..b /\ s[i + d] = "detach"
    BY <1>5, <2>1
  <2>3. PICK k \in 1..b : i + d < k /\ s[k] \in {"free", "defer"}
    BY <1>3, <1>7, <2>2 DEF Disposed
  <2>4. k # 1 /\ i < k - d
    BY <1>4, <2>3
  <2> QED BY <1>6, <2>3, <2>4
<1>8. ASSUME FreedLate(m, s) PROVE FreedLate(m, u)
  <2>1. SUFFICES ASSUME NEW i \in 1..a, NEW k \in 1..a, i < k, u[i] = "detach", u[k] = "free"
                 PROVE  \E j \in 1..a : i < j /\ j < k /\ Waits(m, u[j])
    BY <1>3 DEF FreedLate
  <2>2. /\ i + d \in 1..b /\ s[i + d] = "detach" /\ k + d \in 1..b /\ s[k + d] = "free"
        /\ i + d < k + d
    BY <1>4, <1>5, <2>1
  <2>3. PICK j \in 1..b : i + d < j /\ j < k + d /\ Waits(m, s[j])
    BY <1>3, <1>8, <2>2 DEF FreedLate
  <2>4. j # 1 /\ i < j - d /\ j - d < k
    BY <1>4, <2>3
  <2> QED BY <1>6, <2>3, <2>4
<1>9. ASSUME WaitsFirst(m, s) PROVE Waits(m, Head(s)) \/ WaitsFirst(m, u)
  <2>1. SUFFICES ASSUME ~Waits(m, Head(s)), NEW k \in 1..a, u[k] = "free"
                 PROVE  \E j \in 1..a : j < k /\ Waits(m, u[j])
    BY <1>3 DEF WaitsFirst
  <2>2. k + d \in 1..b /\ s[k + d] = "free"
    BY <1>5, <2>1
  <2>3. PICK j \in 1..b : j < k + d /\ Waits(m, s[j])
    BY <1>3, <1>9, <2>2 DEF WaitsFirst
  <2>4. j # 1 /\ j - d < k
    BY <1>3, <1>4, <2>1, <2>3
  <2> QED BY <1>6, <2>3, <2>4
<1>10. ASSUME Exits(m, s), Head(s) # "off" PROVE Exits(m, u)
  <2>1. m \notin NeverExits => Holds(u, "off")
    BY <1>2, <1>10 DEF Exits
  <2>2. \A i \in 1..a : u[i] \notin {"hook", "start", "forget", "detach", "free", "defer"}
    BY <1>3, <1>5, <1>10 DEF Exits
  <2>3. ASSUME NEW i \in 1..a, NEW j \in 1..a, u[i] = "off"
        PROVE  (j < i => u[j] \in BeforeOff(m)) /\ (j > i => u[j] \notin UpToOff)
    <3>1. i + d \in 1..b /\ s[i + d] = "off"
      BY <1>5, <2>3
    <3>2. CASE u[j] = "wait"
      BY <3>2 DEF BeforeOff, UpToOff
    <3>3. CASE u[j] # "wait"
      <4>1. j + d \in 1..b /\ s[j + d] = u[j]
            /\ (j < i => j + d < i + d) /\ (j > i => j + d > i + d)
        BY <1>4, <1>5, <3>3
      <4> QED BY <1>3, <1>10, <3>1, <4>1 DEF Exits
    <3> QED BY <3>2, <3>3
  <2> QED BY <1>2, <1>3, <2>1, <2>2, <2>3 DEF Exits
<1>11. ASSUME \A i \in DOMAIN s : s[i] = "forget" => i = 1 PROVE ~Holds(u, "forget")
  BY <1>3, <1>5, <1>11 DEF Holds
<1>12. ASSUME Head(s) = "detach", u = Tail(s)
       PROVE  /\ Disposed(s) => Holds(u, "free") \/ Holds(u, "defer")
              /\ FreedLate(m, s) => WaitsFirst(m, u)
  <2>1. d = 1 /\ 1 \in 1..b /\ s[1] = "detach"
    BY <1>1, <1>3, <1>12
  <2>2. ASSUME Disposed(s) PROVE Holds(u, "free") \/ Holds(u, "defer")
    <3>1. PICK k \in 1..b : 1 < k /\ s[k] \in {"free", "defer"}
      BY <1>3, <2>1, <2>2 DEF Disposed
    <3>2. k - d \in 1..a /\ u[k - d] = s[k]
      BY <1>6, <3>1
    <3> QED BY <1>3, <3>1, <3>2 DEF Holds
  <2>3. ASSUME FreedLate(m, s), NEW k \in 1..a, u[k] = "free"
        PROVE  \E j \in 1..a : j < k /\ Waits(m, u[j])
    <3>1. k + 1 \in 1..b /\ s[k + 1] = "free" /\ 1 < k + 1
      BY <1>5, <2>1, <2>3
    <3>2. PICK j \in 1..b : 1 < j /\ j < k + 1 /\ Waits(m, s[j])
      BY <1>3, <2>1, <2>3, <3>1 DEF FreedLate
    <3>3. j - d \in 1..a /\ u[j - d] = s[j]
      BY <1>6, <3>2
    <3> QED BY <2>1, <3>2, <3>3
  <2> QED BY <1>3, <2>2, <2>3 DEF WaitsFirst
<1> QED BY <1>7, <1>8, <1>9, <1>10, <1>11, <1>12

\* What comes before the deactivation that an exit of the module contains, and after it.
LEMMA ExitOrder ==
  ASSUME NEW m, NEW s \in Seq(Steps), Exits(m, s), Holds(s, "off")
  PROVE  /\ s # <<>> /\ Tail(s) \in Seq(Steps) /\ Head(s) \in BeforeOff(m) \cup {"off"}
         /\ \A i \in DOMAIN Tail(s) : Tail(s)[i] \in {s[j] : j \in DOMAIN s}
         /\ Head(s) = "off" => \A x \in UpToOff : ~Holds(Tail(s), x)
         /\ \A x : Holds(s, x) => Head(s) = x \/ Holds(Tail(s), x)
<1>1. PICK i \in DOMAIN s : s[i] = "off"
  BY DEF Holds
<1>2. s # <<>> /\ Head(s) = s[1] /\ 1 \in DOMAIN s /\ Tail(s) \in Seq(Steps)
  BY <1>1
<1>3. Head(s) \in BeforeOff(m) \cup {"off"}
  <2>1. i = 1 \/ 1 < i
    BY <1>1
  <2> QED BY <1>1, <1>2, <2>1 DEF Exits
<1>4. ASSUME NEW j \in DOMAIN Tail(s)
      PROVE  j + 1 \in DOMAIN s /\ Tail(s)[j] = s[j + 1] /\ 1 < j + 1
  BY <1>2
<1>5. Head(s) = "off" => \A x \in UpToOff : ~Holds(Tail(s), x)
  BY <1>2, <1>4 DEF Holds, Exits
<1>6. \A x : Holds(s, x) => Head(s) = x \/ Holds(Tail(s), x)
  BY <1>2, Rest
<1> QED BY <1>2, <1>3, <1>4, <1>5, <1>6

USE LifeAssumption
-----------------------------------------------------------------------------
(* Types.                                                                  *)

ToDo == todo["ctl"]

TypeInv ==
  /\ mon \in Monitors /\ style \in BOOLEAN /\ activated \in BOOLEAN /\ hooks \subseteq Kinds
  /\ pc \in [Flows -> Atomic \cup {"out", "asleep"}] /\ kind \in [Flows -> Kinds]
  /\ phase \in {"idle", "on", "off", "exit", "gone"} /\ spc \in {"idle", "copy"}
  /\ DOMAIN gp = {"ctl", "dump"}
  /\ DOMAIN todo = {"ctl", "dump"} /\ ToDo \in Seq(Steps)
  /\ timers \in BOOLEAN /\ buffer \in {"none", "up", "gone"}
  /\ \A f \in Flows : pc[f] \in {"entry", "asleep"} => kind[f] = "counted"

\* The row of the monitor.
LEMMA RowIsOK == ASSUME mon \in Monitors PROVE RowOK(mon)
BY RowsAreOK

\* What a handler does: it goes to p, and the controller stops waiting for it there
\* unless it is still in its atomic section.
Moves(f, p) ==
  /\ pc' = [pc EXCEPT ![f] = p] /\ p \in Atomic \cup {"out", "asleep"}
  /\ DOMAIN gp' = DOMAIN gp
  /\ IF p \in Atomic THEN gp' = gp ELSE gp'["ctl"] = gp["ctl"] \ {f}
  /\ UNCHANGED <<monVars, reqVars>>

Flowing(f) ==
  \/ Enter(f) \/ Count(f) \/ Sleep(f) \/ Wake(f) \/ FindDesc(f) \/ Reap(f) \/ Emit(f) \/ Leave(f)

\* Where a handler goes, from where.
LEMMA Flow ==
  ASSUME TypeInv, NEW f \in Flows, Flowing(f)
  PROVE  \/ /\ pc[f] = "out" /\ \E k \in Callable : /\ kind' = [kind EXCEPT ![f] = k]
                                                  /\ Moves(f, IF k = "counted" THEN "entry" ELSE "work")
            /\ running' = running
         \/ /\ pc[f] = "entry" /\ Moves(f, "work") /\ running' = running + 1 /\ kind' = kind
         \/ /\ pc[f] = "work" /\ kind[f] = "counted" /\ Moves(f, "asleep") /\ UNCHANGED <<running, kind>>
         \/ /\ pc[f] \in {"asleep", "work", "held"} /\ UNCHANGED <<running, kind>>
            /\ \E p \in {"work", "held", "emit", "done"} : Moves(f, p)
         \/ /\ pc[f] \in {"work", "held", "emit", "done"} /\ Moves(f, "out") /\ kind' = kind
            /\ running' = CountedOut(f)
<1> USE DEF Goto, Moves, Atomic, TypeInv
<1>1. CASE Enter(f)
  BY <1>1 DEF Enter
<1>2. CASE Count(f)
  BY <1>2 DEF Count
<1>3. CASE Sleep(f)
  BY <1>3 DEF Sleep
<1>4. CASE Wake(f)
  BY <1>4 DEF Wake
<1>5. CASE FindDesc(f)
  <2>1. pc[f] = "work" /\ UNCHANGED <<running, kind, monVars, reqVars>>
    BY <1>5 DEF FindDesc
  <2>2. Goto(f, "held") \/ Goto(f, "done")
    BY <1>5 DEF FindDesc
  <2> QED BY <2>1, <2>2
<1>6. CASE Reap(f)
  <2>1. pc[f] = "work" /\ UNCHANGED <<running, kind, monVars, reqVars>> /\ Goto(f, "done")
    BY <1>6 DEF Reap
  <2> QED BY <2>1
<1>7. CASE Emit(f)
  BY <1>7 DEF Emit
<1>8. CASE Leave(f)
  BY <1>8 DEF Leave
<1> QED BY <1>1, <1>2, <1>3, <1>4, <1>5, <1>6, <1>7, <1>8 DEF Flowing

Stays == UNCHANGED <<flowVars, mon, style, phase, spc>>
         /\ DOMAIN gp' = DOMAIN gp /\ DOMAIN todo' = DOMAIN todo

\* What the controller does with its next step.
Works ==
  LET step == Head(ToDo) IN
  /\ ToDo # <<>> /\ Stays
  /\ activated' = (activated /\ step # "clear") /\ timers' = (timers /\ step # "cancel")
  /\ buffer' = IF step = "destroy" /\ buffer = "up" THEN "gone" ELSE buffer
  /\ ToDo' = IF step = "off" THEN (IF activated THEN Row.off ELSE <<>>) \o <<"clear">> \o Tail(ToDo)
             ELSE IF step \in {"unprobe", "stop", "cancel", "close"} \/ Waits(mon, step)
                    THEN <<"wait">> \o Tail(ToDo) ELSE Tail(ToDo)
  /\ hooks' \subseteq hooks \cup (IF step = "hook" THEN Hooked \ ({"own"} \cup Lasting)
                               ELSE IF step = "start" THEN {"own"} ELSE {})
  /\ step = "unhook" => hooks' \cap Hooked \subseteq {"guarded", "own"} \cup Asked
  /\ step = "unprobe" => /\ "guarded" \notin hooks' /\ "asked" \notin hooks'
                         /\ gp'["ctl"] = InAtomic({"guarded", "asked"})
  /\ step = "close" => "command" \notin hooks' /\ gp'["ctl"] = InAtomic({"command"})
  /\ step = "stop" => "own" \notin hooks' /\ gp'["ctl"] = InAtomic({"own"})
  /\ step = "cancel" => gp'["ctl"] = InAtomic(Timed)
  /\ Waits(mon, step) => gp'["ctl"] = InAtomic(Kinds)
  /\ step = "wait" => gp["ctl"] = {}
  /\ step = "drain" => running = 0

\* A step of the controller other than its last is one of the steps described above.
LEMMA Work ==
  ASSUME TypeInv, Controller, ~Done
  PROVE  Works
<1> USE DEF Works, Stays, TypeInv, ToDo, Next1, Pop, WaitFor, Others, flowVars, Waits, Timed,
            Asked, Lasting
<1>1. CASE Sync("ctl") \/ Msleep("ctl") \/ Wait("ctl")
  BY <1>1 DEF Sync, Msleep, Wait, SyncSet
<1>2. CASE Detach("ctl") \/ Free("ctl") \/ Defer("ctl")
  BY <1>2 DEF Detach, Free, Defer
<1>3. CASE Hook \/ Start
  BY <1>3 DEF Hook, Start
<1>4. CASE Unhook
  BY <1>4 DEF Unhook, Unhooked
<1>5. CASE Unprobe \/ Stop \/ Cancel \/ Close
  BY <1>5 DEF Unprobe, Stop, Cancel, Close
<1>6. CASE Drain \/ Clean \/ Forget \/ Clear \/ Destroy
  BY <1>6 DEF Drain, Drained, Clean, Forget, Clear, Destroy
<1>7. CASE Off
  BY <1>7 DEF Off
<1> QED BY <1>1, <1>2, <1>3, <1>4, <1>5, <1>6, <1>7 DEF Controller, Requester

\* Nothing that matters here, but that a command hooks uprobes or takes them out.
Still ==
  /\ Stays /\ UNCHANGED <<activated, timers, buffer>> /\ ToDo' = ToDo /\ gp'["ctl"] = gp["ctl"]
  /\ hooks' # hooks =>
       /\ "asked" \in Row.hooks /\ phase \in {"idle", "on", "off"}
       /\ hooks' \in {hooks \cup {"asked"}, hooks \ {"asked"}}

\* The steps of the system, as the invariants see them.
LEMMA AllSteps ==
  ASSUME TypeInv, [Next]_vars
  PROVE  \/ \E f \in Flows : Flowing(f)
         \/ Works \/ Done \/ Activate \/ Deactivate \/ Exit \/ SetTest \/ SetAssign \/ Still
<1> USE DEF Still, Stays, TypeInv, ToDo, flowVars
<1>1. CASE Requester("dump")
  <2> USE DEF Next1, Pop, WaitFor, Others
  <2>1. CASE Sync("dump") \/ Msleep("dump") \/ Wait("dump")
    BY <2>1 DEF Sync, Msleep, Wait
  <2>2. CASE Detach("dump") \/ Free("dump") \/ Defer("dump")
    BY <2>2 DEF Detach, Free, Defer
  <2> QED BY <1>1, <2>1, <2>2 DEF Requester
<1>2. CASE Dump
  BY <1>2 DEF Dump, Begin, monVars
<1>4. CASE \E d \in Descs : Callback(d)
  BY <1>4 DEF Callback, monVars, reqVars
<1>3. CASE UNCHANGED vars
  BY <1>3 DEF vars, monVars, reqVars
<1>5. CASE AskUprobe
  BY <1>5 DEF AskUprobe, reqVars
<1> QED BY <1>1, <1>2, <1>3, <1>4, <1>5, Work DEF Next, Flowing, Handler

-----------------------------------------------------------------------------
(* The inductive invariant, in parts.                                      *)

\* diag_nr_running is the number of the handlers that have counted themselves.
CountedFlows ==
  {f \in Flows : kind[f] = "counted" /\ pc[f] \in {"work", "held", "emit", "done", "asleep"}}
CountInv == running = Cardinality(CountedFlows)

\* SET is alone with a monitor that is off.
ReqInv ==
  /\ spc = "copy" => phase = "idle" /\ ~activated
  /\ phase \in {"idle", "gone"} => ToDo = <<>>

\* The exit of the module has not come to the deactivation yet.
Pending == phase = "exit" /\ Holds(ToDo, "off")
\* A deactivation is under way, or over and the module's exit is not.
Ending == phase = "off" \/ (phase = "exit" /\ ~Pending /\ mon \notin NeverExits)
Quiet == hooks \subseteq Asked /\ \A f \in Flows : pc[f] = "out" \/ kind[f] \in Lasting

\* The kinds of handlers that may run with this style.
Runnable == (Hooked \ Timed) \cup (Row.hooks \cap Timed)

\* What is hooked or runs is of the kinds that this style hooks, and off means quiet.
KindInv ==
  /\ hooks \subseteq Hooked \ Timed
  /\ \A f \in Flows : pc[f] # "out" => kind[f] \in Runnable
  /\ phase = "on" => Begins(ToDo, Row.hooks)
  /\ phase \in {"off", "exit"} => ~Holds(ToDo, "hook") /\ ~Holds(ToDo, "start")
  /\ phase = "off" => ~Holds(ToDo, "off")
  /\ (Idle \/ Pending) /\ ~activated => Quiet
  /\ phase = "gone" /\ mon \notin NeverExits => Quiet
  /\ Pending => Exits(mon, ToDo)

\* The controller waits for f.
Kept(f) == ToDo # <<>> /\ Head(ToDo) = "wait" /\ f \in gp["ctl"]

\* While a deactivation is under way, enough comes before each disposal that is
\* left, and before the end, for what is still hooked and for every handler that
\* still runs.
HookInv ==
  Ending => \A n \in Stops(mon, ToDo) :
    /\ "probe" \in hooks \/ "reaper" \in hooks => UnhooksWaits(mon, ToDo, n)
    /\ "counted" \in hooks => UnhooksDrains(mon, ToDo, n)
    /\ "guarded" \in hooks => Has(ToDo, n, "unprobe")
    /\ "own" \in hooks => Has(ToDo, n, "stop")

Awaited(f, n) ==
  /\ pc[f] \in Atomic =>
       /\ kind[f] \in {"probe", "reaper"} => Waiting(mon, ToDo, n) \/ Kept(f)
       /\ kind[f] = "guarded" => Has(ToDo, n, "unprobe") \/ Kept(f)
       /\ kind[f] = "own" => Has(ToDo, n, "stop") \/ Kept(f)
  /\ pc[f] = "entry" => WaitsDrains(mon, ToDo, n) \/ (Kept(f) /\ Has(ToDo, n, "drain"))
  /\ f \in CountedFlows => Has(ToDo, n, "drain")

FlowInv == Ending => \A n \in Stops(mon, ToDo), f \in Flows : Awaited(f, n)

\* The per-CPU timers are stopped first when the module exits, and waited for.
TimerInv ==
  /\ timers /\ phase \in {"exit", "gone"} => phase = "exit" /\ ToDo # <<>> /\ Head(ToDo) = "cancel"
  /\ ~timers => \A f \in Flows : pc[f] # "out" /\ kind[f] \in Timed => Kept(f)

\* The exit of the module has an end ahead for commands and their uprobes, and has come
\* to it when it deactivates the monitor.
AskInv ==
  /\ Pending =>
       /\ \A k \in hooks \cap Asked : Holds(ToDo, Ender(k))
       /\ \A f \in Flows : pc[f] # "out" /\ kind[f] \in Asked =>
            Holds(ToDo, Ender(kind[f])) \/ Kept(f)
  /\ phase \in {"exit", "gone"} /\ ~Pending /\ mon \notin NeverExits =>
       hooks \cap Asked = {} /\ \A f \in Flows : pc[f] = "out" \/ kind[f] \notin Asked

LifeInv == TypeInv /\ CountInv /\ ReqInv /\ KindInv /\ HookInv /\ FlowInv /\ TimerInv /\ AskInv

\* It holds at first.
LEMMA InitLife == Init => LifeInv
<1> SUFFICES ASSUME Init PROVE LifeInv
  OBVIOUS
<1>1. mon \in Monitors
  BY DEF Init
<1>2. TypeInv
  <2>1. ToDo \in Seq(Steps) /\ DOMAIN todo = {"ctl", "dump"}
    BY DEF Init, ToDo
  <2>2. /\ pc \in [Flows -> Atomic \cup {"out", "asleep"}] /\ kind \in [Flows -> Kinds]
        /\ \A f \in Flows : pc[f] \notin {"entry", "asleep"}
    BY DEF Init, Kinds
  <2> QED BY <1>1, <2>1, <2>2 DEF Init, TypeInv, Styles, Kinds
<1>3. CountInv
  <2>1. CountedFlows = {}
    BY DEF Init, CountedFlows
  <2> QED BY <2>1, FS_EmptySet DEF Init, CountInv
<1>4. hooks = Row.hooks \cap {"command"}
  BY DEF Init, Row
<1>5. ReqInv /\ KindInv /\ HookInv /\ FlowInv /\ TimerInv /\ AskInv
  BY <1>4 DEF Init, ReqInv, KindInv, HookInv, FlowInv, TimerInv, AskInv, ToDo, Idle, Pending,
         Ending, Quiet, Hooked, Timed, Asked
<1> QED BY <1>2, <1>3, <1>5 DEF LifeInv

\* Types.
LEMMA TypeNext ==
  ASSUME TypeInv, [Next]_vars
  PROVE  TypeInv'
<1> USE DEF TypeInv
<1>0. RowOK(mon)
  BY RowIsOK
<1>1. CASE \E f \in Flows : Flowing(f)
  <2>1. PICK f \in Flows : Flowing(f)
    BY <1>1
  <2>2. Callable \subseteq Kinds
    BY <1>0 DEF Callable, RowOK, RowKinds, Row
  <2>3. UNCHANGED <<mon, style, activated, hooks, phase, spc, timers, buffer>>
        /\ todo' = todo /\ DOMAIN gp' = DOMAIN gp
    BY <2>1, Flow DEF Moves, monVars, reqVars
  <2>4. ToDo' = ToDo
    BY <2>3 DEF ToDo
  <2>5. kind' \in [Flows -> Kinds]
    BY <2>1, <2>2, Flow
  <2>6. pc' \in [Flows -> Atomic \cup {"out", "asleep"}]
    BY <2>1, Flow DEF Moves
  <2>7. \A g \in Flows : pc'[g] \in {"entry", "asleep"} => kind'[g] = "counted"
    BY <2>1, Flow DEF Moves
  <2> QED BY <2>3, <2>4, <2>5, <2>6, <2>7
<1>2. CASE Works
  <2>1. hooks' \subseteq Kinds
    BY <1>0, <1>2 DEF Works, RowOK, RowKinds, Row, Hooked, Kinds
  <2>2. ToDo' \in Seq(Steps)
    <3>1. Tail(ToDo) \in Seq(Steps) /\ <<"wait">> \in Seq(Steps) /\ <<"clear">> \in Seq(Steps)
      BY <1>2 DEF Works, Steps
    <3>2. Row.off \in Seq(Steps) /\ <<>> \in Seq(Steps)
      BY <1>0 DEF RowOK, Row
    <3>3. \A s \in Seq(Steps), t \in Seq(Steps), u \in Seq(Steps) :
            s \o t \in Seq(Steps) /\ s \o t \o u \in Seq(Steps)
      OBVIOUS
    <3> QED BY <1>2, <3>1, <3>2, <3>3 DEF Works
  <2> QED BY <1>2, <2>1, <2>2 DEF Works, Stays, flowVars
<1>3. CASE Done
  BY <1>3 DEF Done, flowVars, ToDo
<1>4. CASE Activate \/ Deactivate \/ Exit
  <2>1. PICK steps \in Seq(Steps) : Begin("ctl", steps)
    <3>1. Row.on \in Seq(Steps) /\ Row.off \in Seq(Steps)
          /\ <<"cancel">> \o Row.exit \o <<"sync">> \in Seq(Steps)
      BY <1>0 DEF RowOK, Row, Begins, Exits, ExitSteps
    <3> QED BY <1>4, <3>1 DEF Activate, Deactivate, Exit
  <2>2. ToDo' \in Seq(Steps) /\ DOMAIN todo' = DOMAIN todo
    BY <2>1 DEF Begin, ToDo
  <2> QED BY <1>4, <2>2 DEF Activate, Deactivate, Exit, flowVars, monVars
<1>5. CASE SetTest \/ SetAssign
  BY <1>5 DEF SetTest, SetAssign, Styles, flowVars, monVars, ToDo
<1>6. CASE Still
  BY <1>6 DEF Still, Stays, flowVars, Kinds
<1> QED BY <1>1, <1>2, <1>3, <1>4, <1>5, <1>6, AllSteps

\* The controller leaves the handlers where they are.
LEMMA OthersStay ==
  ASSUME TypeInv, [Next]_vars, \A f \in Flows : ~Flowing(f)
  PROVE  UNCHANGED <<flowVars, mon>> /\ (UNCHANGED style \/ SetAssign)
BY AllSteps DEF Works, Still, Stays, Done, Activate, Deactivate, Exit, SetTest, SetAssign, monVars

\* The handlers that are counted.
LEMMA CountNext ==
  ASSUME TypeInv, CountInv, [Next]_vars
  PROVE  CountInv'
<1> USE DEF TypeInv, CountInv
<1>1. IsFiniteSet(CountedFlows) /\ IsFiniteSet(CountedFlows')
  BY FS_Subset DEF CountedFlows
<1>2. CASE \E f \in Flows : Flowing(f)
  <2>1. PICK f \in Flows : Flowing(f)
    BY <1>2
  <2>2. CASE running' = running /\ CountedFlows' = CountedFlows
    BY <2>2
  <2>3. CASE running' = running + 1 /\ f \notin CountedFlows /\ CountedFlows' = CountedFlows \cup {f}
    BY <1>1, <2>3, FS_AddElement, FS_CardinalityType
  <2>4. CASE running' = running - 1 /\ f \in CountedFlows /\ CountedFlows' = CountedFlows \ {f}
    BY <1>1, <2>4, FS_RemoveElement, FS_CardinalityType
  <2>5. CASE /\ pc[f] = "out" /\ \E k \in Callable : /\ kind' = [kind EXCEPT ![f] = k]
                                                   /\ Moves(f, IF k = "counted" THEN "entry" ELSE "work")
             /\ running' = running
    <3>1. CountedFlows' = CountedFlows
      BY <2>5 DEF CountedFlows, Moves
    <3> QED BY <2>5, <3>1, <2>2
  <2>6. CASE pc[f] = "entry" /\ Moves(f, "work") /\ running' = running + 1 /\ kind' = kind
    <3>1. f \notin CountedFlows /\ CountedFlows' = CountedFlows \cup {f}
      BY <2>6 DEF CountedFlows, Moves
    <3> QED BY <2>6, <3>1, <2>3
  <2>7. CASE pc[f] = "work" /\ kind[f] = "counted" /\ Moves(f, "asleep") /\ UNCHANGED <<running, kind>>
    <3>1. CountedFlows' = CountedFlows
      BY <2>7 DEF CountedFlows, Moves
    <3> QED BY <2>7, <3>1, <2>2
  <2>8. CASE /\ pc[f] \in {"asleep", "work", "held"} /\ UNCHANGED <<running, kind>>
             /\ \E p \in {"work", "held", "emit", "done"} : Moves(f, p)
    <3>1. CountedFlows' = CountedFlows
      BY <2>8 DEF CountedFlows, Moves
    <3> QED BY <2>8, <3>1, <2>2
  <2>9. CASE /\ pc[f] \in {"work", "held", "emit", "done"} /\ Moves(f, "out") /\ kind' = kind
             /\ running' = CountedOut(f)
    <3>1. CountedFlows' = CountedFlows \ {f}
      BY <2>9 DEF CountedFlows, Moves
    <3>2. CASE kind[f] = "counted"
      <4>1. f \in CountedFlows
        BY <2>9, <3>2 DEF CountedFlows
      <4> QED BY <2>9, <3>1, <3>2, <4>1, <2>4 DEF CountedOut
    <3>3. CASE kind[f] # "counted"
      <4>1. f \notin CountedFlows
        BY <3>3 DEF CountedFlows
      <4> QED BY <2>9, <3>1, <3>3, <4>1, <2>2 DEF CountedOut
    <3> QED BY <3>2, <3>3
  <2> QED BY <2>1, <2>5, <2>6, <2>7, <2>8, <2>9, Flow
<1>3. CASE \A f \in Flows : ~Flowing(f)
  BY <1>3, OthersStay DEF flowVars, CountedFlows
<1> QED BY <1>2, <1>3

\* The requests of the operator.
LEMMA ReqNext ==
  ASSUME TypeInv, ReqInv, [Next]_vars, OneOperator
  PROVE  ReqInv'
<1> USE DEF TypeInv, ReqInv
<1>1. CASE \E f \in Flows : Flowing(f)
  BY <1>1, Flow DEF Moves, monVars, reqVars, ToDo
<1>2. CASE Works
  BY <1>2 DEF Works, Stays
<1>3. CASE Done
  BY <1>3 DEF Done, ToDo
<1>4. CASE Activate \/ Deactivate \/ Exit
  BY <1>4 DEF Activate, Deactivate, Exit, monVars
<1>5. CASE SetTest \/ SetAssign
  BY <1>5 DEF SetTest, SetAssign, monVars, ToDo, Idle
<1>6. CASE Still
  BY <1>6 DEF Still, Stays
<1> QED BY <1>1, <1>2, <1>3, <1>4, <1>5, <1>6, AllSteps

\* A handler that enters is of a kind that is hooked, or called by a per-CPU timer.
LEMMA CallableKinds ==
  ASSUME KindInv
  PROVE  /\ Callable \subseteq hooks \cup Timed /\ Callable \subseteq Runnable
         /\ ~timers => Callable \cap Timed = {}
         /\ hooks \cap Timed = {}
BY DEF KindInv, Callable, Timed, Runnable

\* Where nothing may be left, nothing is.
LEMMA StopQuiet ==
  ASSUME LifeInv, Ending, 0 \in Stops(mon, ToDo), ToDo = <<>> \/ Head(ToDo) # "wait"
  PROVE  Quiet
<1> USE DEF LifeInv, TypeInv
<1>1. /\ ~UnhooksWaits(mon, ToDo, 0) /\ ~UnhooksDrains(mon, ToDo, 0) /\ ~WaitsDrains(mon, ToDo, 0)
      /\ ~Waiting(mon, ToDo, 0) /\ \A x : ~Has(ToDo, 0, x)
  BY DEF UnhooksWaits, UnhooksDrains, WaitsDrains, Waiting, Has
<1>2. /\ Kinds = {"probe", "counted", "guarded", "reaper", "own"} \cup Lasting
      /\ Lasting = Timed \cup Asked
  BY DEF Kinds, Lasting, Timed, Asked
<1>3. hooks \subseteq Asked
  <2>1. hooks \cap {"probe", "counted", "guarded", "reaper", "own"} = {}
    BY <1>1 DEF HookInv
  <2> QED BY <1>2, <2>1 DEF KindInv
<1>4. ASSUME NEW f \in Flows, pc[f] # "out", kind[f] \notin Lasting
      PROVE  FALSE
  <2>1. kind[f] \in {"probe", "counted", "guarded", "reaper", "own"}
    BY <1>2, <1>4
  <2>2. Awaited(f, 0) /\ ~Kept(f)
    BY DEF FlowInv, Kept
  <2>3. f \notin CountedFlows /\ pc[f] # "entry"
    BY <1>1, <2>2 DEF Awaited
  <2>4. pc[f] \in Atomic /\ kind[f] # "counted"
    BY <1>4, <2>3 DEF CountedFlows, Atomic
  <2> QED BY <1>1, <2>1, <2>2, <2>4 DEF Awaited
<1> QED BY <1>3, <1>4 DEF Quiet

\* When all steps are done, and when the next one is a disposal.
LEMMA DoneQuiet ==
  ASSUME LifeInv, Ending, ToDo = <<>> \/ Head(ToDo) \in Disposals(mon)
  PROVE  Quiet
<1>1. CASE ToDo = <<>>
  <2>1. 0 \in Stops(mon, ToDo)
    BY <1>1 DEF Stops
  <2> QED BY <1>1, <2>1, StopQuiet
<1>2. CASE ToDo # <<>>
  <2>1. ToDo \in Seq(Steps) /\ Head(ToDo) \in Disposals(mon)
    BY <1>2 DEF LifeInv, TypeInv
  <2>2. Head(ToDo) = ToDo[0 + 1] /\ 0 \in 0..Len(ToDo)
    BY <1>2, <2>1
  <2>3. 0 \in Stops(mon, ToDo) /\ Head(ToDo) # "wait"
    BY <2>1, <2>2 DEF Stops, Disposals
  <2> QED BY <2>3, StopQuiet
<1> QED BY <1>1, <1>2

\* What the steps of the controller leave to do, in each phase.
LEMMA WorkStep ==
  ASSUME LifeInv, Works
  PROVE  /\ ToDo # <<>> /\ ToDo \in Seq(Steps) /\ UNCHANGED <<flowVars, mon, style, phase, spc>>
         /\ phase \in {"on", "off", "exit"} /\ Holds(ToDo, Head(ToDo))
         /\ Head(ToDo) # "off" =>
              ToDo' = IF Head(ToDo) \in {"unprobe", "stop", "cancel", "close"} \/ Waits(mon, Head(ToDo))
                        THEN <<"wait">> \o Tail(ToDo) ELSE Tail(ToDo)
         /\ Head(ToDo) = "off" => Pending
         /\ phase # "on" => hooks' \subseteq hooks
         /\ \A f \in Flows : ~Kept(f)
<1> USE DEF LifeInv, TypeInv
<1>1. ToDo # <<>> /\ UNCHANGED <<flowVars, mon, style, phase, spc>>
  BY DEF Works, Stays
<1>2. Head(ToDo) = ToDo[1] /\ 1 \in DOMAIN ToDo
  BY <1>1
<1>3. phase \in {"on", "off", "exit"} /\ Holds(ToDo, Head(ToDo))
  BY <1>1, <1>2 DEF ReqInv, Holds
<1>4. Head(ToDo) = "off" => Pending
  BY <1>2, <1>3 DEF KindInv, Pending, Begins
<1>5. phase # "on" => Head(ToDo) \notin {"hook", "start"}
  BY <1>3 DEF KindInv
<1>6. phase # "on" => hooks' \subseteq hooks
  BY <1>5 DEF Works
<1>7. \A f \in Flows : ~Kept(f)
  BY DEF Works, Kept
<1>8. Head(ToDo) # "off" =>
        ToDo' = IF Head(ToDo) \in {"unprobe", "stop", "cancel", "close"} \/ Waits(mon, Head(ToDo))
                  THEN <<"wait">> \o Tail(ToDo) ELSE Tail(ToDo)
  BY DEF Works
<1> QED BY <1>1, <1>3, <1>4, <1>6, <1>7, <1>8

\* A step of a sequence that is put together of two is a step of one of them.
LEMMA HoldsConcat ==
  ASSUME NEW w \in Seq(Steps), NEW t \in Seq(Steps), NEW x
  PROVE  Holds(w \o t, x) <=> Holds(w, x) \/ Holds(t, x)
<1>1. PICK u, a, b : u = w \o t /\ a = Len(w) /\ b = Len(t)
  OBVIOUS
<1>2. /\ a \in Nat /\ b \in Nat /\ DOMAIN w = 1..a /\ DOMAIN t = 1..b /\ DOMAIN u = 1..(a + b)
      /\ \A i \in 1..(a + b) : u[i] = IF i <= a THEN w[i] ELSE t[i - a]
  BY <1>1
<1>3. ASSUME NEW i \in 1..(a + b)
      PROVE  (i \in 1..a /\ u[i] = w[i]) \/ (i - a \in 1..b /\ u[i] = t[i - a])
  BY <1>2
<1>4. (\A i \in 1..a : i \in 1..(a + b) /\ u[i] = w[i])
  BY <1>2
<1>5. ASSUME NEW i \in 1..b
      PROVE  a + i \in 1..(a + b) /\ u[a + i] = t[i]
  <2>1. a + i \in 1..(a + b) /\ ~(a + i <= a) /\ (a + i) - a = i
    BY <1>2
  <2> QED BY <1>2, <2>1
<1>6. Holds(u, x) => Holds(w, x) \/ Holds(t, x)
  BY <1>2, <1>3 DEF Holds
<1>7. Holds(w, x) \/ Holds(t, x) => Holds(u, x)
  BY <1>2, <1>4, <1>5 DEF Holds
<1> QED BY <1>1, <1>6, <1>7

\* The exit of the module comes to the deactivation that it contains.
LEMMA OffExpands ==
  ASSUME LifeInv, Works, Head(ToDo) = "off", Hurried \subseteq Sleepers
  PROVE  /\ Pending /\ ~Pending' /\ hooks' \subseteq hooks /\ activated' = activated
         /\ \E t \in Seq(Steps) :
              /\ ToDo' = (IF activated THEN Row.off ELSE <<>>) \o t
              /\ t = <<"clear">> \o Tail(ToDo)
              /\ \A x : Holds(t, x) => x = "clear" \/ Holds(ToDo, x)
              /\ \A x : Holds(ToDo, x) => x = "off" \/ Holds(t, x)
              /\ ~Holds(t, "off")
         /\ \A x : Holds(ToDo', x) => x = "clear" \/ Holds(Row.off, x) \/ Holds(ToDo, x)
         /\ Ends(mon, Row.off, RowKinds(mon)) /\ Row.off \in Seq(Steps)
<1> USE DEF LifeInv, TypeInv
<1>1. Pending /\ hooks' \subseteq hooks /\ ToDo \in Seq(Steps) /\ ToDo # <<>> /\ phase' = phase
  BY WorkStep DEF Pending
<1>2. Exits(mon, ToDo)
  BY <1>1 DEF KindInv
<1>3. /\ Tail(ToDo) \in Seq(Steps) /\ \A x \in UpToOff : ~Holds(Tail(ToDo), x)
      /\ \A i \in DOMAIN Tail(ToDo) : Tail(ToDo)[i] \in {ToDo[j] : j \in DOMAIN ToDo}
      /\ \A x : Holds(ToDo, x) => x = "off" \/ Holds(Tail(ToDo), x)
  BY <1>1, <1>2, ExitOrder DEF Pending
<1>4. Ends(mon, Row.off, RowKinds(mon)) /\ Row.off \in Seq(Steps)
  BY RowIsOK DEF RowOK, Row
<1>5. PICK r : r = Tail(ToDo)
  OBVIOUS
<1>6. PICK t : t = <<"clear">> \o r
  OBVIOUS
<1>7. /\ t \in Seq(Steps) /\ 1 \in DOMAIN t /\ t[1] = "clear"
      /\ \A i \in DOMAIN t : i = 1 \/ (i - 1 \in DOMAIN r /\ t[i] = r[i - 1])
      /\ \A i \in DOMAIN r : i + 1 \in DOMAIN t /\ t[i + 1] = r[i]
  <2>1. "clear" \in Steps
    BY DEF Steps
  <2> QED BY <1>3, <1>5, <1>6, <2>1
<1>8. /\ \A x : Holds(t, x) => x = "clear" \/ Holds(r, x)
      /\ \A x : Holds(r, x) => Holds(t, x)
  BY <1>7 DEF Holds
<1>9. \A x : Holds(r, x) => Holds(ToDo, x)
  BY <1>3, <1>5 DEF Holds
<1>10. PICK w : w = IF activated THEN Row.off ELSE <<>>
  OBVIOUS
<1>11. ToDo' = w \o t /\ activated' = activated
  <2>1. ToDo' = (w \o <<"clear">>) \o r
    BY <1>5, <1>10 DEF Works
  <2>2. w \in Seq(Steps) /\ r \in Seq(Steps) /\ <<"clear">> \in Seq(Steps)
    BY <1>3, <1>4, <1>5, <1>10 DEF Steps
  <2>3. (w \o <<"clear">>) \o r = w \o (<<"clear">> \o r)
    BY <2>2
  <2> QED BY <1>6, <2>1, <2>3 DEF Works
<1>12. ASSUME NEW x, Holds(w \o t, x) PROVE Holds(w, x) \/ Holds(t, x)
  <2>1. w \in Seq(Steps)
    BY <1>4, <1>10
  <2> QED BY <1>7, <1>12, <2>1, HoldsConcat
<1>13. \A x : Holds(w, x) => Holds(Row.off, x)
  BY <1>10 DEF Holds
<1>14. ~Holds(Row.off, "off")
  BY <1>4 DEF Ends, Holds
<1>15. ~Holds(ToDo', "off") /\ ~Holds(t, "off")
  BY <1>3, <1>5, <1>8, <1>11, <1>12, <1>13, <1>14 DEF UpToOff
<1>16. ~Pending'
  BY <1>15 DEF Pending, Holds
<1>17. \A x : Holds(ToDo', x) => x = "clear" \/ Holds(Row.off, x) \/ Holds(ToDo, x)
  BY <1>8, <1>9, <1>11, <1>12, <1>13
<1> QED BY <1>1, <1>3, <1>4, <1>5, <1>6, <1>7, <1>8, <1>9, <1>10, <1>11, <1>15, <1>16, <1>17


\* A handler may only enter as what is callable, and the rest stays as it is.
LEMMA FlowKinds ==
  ASSUME TypeInv, NEW f \in Flows, Flowing(f)
  PROVE  /\ UNCHANGED <<monVars, reqVars>> /\ ToDo' = ToDo
         /\ gp'["ctl"] \in {gp["ctl"], gp["ctl"] \ {f}}
         /\ \A g \in Flows : pc'[g] # "out" =>
              (pc[g] # "out" /\ kind'[g] = kind[g]) \/ (g = f /\ kind'[g] \in Callable)
         /\ \A g \in Flows : g # f => pc'[g] = pc[g] /\ kind'[g] = kind[g]
         /\ pc'[f] \in Atomic => gp' = gp
<1> USE DEF TypeInv
<1>1. UNCHANGED <<monVars, reqVars>> /\ ToDo' = ToDo
  BY Flow DEF Moves, reqVars, ToDo
<1>2. gp'["ctl"] \in {gp["ctl"], gp["ctl"] \ {f}} /\ (pc'[f] \in Atomic => gp' = gp)
  BY Flow DEF Moves
<1>3. /\ \A g \in Flows : pc'[g] # "out" =>
           (pc[g] # "out" /\ kind'[g] = kind[g]) \/ (g = f /\ kind'[g] \in Callable)
      /\ \A g \in Flows : g # f => pc'[g] = pc[g] /\ kind'[g] = kind[g]
  BY Flow DEF Moves
<1> QED BY <1>1, <1>2, <1>3

\* No step brings a handler into a monitor that is quiet.
LEMMA KindNext ==
  ASSUME LifeInv, [Next]_vars, OneOperator, Hurried \subseteq Sleepers
  PROVE  KindInv'
<1> USE DEF LifeInv, TypeInv
<1>0. RowOK(mon)
  BY RowIsOK
<1>1. CASE \E f \in Flows : Flowing(f)
  <2>1. PICK f \in Flows : Flowing(f)
    BY <1>1
  <2>2. UNCHANGED <<mon, style, activated, hooks, phase, todo>>
    BY <2>1, FlowKinds DEF monVars, reqVars
  <2>3. /\ Callable \subseteq hooks \cup Timed /\ Callable \subseteq Runnable
        /\ hooks \cap Timed = {}
    BY CallableKinds
  <2>4. \A g \in Flows : pc'[g] # "out" =>
           (pc[g] # "out" /\ kind'[g] = kind[g]) \/ kind'[g] \in Callable
    BY <2>1, FlowKinds
  <2>5. Quiet => Quiet'
    BY <2>2, <2>3, <2>4 DEF Quiet, Asked, Timed, Lasting
  <2>6. UNCHANGED <<Hooked, Runnable, Row, ToDo, Pending, Idle>>
    BY <2>2 DEF Hooked, Runnable, Row, ToDo, Pending, Idle
  <2> QED BY <2>2, <2>3, <2>4, <2>5, <2>6 DEF KindInv
<1>2. CASE Works
  <2>1. /\ ToDo # <<>> /\ ToDo \in Seq(Steps) /\ UNCHANGED <<pc, kind, mon, style, phase>>
        /\ phase \in {"on", "off", "exit"} /\ Holds(ToDo, Head(ToDo))
        /\ phase # "on" => hooks' \subseteq hooks
    BY <1>2, WorkStep DEF flowVars
  <2>2. UNCHANGED <<Hooked, Runnable, Row>>
    BY <2>1 DEF Hooked, Runnable, Row
  <2>3. \A f \in Flows : pc'[f] # "out" => kind'[f] \in Runnable'
    BY <2>1, <2>2 DEF KindInv
  <2>4. CASE Head(ToDo) # "off"
    <3>1. ToDo' = Tail(ToDo) \/ ToDo' = <<"wait">> \o Tail(ToDo)
      BY <1>2, <2>4, WorkStep
    <3>2. /\ ToDo' \in Seq(Steps)
          /\ \A x : ~Holds(ToDo, x) /\ x # "wait" => ~Holds(ToDo', x)
          /\ Disposed(ToDo) => Disposed(ToDo')
          /\ (\A i \in DOMAIN ToDo : ToDo[i] = "forget" => i = 1) => ~Holds(ToDo', "forget")
          /\ Exits(mon, ToDo) => Exits(mon, ToDo')
      BY <2>1, <2>4, <3>1, Rest, RestInOrder
    <3>3. CASE phase = "on"
      <4>1. /\ Disposed(ToDo) /\ ~Holds(ToDo, "off") /\ ~Holds(ToDo, "free")
            /\ ~Holds(ToDo, "destroy")
            /\ (Holds(ToDo, "start") => "own" \in Row.hooks)
            /\ \A i \in DOMAIN ToDo : ToDo[i] = "forget" => i = 1
        BY <3>3 DEF KindInv, Begins, Holds
      <4>2. /\ Disposed(ToDo') /\ ~Holds(ToDo', "off") /\ ~Holds(ToDo', "free")
            /\ ~Holds(ToDo', "destroy") /\ (Holds(ToDo', "start") => "own" \in Row.hooks)
            /\ ~Holds(ToDo', "forget")
        BY <3>2, <4>1
      <4>3. Begins(ToDo', Row.hooks)
        BY <3>2, <4>2 DEF Begins, Holds
      <4>4. hooks' \subseteq Hooked \ Timed
        <5>1. Head(ToDo) = "start" => "own" \in Row.hooks
          BY <2>1, <4>1
        <5> QED BY <1>2, <5>1 DEF Works, KindInv, Hooked, Timed, Lasting
      <4> QED BY <2>1, <2>2, <2>3, <3>3, <4>3, <4>4 DEF KindInv, Idle, Pending
    <3>4. CASE phase = "off"
      <4>1. ~Holds(ToDo', "hook") /\ ~Holds(ToDo', "start") /\ ~Holds(ToDo', "off")
        BY <3>2, <3>4 DEF KindInv
      <4>2. hooks' \subseteq Hooked \ Timed
        BY <2>1, <3>4 DEF KindInv
      <4> QED BY <2>1, <2>2, <2>3, <3>4, <4>1, <4>2 DEF KindInv, Idle, Pending
    <3>5. CASE phase = "exit"
      <4>1. ~Holds(ToDo', "hook") /\ ~Holds(ToDo', "start") /\ (Pending' => Pending)
        BY <2>1, <3>2, <3>5 DEF KindInv, Pending
      <4>2. hooks' \subseteq Hooked \ Timed
        BY <2>1, <3>5 DEF KindInv
      <4>3. Pending => activated' = activated /\ Exits(mon, ToDo')
        <5>1. ASSUME Pending PROVE Head(ToDo) \in BeforeOff(mon) /\ Exits(mon, ToDo)
          BY <2>1, <2>4, <5>1, ExitOrder DEF KindInv, Pending
        <5> QED BY <1>2, <3>2, <5>1, activated \in BOOLEAN DEF Works, BeforeOff
      <4>4. Pending' /\ ~activated' => Quiet'
        <5>1. Pending' /\ ~activated' => Quiet
          BY <4>1, <4>3 DEF KindInv
        <5> QED BY <2>1, <3>5, <5>1 DEF Quiet
      <4> QED BY <2>1, <2>2, <2>3, <3>5, <4>1, <4>2, <4>3, <4>4 DEF KindInv, Idle
    <3> QED BY <2>1, <3>3, <3>4, <3>5
  <2>5. CASE Head(ToDo) = "off"
    <3>1. /\ Pending /\ ~Pending' /\ hooks' \subseteq hooks
          /\ \A x : Holds(ToDo', x) => x = "clear" \/ Holds(Row.off, x) \/ Holds(ToDo, x)
          /\ Ends(mon, Row.off, RowKinds(mon))
      BY <1>2, <2>5, OffExpands
    <3>2. ~Holds(Row.off, "hook") /\ ~Holds(Row.off, "start")
      BY <3>1 DEF Ends, Holds
    <3>3. ~Holds(ToDo', "hook") /\ ~Holds(ToDo', "start")
      BY <3>1, <3>2 DEF KindInv, Pending
    <3>4. phase = "exit"
      BY <3>1 DEF Pending
    <3> QED BY <2>1, <2>2, <2>3, <3>1, <3>3, <3>4 DEF KindInv, Idle
  <2> QED BY <2>4, <2>5
<1>3. CASE Done
  <2>1. ToDo = <<>> /\ UNCHANGED <<mon, style, hooks, pc, kind, ToDo>>
        /\ phase \in {"on", "off", "exit"}
    BY <1>3 DEF Done, flowVars, ToDo
  <2>2. UNCHANGED <<Hooked, Runnable, Row, Quiet>>
    BY <2>1 DEF Hooked, Runnable, Row, Quiet
  <2>3. phase = "off" \/ (phase = "exit" /\ mon \notin NeverExits) => Quiet
    <3>1. ~Pending
      BY <2>1 DEF Pending, Holds
    <3>2. ASSUME phase = "off" \/ (phase = "exit" /\ mon \notin NeverExits) PROVE Quiet
      BY <2>1, <3>1, <3>2, DoneQuiet DEF Ending
    <3> QED BY <3>2
  <2>4. /\ phase = "exit" => phase' = "gone"
        /\ phase # "exit" => phase' = "idle" /\ (activated' <=> phase = "on")
    BY <1>3 DEF Done
  <2> QED BY <2>1, <2>2, <2>3, <2>4 DEF KindInv, Idle, Pending
<1>4. CASE Activate
  <2>1. ToDo' = Row.on /\ UNCHANGED <<pc, kind, mon, style, hooks>> /\ phase' = "on"
    BY <1>4 DEF Activate, Begin, ToDo, flowVars
  <2>2. UNCHANGED <<Hooked, Runnable, Row>>
    BY <2>1 DEF Hooked, Runnable, Row
  <2>3. Begins(ToDo', Row.hooks)
    BY <1>0, <2>1 DEF RowOK, Row
  <2> QED BY <2>1, <2>2, <2>3 DEF KindInv, Idle, Pending
<1>5. CASE Deactivate
  <2>1. ToDo' = Row.off /\ UNCHANGED <<pc, kind, mon, style, hooks>> /\ phase' = "off"
    BY <1>5 DEF Deactivate, Begin, ToDo, flowVars, monVars
  <2>2. UNCHANGED <<Hooked, Runnable, Row>>
    BY <2>1 DEF Hooked, Runnable, Row
  <2>3. ~Holds(ToDo', "hook") /\ ~Holds(ToDo', "start") /\ ~Holds(ToDo', "off")
    BY <1>0, <2>1 DEF RowOK, Row, Ends, Holds
  <2> QED BY <2>1, <2>2, <2>3 DEF KindInv, Idle, Pending
<1>6. CASE Exit
  <2>1. /\ ToDo' = ExitSteps(mon) /\ UNCHANGED <<pc, kind, mon, style, activated, hooks>>
        /\ phase' = "exit" /\ Idle
    BY <1>6 DEF Exit, Begin, ToDo, flowVars, monVars, ExitSteps, Row
  <2>2. UNCHANGED <<Hooked, Runnable, Row, Quiet>>
    BY <2>1 DEF Hooked, Runnable, Row, Quiet
  <2>3. Exits(mon, ToDo') /\ ~Holds(ToDo', "hook") /\ ~Holds(ToDo', "start")
    BY <1>0, <2>1 DEF RowOK, Exits, Holds
  <2> QED BY <2>1, <2>2, <2>3 DEF KindInv, Idle, Pending
<1>7. CASE SetTest
  <2>1. UNCHANGED <<pc, kind, mon, style, activated, hooks, phase, todo>>
    BY <1>7 DEF SetTest, flowVars, monVars
  <2>2. UNCHANGED <<Hooked, Runnable, Row, Quiet, ToDo, Pending, Idle>>
    BY <2>1 DEF Hooked, Runnable, Row, Quiet, ToDo, Pending, Idle
  <2> QED BY <2>1, <2>2 DEF KindInv
<1>8. CASE SetAssign
  <2>1. phase = "idle" /\ ~activated /\ ~activated'
        /\ UNCHANGED <<pc, kind, mon, hooks, phase, todo>>
    BY <1>8 DEF SetAssign, ReqInv, flowVars
  <2>2. Quiet /\ Quiet'
    BY <2>1 DEF KindInv, Idle, Quiet
  <2>3. Row' = Row /\ Row.styled \cap Asked = {}
    BY <1>0, <2>1 DEF Row, RowOK
  <2>4. hooks' \subseteq Hooked' \ Timed
    BY <2>1, <2>2, <2>3 DEF KindInv, Quiet, Hooked
  <2>5. \A f \in Flows : pc'[f] # "out" => kind'[f] \in Runnable'
    BY <2>1, <2>2, <2>3 DEF Quiet, KindInv, Runnable, Hooked, Lasting, Asked, Timed
  <2> QED BY <2>1, <2>2, <2>4, <2>5 DEF KindInv, Pending
<1>9. CASE Still
  <2>1. /\ UNCHANGED <<pc, kind, mon, style, activated, phase, ToDo>>
        /\ hooks' # hooks => /\ "asked" \in Row.hooks
                            /\ hooks' \in {hooks \cup {"asked"}, hooks \ {"asked"}}
    BY <1>9 DEF Still, Stays, flowVars
  <2>2. UNCHANGED <<Hooked, Runnable, Row, Pending, Idle>> /\ (Quiet => Quiet')
    BY <2>1 DEF Hooked, Runnable, Row, Quiet, Pending, Idle, Asked
  <2>3. hooks' \subseteq Hooked \ Timed
    BY <2>1 DEF KindInv, Hooked, Timed
  <2> QED BY <2>1, <2>2, <2>3 DEF KindInv
<1> QED BY <1>1, <1>2, <1>3, <1>4, <1>5, <1>6, <1>7, <1>8, <1>9, AllSteps

\* A command runs only as long as the exit of the module has to wait for it.
LEMMA AskNext ==
  ASSUME LifeInv, [Next]_vars, OneOperator, Hurried \subseteq Sleepers
  PROVE  AskInv'
<1> USE DEF LifeInv, TypeInv
<1>0. RowOK(mon)
  BY RowIsOK
<1>1. CASE \E f \in Flows : Flowing(f)
  <2>1. PICK f \in Flows : Flowing(f)
    BY <1>1
  <2>2. UNCHANGED <<mon, hooks, phase, ToDo, Pending>>
    BY <2>1, FlowKinds DEF monVars, reqVars, Pending
  <2>3. ASSUME NEW g \in Flows, pc'[g] # "out", kind'[g] \in Asked
        PROVE  \/ pc[g] # "out" /\ kind'[g] = kind[g] /\ (Kept(g) => Kept(g)')
               \/ kind'[g] \in hooks \cap Asked
    <3>1. (pc[g] # "out" /\ kind'[g] = kind[g]) \/ kind'[g] \in Callable
      BY <2>1, <2>3, FlowKinds
    <3>2. kind'[g] \in Callable => kind'[g] \in hooks
      BY <2>3, CallableKinds DEF Asked, Timed
    <3>3. gp'["ctl"] = gp["ctl"] \/ g # f
      <4>1. CASE g = f
        <5>1. kind'[f] # "counted" /\ pc'[f] # "asleep"
          BY <2>3, <4>1, <1>1, TypeNext DEF Asked
        <5>2. pc'[f] \in Atomic
          BY <2>3, <4>1, <5>1, TypeNext
        <5> QED BY <2>1, <5>2, FlowKinds
      <4> QED BY <4>1
    <3>4. Kept(g) => Kept(g)'
      BY <2>1, <2>2, <3>3, FlowKinds DEF Kept
    <3> QED BY <2>3, <3>1, <3>2, <3>4
  <2>4. ASSUME Pending, NEW g \in Flows, pc'[g] # "out", kind'[g] \in Asked
        PROVE  Holds(ToDo, Ender(kind'[g])) \/ Kept(g)'
    BY <2>3, <2>4 DEF AskInv
  <2>5. ASSUME phase \in {"exit", "gone"}, ~Pending, mon \notin NeverExits, NEW g \in Flows
        PROVE  pc'[g] = "out" \/ kind'[g] \notin Asked
    BY <2>3, <2>5 DEF AskInv
  <2>6. phase \in {"exit", "gone"} /\ ~Pending /\ mon \notin NeverExits => hooks \cap Asked = {}
    BY DEF AskInv
  <2>7. Pending => \A k \in hooks \cap Asked : Holds(ToDo, Ender(k))
    BY DEF AskInv
  <2> QED BY <2>2, <2>4, <2>5, <2>6, <2>7 DEF AskInv
<1>2. CASE Works
  <2>1. /\ ToDo # <<>> /\ ToDo \in Seq(Steps) /\ UNCHANGED <<mon, pc, kind, phase>>
        /\ phase # "on" => hooks' \subseteq hooks
        /\ \A f \in Flows : ~Kept(f)
    BY <1>2, WorkStep DEF flowVars
  <2>2. CASE Pending /\ Head(ToDo) = "off"
    <3>1. ~Pending' /\ phase = "exit" /\ Exits(mon, ToDo)
      BY <1>2, <2>2, OffExpands DEF Pending, KindInv
    <3>2. \A k \in Asked : ~Holds(ToDo, Ender(k))
      <4>1. \A x \in UpToOff : ~Holds(Tail(ToDo), x)
        BY <2>1, <2>2, <3>1, ExitOrder DEF Pending
      <4>2. \A x : Holds(ToDo, x) => Head(ToDo) = x \/ Holds(Tail(ToDo), x)
        BY <2>1, <2>2, <3>1, ExitOrder DEF Pending
      <4> QED BY <2>2, <4>1, <4>2 DEF UpToOff, Ender
    <3>3. hooks \cap Asked = {} /\ \A f \in Flows : pc[f] = "out" \/ kind[f] \notin Asked
      BY <2>1, <2>2, <3>2 DEF AskInv
    <3> QED BY <2>1, <3>1, <3>3 DEF AskInv
  <2>3. CASE Pending /\ Head(ToDo) # "off"
    <3>1. ToDo' = Tail(ToDo) \/ ToDo' = <<"wait">> \o Tail(ToDo)
      BY <1>2, <2>3, WorkStep
    <3>2. \A x : Holds(ToDo, x) => Head(ToDo) = x \/ Holds(ToDo', x)
      BY <2>1, <3>1, Rest
    <3>3. Pending' /\ phase = "exit"
      BY <2>1, <2>3, <3>2 DEF Pending
    <3>4. ASSUME NEW k \in hooks' \cap Asked PROVE Holds(ToDo', Ender(k))
      <4>1. Holds(ToDo, Ender(k))
        BY <2>1, <2>3, <3>3, <3>4 DEF AskInv
      <4>2. Head(ToDo) # Ender(k)
        BY <1>2, <3>4 DEF Works, Ender, Asked
      <4> QED BY <3>2, <4>1, <4>2
    <3>5. ASSUME NEW f \in Flows, pc[f] # "out", kind[f] \in Asked
          PROVE  Holds(ToDo', Ender(kind[f])) \/ Kept(f)'
      <4>1. Holds(ToDo, Ender(kind[f]))
        BY <2>1, <2>3, <3>5 DEF AskInv
      <4>2. CASE Head(ToDo) = Ender(kind[f])
        <5>1. ToDo' = <<"wait">> \o Tail(ToDo)
          BY <1>2, <2>3, <4>2, WorkStep DEF Ender
        <5>2. ToDo' # <<>> /\ Head(ToDo') = "wait"
          <6>1. Tail(ToDo) \in Seq(Steps)
            BY <2>1
          <6> QED BY <5>1, <6>1
        <5>3. pc[f] \in Atomic
          BY <3>5 DEF Asked
        <5>4. f \in gp'["ctl"]
          <6>1. CASE kind[f] = "asked"
            <7>1. gp'["ctl"] = InAtomic({"guarded", "asked"})
              BY <1>2, <4>2, <6>1 DEF Works, Ender
            <7> QED BY <5>3, <6>1, <7>1 DEF InAtomic
          <6>2. CASE kind[f] = "command"
            <7>1. gp'["ctl"] = InAtomic({"command"})
              BY <1>2, <4>2, <6>2 DEF Works, Ender
            <7> QED BY <5>3, <6>2, <7>1 DEF InAtomic
          <6> QED BY <3>5, <6>1, <6>2 DEF Asked
        <5> QED BY <5>2, <5>4 DEF Kept
      <4> QED BY <3>2, <4>1, <4>2
    <3> QED BY <2>1, <3>3, <3>4, <3>5 DEF AskInv
  <2>4. CASE ~Pending /\ phase = "exit"
    <3>1. Head(ToDo) # "off"
      BY <1>2, <2>4, WorkStep
    <3>2. ToDo' = Tail(ToDo) \/ ToDo' = <<"wait">> \o Tail(ToDo)
      BY <1>2, <3>1, WorkStep
    <3>3. ~Pending'
      BY <2>1, <2>4, <3>2, Rest DEF Pending
    <3> QED BY <2>1, <2>4, <3>3 DEF AskInv
  <2>5. CASE phase # "exit"
    <3>1. phase \in {"on", "off"}
      BY <1>2, <2>5, WorkStep
    <3> QED BY <2>1, <3>1 DEF AskInv, Pending
  <2> QED BY <2>2, <2>3, <2>4, <2>5
<1>3. CASE Done
  <2>1. ToDo = <<>> /\ UNCHANGED <<mon, hooks, pc, kind, ToDo>>
        /\ phase \in {"on", "off", "exit"} /\ phase' \in {"idle", "gone"}
        /\ (phase' = "gone" => phase = "exit")
    BY <1>3 DEF Done, flowVars, ToDo
  <2>2. ~Pending /\ ~Pending'
    BY <2>1 DEF Pending, Holds
  <2> QED BY <2>1, <2>2 DEF AskInv
<1>4. CASE Activate \/ Deactivate
  <2>1. phase' \in {"on", "off"}
    BY <1>4 DEF Activate, Deactivate
  <2> QED BY <2>1 DEF AskInv, Pending
<1>5. CASE Exit
  <2>1. /\ ToDo' = ExitSteps(mon) /\ phase' = "exit" /\ UNCHANGED <<mon, style, hooks, pc, kind>>
    BY <1>5 DEF Exit, Begin, ToDo, flowVars, monVars, ExitSteps, Row
  <2>2. mon \notin NeverExits => Pending'
    BY <1>0, <2>1 DEF RowOK, Exits, Pending
  <2>3. /\ hooks \subseteq RowKinds(mon)
        /\ \A f \in Flows : pc[f] # "out" => kind[f] \in RowKinds(mon)
    BY DEF KindInv, Runnable, Hooked, RowKinds, Row
  <2>4. \A k \in RowKinds(mon) \cap Asked : Holds(ToDo', Ender(k))
    BY <1>0, <2>1 DEF RowOK
  <2> QED BY <2>1, <2>2, <2>3, <2>4 DEF AskInv
<1>6. CASE SetTest \/ SetAssign
  <2>1. phase = "idle" /\ phase' = phase
    BY <1>6 DEF SetTest, SetAssign, ReqInv, Idle
  <2> QED BY <2>1 DEF AskInv, Pending
<1>7. CASE Still
  <2>1. /\ UNCHANGED <<mon, phase, ToDo, Pending, pc, kind>> /\ gp'["ctl"] = gp["ctl"]
        /\ phase \in {"exit", "gone"} => hooks' = hooks
    BY <1>7 DEF Still, Stays, flowVars, Pending
  <2>2. \A f \in Flows : Kept(f)' = Kept(f)
    BY <2>1 DEF Kept
  <2> QED BY <2>1, <2>2 DEF AskInv, Pending
<1> QED BY <1>1, <1>2, <1>3, <1>4, <1>5, <1>6, <1>7, AllSteps

\* The timers run a handler only when they are started.
LEMMA TimerNext ==
  ASSUME LifeInv, [Next]_vars, OneOperator
  PROVE  TimerInv'
<1> USE DEF LifeInv, TypeInv
<1>1. CASE \E f \in Flows : Flowing(f)
  <2>1. PICK f \in Flows : Flowing(f)
    BY <1>1
  <2>2. UNCHANGED <<timers, phase, ToDo>>
    BY <2>1, FlowKinds DEF monVars, reqVars
  <2>3. ASSUME ~timers, NEW g \in Flows, pc'[g] # "out", kind'[g] \in Timed
        PROVE  Kept(g)'
    <3>1. Callable \cap Timed = {}
      BY <2>3, CallableKinds
    <3>2. pc[g] # "out" /\ kind'[g] = kind[g]
      BY <2>1, <2>3, <3>1, FlowKinds
    <3>3. Kept(g)
      BY <2>3, <3>2 DEF TimerInv
    <3>4. gp'["ctl"] = gp["ctl"] \/ g # f
      <4>1. CASE g = f
        <5>1. pc'[f] \in Atomic
          <6>1. kind'[f] # "counted" /\ pc'[f] # "asleep"
            BY <2>3, <4>1, <2>1, <1>1, TypeNext DEF Timed
          <6> QED BY <2>1, <2>3, <4>1, <6>1, TypeNext
        <5> QED BY <2>1, <5>1, FlowKinds
      <4> QED BY <4>1
    <3> QED BY <2>1, <2>2, <3>3, <3>4, FlowKinds DEF Kept
  <2> QED BY <2>2, <2>3 DEF TimerInv
<1>2. CASE Works
  <2>1. /\ ToDo # <<>> /\ UNCHANGED <<pc, kind, phase>>
        /\ (timers' <=> timers /\ Head(ToDo) # "cancel")
        /\ \A f \in Flows : ~Kept(f)
    BY <1>2, WorkStep DEF Works, flowVars
  <2>2. CASE Head(ToDo) = "cancel"
    <3>1. ToDo' = <<"wait">> \o Tail(ToDo) /\ gp'["ctl"] = InAtomic(Timed) /\ ~timers'
      BY <1>2, <2>1, <2>2, WorkStep DEF Works
    <3>2. ToDo' # <<>> /\ Head(ToDo') = "wait"
      <4>1. Tail(ToDo) \in Seq(Steps)
        BY <2>1
      <4> QED BY <3>1, <4>1
    <3>3. ASSUME NEW f \in Flows, pc[f] # "out", kind[f] \in Timed PROVE f \in InAtomic(Timed)
      BY <3>3 DEF InAtomic, Timed
    <3> QED BY <2>1, <3>1, <3>2, <3>3 DEF TimerInv, Kept
  <2>3. CASE Head(ToDo) # "cancel"
    <3>1. ~timers => \A f \in Flows : pc[f] = "out" \/ kind[f] \notin Timed
      BY <2>1 DEF TimerInv
    <3> QED BY <2>1, <2>3, <3>1 DEF TimerInv
  <2> QED BY <2>2, <2>3
<1>3. CASE Done
  <2>1. /\ ToDo = <<>> /\ UNCHANGED <<timers, pc, kind, ToDo>> /\ phase \in {"on", "off", "exit"}
        /\ (phase = "exit" => phase' = "gone") /\ (phase # "exit" => phase' = "idle")
    BY <1>3 DEF Done, ToDo, flowVars
  <2> QED BY <2>1 DEF TimerInv, Kept
<1>4. CASE Activate \/ Deactivate
  <2>1. /\ phase = "idle" /\ phase' \notin {"exit", "gone"} /\ ToDo = <<>>
        /\ UNCHANGED <<timers, pc, kind>>
    BY <1>4 DEF Activate, Deactivate, Idle, monVars, flowVars, ReqInv
  <2>2. ~timers => \A f \in Flows : pc[f] = "out" \/ kind[f] \notin Timed
    BY <2>1 DEF TimerInv, Kept
  <2> QED BY <2>1, <2>2 DEF TimerInv
<1>5. CASE Exit
  <2>1. /\ phase = "idle" /\ phase' = "exit" /\ UNCHANGED <<timers, pc, kind>>
        /\ ToDo' = ExitSteps(mon) /\ ToDo = <<>>
    BY <1>5 DEF Exit, Idle, monVars, flowVars, Begin, ToDo, ExitSteps, Row, ReqInv
  <2>2. ToDo' # <<>> /\ Head(ToDo') = "cancel"
    BY <2>1, RowIsOK DEF RowOK, Cancels
  <2>3. ~timers => \A f \in Flows : pc[f] = "out" \/ kind[f] \notin Timed
    BY <2>1 DEF TimerInv, Kept
  <2> QED BY <2>1, <2>2, <2>3 DEF TimerInv
<1>6. CASE SetTest \/ SetAssign
  <2>1. UNCHANGED <<timers, phase, ToDo, pc, kind, gp>>
    BY <1>6 DEF SetTest, SetAssign, flowVars, monVars, ToDo
  <2> QED BY <2>1 DEF TimerInv, Kept
<1>7. CASE Still
  <2>1. UNCHANGED <<timers, phase, ToDo, pc, kind>> /\ gp'["ctl"] = gp["ctl"]
    BY <1>7 DEF Still, Stays, flowVars
  <2> QED BY <2>1 DEF TimerInv, Kept
<1> QED BY <1>1, <1>2, <1>3, <1>4, <1>5, <1>6, <1>7, AllSteps

\* A deactivation that is under way goes on, and an exit of the module comes to it
\* with one particular step.
LEMMA WorkEnding ==
  ASSUME LifeInv, Works
  PROVE  /\ Ending => Head(ToDo) # "off" /\ (ToDo' = Tail(ToDo) \/ ToDo' = <<"wait">> \o Tail(ToDo))
         /\ ~Ending /\ Ending' => Head(ToDo) = "off"
<1> USE DEF LifeInv, TypeInv
<1>1. ToDo # <<>> /\ ToDo \in Seq(Steps) /\ UNCHANGED <<mon, phase>>
  BY WorkStep
<1>2. ASSUME Ending PROVE Head(ToDo) # "off"
  BY <1>2, WorkStep DEF Ending, Pending
<1>3. ASSUME Head(ToDo) # "off" PROVE ToDo' = Tail(ToDo) \/ ToDo' = <<"wait">> \o Tail(ToDo)
  BY <1>3, WorkStep
<1>4. ASSUME ~Ending, Ending' PROVE Head(ToDo) = "off"
  <2>1. SUFFICES ASSUME Head(ToDo) # "off" PROVE FALSE
    OBVIOUS
  <2>2. phase = "exit" /\ Holds(ToDo, "off") /\ ~Holds(ToDo', "off")
    BY <1>1, <1>4 DEF Ending, Pending
  <2>3. ToDo' = Tail(ToDo) \/ ToDo' = <<"wait">> \o Tail(ToDo)
    BY <1>3, <2>1
  <2> QED BY <1>1, <2>1, <2>2, <2>3, Rest
<1> QED BY <1>2, <1>3, <1>4

\* An exit of the module that has just begun has its deactivation before it.
LEMMA ExitPends ==
  ASSUME LifeInv, Exit
  PROVE  /\ ToDo' = ExitSteps(mon) /\ phase' = "exit" /\ Idle /\ ToDo = <<>> /\ ~Ending'
         /\ UNCHANGED <<flowVars, dataVars, monVars, spc, gp>> /\ todo["dump"] = <<>>
         /\ todo'["dump"] = todo["dump"]
<1> USE DEF LifeInv, TypeInv
<1>1. /\ ToDo' = ExitSteps(mon) /\ phase' = "exit" /\ Idle /\ ToDo = <<>> /\ mon' = mon
      /\ UNCHANGED <<flowVars, dataVars, monVars, spc, gp>> /\ todo["dump"] = <<>>
      /\ todo'["dump"] = todo["dump"]
  BY DEF Exit, Begin, ToDo, monVars, ExitSteps, Row, ReqInv, Idle
<1>2. mon \notin NeverExits => Holds(ToDo', "off")
  BY <1>1, RowIsOK DEF RowOK, Exits
<1> QED BY <1>1, <1>2 DEF Ending, Pending

\* What a deactivation that has just begun does before its first disposal, whether it
\* was asked for or is part of an exit of the module.
LEMMA JustBegun ==
  ASSUME LifeInv, Hurried \subseteq Sleepers,
         Deactivate \/ (Works /\ ~Ending /\ Ending'), NEW n \in Stops(mon, ToDo')
  PROVE  /\ UNCHANGED <<flowVars, mon>> /\ hooks' \subseteq hooks
         /\ \/ hooks \subseteq Asked /\ \A f \in Flows : pc[f] = "out" \/ kind[f] \in Lasting
            \/ /\ "probe" \in RowKinds(mon) \/ "reaper" \in RowKinds(mon)
                    => UnhooksWaits(mon, ToDo', n)
               /\ "counted" \in RowKinds(mon) => UnhooksDrains(mon, ToDo', n)
               /\ "guarded" \in RowKinds(mon) => Has(ToDo', n, "unprobe")
               /\ "own" \in RowKinds(mon) => Has(ToDo', n, "stop")
<1> USE DEF LifeInv, TypeInv
<1>1. Ends(mon, Row.off, RowKinds(mon)) /\ Row.off \in Seq(Steps)
  BY RowIsOK DEF RowOK, Row
<1>2. CASE Deactivate
  <2>1. ToDo' = Row.off /\ UNCHANGED <<flowVars, mon, hooks>>
    BY <1>2 DEF Deactivate, Begin, ToDo, monVars
  <2>2. <<>> \in Seq(Steps) /\ Row.off \o <<>> = Row.off
    BY <1>1
  <2>3. n \in Stops(mon, Row.off \o <<>>)
    BY <2>1, <2>2
  <2>4. /\ "probe" \in RowKinds(mon) \/ "reaper" \in RowKinds(mon)
             => UnhooksWaits(mon, Row.off \o <<>>, n)
        /\ "counted" \in RowKinds(mon) => UnhooksDrains(mon, Row.off \o <<>>, n)
        /\ "guarded" \in RowKinds(mon) => Has(Row.off \o <<>>, n, "unprobe")
        /\ "own" \in RowKinds(mon) => Has(Row.off \o <<>>, n, "stop")
    BY <1>1, <2>2, <2>3, Grown
  <2> QED BY <2>1, <2>2, <2>4
<1>3. CASE Works /\ ~Ending /\ Ending'
  <2>1. Head(ToDo) = "off"
    BY <1>3, WorkEnding
  <2>2. PICK t \in Seq(Steps) : ToDo' = (IF activated THEN Row.off ELSE <<>>) \o t
    BY <1>3, <2>1, OffExpands
  <2>3. Pending /\ hooks' \subseteq hooks /\ UNCHANGED <<flowVars, mon>>
    BY <1>3, <2>1, OffExpands, WorkStep
  <2>4. CASE activated
    <3>1. ToDo' = Row.off \o t
      BY <2>2, <2>4
    <3> QED BY <1>1, <2>3, <3>1, Grown
  <2>5. CASE ~activated
    BY <2>3, <2>5 DEF KindInv, Quiet
  <2> QED BY <2>4, <2>5
<1> QED BY <1>2, <1>3

\* What is hooked stays to be unhooked.
LEMMA HookNext ==
  ASSUME LifeInv, [Next]_vars, OneOperator, Hurried \subseteq Sleepers
  PROVE  HookInv'
<1> USE DEF LifeInv, TypeInv
<1>1. CASE \E f \in Flows : Flowing(f)
  <2>1. PICK f \in Flows : Flowing(f)
    BY <1>1
  <2>2. UNCHANGED <<mon, hooks, phase, ToDo>>
    BY <2>1, FlowKinds DEF monVars, reqVars
  <2> QED BY <2>2 DEF HookInv, Ending, Pending
<1>2. CASE Works /\ Ending
  <2>1. ToDo' = Tail(ToDo) \/ ToDo' = <<"wait">> \o Tail(ToDo)
    BY <1>2, WorkEnding
  <2>2. /\ ToDo # <<>> /\ ToDo \in Seq(Steps) /\ mon' = mon
        /\ hooks' \subseteq hooks /\ hooks \subseteq Hooked
    BY <1>2, WorkStep DEF KindInv, Ending
  <2>3. SUFFICES ASSUME NEW n \in Stops(mon, ToDo')
                 PROVE  /\ "probe" \in hooks' \/ "reaper" \in hooks' => UnhooksWaits(mon, ToDo', n)
                        /\ "counted" \in hooks' => UnhooksDrains(mon, ToDo', n)
                        /\ "guarded" \in hooks' => Has(ToDo', n, "unprobe")
                        /\ "own" \in hooks' => Has(ToDo', n, "stop")
    BY <2>2 DEF HookInv
  <2>4. PICK k \in Stops(mon, ToDo) :
          /\ \A x : Has(ToDo, k, x) => Head(ToDo) = x \/ Has(ToDo', n, x)
          /\ UnhooksWaits(mon, ToDo, k)
               => UnhooksWaits(mon, ToDo', n) \/ (Head(ToDo) = "unhook" /\ Waiting(mon, ToDo', n))
          /\ UnhooksDrains(mon, ToDo, k)
               => UnhooksDrains(mon, ToDo', n)
                  \/ (Head(ToDo) = "unhook" /\ WaitsDrains(mon, ToDo', n))
    BY <2>1, <2>2, Rest
  <2>5. /\ "probe" \in hooks \/ "reaper" \in hooks => UnhooksWaits(mon, ToDo, k)
        /\ "counted" \in hooks => UnhooksDrains(mon, ToDo, k)
        /\ "guarded" \in hooks => Has(ToDo, k, "unprobe")
        /\ "own" \in hooks => Has(ToDo, k, "stop")
    BY <1>2 DEF HookInv
  <2>6. /\ Head(ToDo) = "unhook" => hooks' \subseteq {"guarded", "own"} \cup Asked
        /\ Head(ToDo) = "unprobe" => "guarded" \notin hooks'
        /\ Head(ToDo) = "stop" => "own" \notin hooks'
    BY <1>2, <2>2 DEF Works
  <2> QED BY <2>2, <2>4, <2>5, <2>6 DEF Asked
<1>3. CASE (Deactivate \/ (Works /\ ~Ending)) /\ Ending'
  <2>1. UNCHANGED <<flowVars, mon>> /\ hooks \subseteq RowKinds(mon)
    BY <1>3, WorkStep DEF Deactivate, monVars, KindInv, Hooked, RowKinds, Row
  <2>2. SUFFICES ASSUME NEW n \in Stops(mon, ToDo')
                 PROVE  /\ "probe" \in hooks' \/ "reaper" \in hooks' => UnhooksWaits(mon, ToDo', n)
                        /\ "counted" \in hooks' => UnhooksDrains(mon, ToDo', n)
                        /\ "guarded" \in hooks' => Has(ToDo', n, "unprobe")
                        /\ "own" \in hooks' => Has(ToDo', n, "stop")
    BY <2>1 DEF HookInv
  <2> QED BY <1>3, <2>1, JustBegun DEF Asked
<1>4. CASE Done \/ Activate \/ SetTest \/ SetAssign
  BY <1>4 DEF Done, Activate, SetTest, SetAssign, HookInv, Ending, Idle, ReqInv
<1>5. CASE Exit
  BY <1>5, ExitPends DEF HookInv
<1>6. CASE Still
  <2>1. /\ UNCHANGED <<mon, phase, ToDo>>
        /\ hooks' \in {hooks, hooks \cup {"asked"}, hooks \ {"asked"}}
    BY <1>6 DEF Still, Stays
  <2> QED BY <2>1 DEF HookInv, Ending, Pending
<1> QED BY <1>1, <1>2, <1>3, <1>4, <1>5, <1>6, AllSteps DEF HookInv

\* Each handler stays awaited, by what is left to do before the next stop.
LEMMA FlowNext ==
  ASSUME LifeInv, [Next]_vars, OneOperator, Hurried \subseteq Sleepers
  PROVE  FlowInv'
<1> USE DEF LifeInv, TypeInv
<1>1. CASE \E f \in Flows : Flowing(f)
  <2>1. PICK f \in Flows : Flowing(f)
    BY <1>1
  <2>2. UNCHANGED <<mon, hooks, phase, ToDo>>
    BY <2>1, FlowKinds DEF monVars, reqVars
  <2>3. SUFFICES ASSUME Ending, NEW n \in Stops(mon, ToDo), NEW g \in Flows PROVE Awaited(g, n)'
    BY <2>2 DEF FlowInv, Ending, Pending
  <2>4. Awaited(g, n) /\ ToDo' = ToDo
    BY <2>2, <2>3 DEF FlowInv
  <2>5. gp'["ctl"] \in {gp["ctl"], gp["ctl"] \ {f}}
    BY <2>1, FlowKinds
  <2>6. CASE g # f
    <3>1. pc'[g] = pc[g] /\ kind'[g] = kind[g]
      BY <2>1, <2>6, FlowKinds
    <3>2. Kept(g)' = Kept(g) /\ (g \in CountedFlows)' = (g \in CountedFlows)
      BY <2>4, <2>5, <2>6, <3>1 DEF Kept, CountedFlows
    <3> QED BY <2>2, <2>4, <3>1, <3>2 DEF Awaited
  <2>7. CASE g = f /\ pc[f] = "out"
    <3>1. PICK k \in Callable : /\ kind' = [kind EXCEPT ![f] = k]
                               /\ Moves(f, IF k = "counted" THEN "entry" ELSE "work")
      BY <2>1, <2>7, Flow
    <3>2. kind'[f] = k /\ pc'[f] = IF k = "counted" THEN "entry" ELSE "work"
      BY <3>1 DEF Moves
    <3>3. k \in hooks \/ k \in Timed
      BY CallableKinds
    <3>4. /\ k \in {"probe", "reaper"} => Waiting(mon, ToDo, n)
          /\ k = "counted" => WaitsDrains(mon, ToDo, n)
          /\ k = "guarded" => Has(ToDo, n, "unprobe")
          /\ k = "own" => Has(ToDo, n, "stop")
      BY <2>3, <3>3, Weaker DEF HookInv, Timed
    <3>5. ~(g \in CountedFlows)'
      BY <2>7, <3>2 DEF CountedFlows
    <3> QED BY <2>2, <2>4, <2>7, <3>2, <3>4, <3>5 DEF Awaited
  <2>8. CASE g = f /\ pc[f] # "out"
    <3>1. pc'[f] = "out"
          \/ (kind'[f] = kind[f] /\ pc'[f] \in {"work", "held", "emit", "done", "asleep"})
      BY <2>1, <2>8, Flow DEF Moves
    <3>2. CASE pc'[f] = "out"
      BY <2>8, <3>2 DEF Awaited, Atomic, CountedFlows
    <3>3. CASE pc'[f] = "asleep"
      <4>1. pc[f] = "work" /\ kind[f] = "counted" /\ kind'[f] = kind[f]
        BY <2>1, <3>3, Flow DEF Moves
      <4>2. f \in CountedFlows
        BY <4>1 DEF CountedFlows
      <4> QED BY <2>2, <2>4, <2>8, <3>3, <4>2 DEF Awaited, Atomic
    <3>4. CASE kind'[f] = kind[f] /\ pc'[f] \in {"work", "held", "emit", "done"}
      <4>1. gp' = gp /\ Kept(f)' = Kept(f)
        BY <2>1, <2>4, <3>4, FlowKinds DEF Kept, Atomic
      <4>2. pc[f] \in Atomic \/ kind[f] = "counted"
        BY <2>8
      <4>3. (f \in CountedFlows)' => f \in CountedFlows \/ pc[f] = "entry"
        BY <2>8, <3>4 DEF CountedFlows, Atomic
      <4>4. (f \in CountedFlows)' => Has(ToDo, n, "drain")
        BY <2>4, <2>8, <4>3, Weaker DEF Awaited
      <4> QED BY <2>2, <2>4, <2>8, <3>4, <4>1, <4>2, <4>4 DEF Awaited
    <3> QED BY <3>1, <3>2, <3>3, <3>4
  <2> QED BY <2>6, <2>7, <2>8
<1>2. CASE Works /\ Ending
  <2>1. ToDo' = Tail(ToDo) \/ ToDo' = <<"wait">> \o Tail(ToDo)
    BY <1>2, WorkEnding
  <2>2. /\ ToDo # <<>> /\ ToDo \in Seq(Steps) /\ UNCHANGED <<mon, pc, kind>>
        /\ \A f \in Flows : ~Kept(f)
    BY <1>2, WorkStep DEF flowVars
  <2>3. SUFFICES ASSUME NEW f \in Flows, NEW n \in Stops(mon, ToDo') PROVE Awaited(f, n)'
    BY <2>2 DEF FlowInv
  <2>4. PICK k \in Stops(mon, ToDo) :
          /\ \A x : Has(ToDo, k, x) => Head(ToDo) = x \/ Has(ToDo', n, x)
          /\ Waiting(mon, ToDo, k) => Waits(mon, Head(ToDo)) \/ Waiting(mon, ToDo', n)
          /\ WaitsDrains(mon, ToDo, k)
               => WaitsDrains(mon, ToDo', n) \/ (Waits(mon, Head(ToDo)) /\ Has(ToDo', n, "drain"))
    <3>1. PICK s, u : s = ToDo /\ u = ToDo'
      OBVIOUS
    <3>2. s \in Seq(Steps) /\ s # <<>> /\ (u = Tail(s) \/ u = <<"wait">> \o Tail(s))
      BY <2>1, <2>2, <3>1
    <3>3. \A l \in Stops(mon, u) : \E k \in Stops(mon, s) :
            /\ \A x : Has(s, k, x) => Head(s) = x \/ Has(u, l, x)
            /\ Waiting(mon, s, k) => Waits(mon, Head(s)) \/ Waiting(mon, u, l)
            /\ WaitsDrains(mon, s, k)
                 => WaitsDrains(mon, u, l) \/ (Waits(mon, Head(s)) /\ Has(u, l, "drain"))
            /\ UnhooksWaits(mon, s, k)
                 => UnhooksWaits(mon, u, l) \/ (Head(s) = "unhook" /\ Waiting(mon, u, l))
            /\ UnhooksDrains(mon, s, k)
                 => UnhooksDrains(mon, u, l) \/ (Head(s) = "unhook" /\ WaitsDrains(mon, u, l))
      BY <3>2, Rest, Zenon
    <3>4. n \in Stops(mon, u)
      BY <3>1
    <3> QED BY <3>1, <3>3, <3>4, Zenon
  <2>5. Awaited(f, k) /\ ~Kept(f)
    BY <1>2, <2>2 DEF FlowInv
  <2>6. (f \in CountedFlows)' = (f \in CountedFlows)
    BY <2>2 DEF CountedFlows
  <2>7. ASSUME NEW ks, pc[f] \in Atomic, kind[f] \in ks, gp'["ctl"] = InAtomic(ks),
               Head(ToDo) \in {"unprobe", "stop"} \/ Waits(mon, Head(ToDo))
        PROVE  Kept(f)'
    <3>1. ToDo' = <<"wait">> \o Tail(ToDo)
      BY <1>2, <2>7, WorkStep DEF Waits
    <3>2. ToDo' # <<>> /\ Head(ToDo') = "wait"
      <4>1. Tail(ToDo) \in Seq(Steps)
        BY <2>2
      <4> QED BY <3>1, <4>1
    <3> QED BY <2>7, <3>2 DEF Kept, InAtomic
  <2>8. Waits(mon, Head(ToDo)) /\ pc[f] \in Atomic => Kept(f)'
    BY <1>2, <2>7 DEF Works
  <2>9. ASSUME pc[f] \in Atomic, kind[f] = "guarded"
        PROVE  Has(ToDo', n, "unprobe") \/ Kept(f)'
    <3>1. CASE Head(ToDo) = "unprobe"
      BY <1>2, <2>7, <2>9, <3>1 DEF Works
    <3> QED BY <2>4, <2>5, <2>9, <3>1 DEF Awaited
  <2>10. ASSUME pc[f] \in Atomic, kind[f] = "own"
        PROVE  Has(ToDo', n, "stop") \/ Kept(f)'
    <3>1. CASE Head(ToDo) = "stop"
      BY <1>2, <2>7, <2>10, <3>1 DEF Works
    <3> QED BY <2>4, <2>5, <2>10, <3>1 DEF Awaited
  <2>11. ASSUME f \in CountedFlows
         PROVE  Has(ToDo', n, "drain")
    <3>1. Head(ToDo) # "drain"
      <4>1. CountedFlows # {} /\ IsFiniteSet(CountedFlows)
        BY <2>11, LifeAssumption, FS_Subset DEF CountedFlows
      <4>2. running # 0
        BY <4>1, FS_EmptySet DEF CountInv
      <4> QED BY <1>2, <4>2 DEF Works
    <3> QED BY <2>4, <2>5, <2>11, <3>1 DEF Awaited
  <2>12. pc[f] = "entry" => WaitsDrains(mon, ToDo', n) \/ (Kept(f)' /\ Has(ToDo', n, "drain"))
    BY <2>4, <2>5, <2>8 DEF Awaited, Atomic
  <2>13. pc[f] \in Atomic /\ kind[f] \in {"probe", "reaper"} => Waiting(mon, ToDo', n) \/ Kept(f)'
    BY <2>4, <2>5, <2>8 DEF Awaited
  <2> QED BY <2>2, <2>6, <2>9, <2>10, <2>11, <2>12, <2>13 DEF Awaited
<1>3. CASE (Deactivate \/ (Works /\ ~Ending)) /\ Ending'
  <2>1. UNCHANGED <<mon, pc, kind>>
    BY <1>3, WorkStep DEF Deactivate, monVars, flowVars
  <2>2. SUFFICES ASSUME NEW f \in Flows, NEW n \in Stops(mon, ToDo') PROVE Awaited(f, n)'
    BY <2>1 DEF FlowInv
  <2>3. pc[f] # "out" => kind[f] \in RowKinds(mon) \cup Timed
    BY DEF KindInv, Runnable, Hooked, RowKinds, Row
  <2>4. /\ pc[f] # "out" /\ kind[f] \in {"probe", "reaper"} => Waiting(mon, ToDo', n)
        /\ pc[f] # "out" /\ kind[f] = "guarded" => Has(ToDo', n, "unprobe")
        /\ pc[f] # "out" /\ kind[f] = "own" => Has(ToDo', n, "stop")
        /\ pc[f] # "out" /\ kind[f] = "counted"
             => WaitsDrains(mon, ToDo', n) /\ Has(ToDo', n, "drain")
    BY <1>3, <2>3, JustBegun, Weaker DEF Timed, Lasting
  <2>5. (f \in CountedFlows)' => pc[f] # "out" /\ kind[f] = "counted"
    BY <2>1 DEF CountedFlows
  <2> QED BY <2>1, <2>4, <2>5 DEF Awaited, Atomic
<1>4. CASE Done \/ Activate \/ SetTest \/ SetAssign
  BY <1>4 DEF Done, Activate, SetTest, SetAssign, FlowInv, Ending, Idle, ReqInv
<1>5. CASE Exit
  BY <1>5, ExitPends DEF FlowInv
<1>6. CASE Still
  <2>1. UNCHANGED <<mon, pc, kind, phase, ToDo>> /\ gp'["ctl"] = gp["ctl"]
    BY <1>6 DEF Still, Stays, flowVars
  <2> QED BY <2>1 DEF FlowInv, Awaited, Kept, CountedFlows, Ending, Pending
<1> QED BY <1>1, <1>2, <1>3, <1>4, <1>5, <1>6, AllSteps DEF FlowInv

-----------------------------------------------------------------------------
(* Where descriptors are, and what the requests do with them.              *)

Places == {"free", "in", "ctl", "dump", "rcu", "dead", "reaped", "lost", "stray"}
Requesters == {"ctl", "dump"}

DataInv ==
  /\ sessions \in Nat /\ where \in [Descs -> Places] /\ waits \in [Descs -> SUBSET Flows]
  /\ ptr \in [Flows -> Descs \cup {None}] /\ gp \in [Requesters -> SUBSET Flows]

\* Types of the descriptors.
LEMMA DataNext ==
  ASSUME TypeInv, DataInv, [Next]_vars
  PROVE  DataInv'
<1> USE DEF DataInv
<1>1. CASE \E f \in Flows : Flowing(f)
  <2> USE DEF monVars, reqVars
  <2>1. PICK f \in Flows : Flowing(f)
    BY <1>1
  <2>2. ASSUME NEW p, Goto(f, p)
        PROVE  waits' \in [Descs -> SUBSET Flows] /\ gp' \in [Requesters -> SUBSET Flows]
    BY <2>2 DEF Goto
  <2>3. CASE Enter(f) \/ Count(f) \/ Sleep(f) \/ Wake(f)
    <3>1. waits' \in [Descs -> SUBSET Flows] /\ gp' \in [Requesters -> SUBSET Flows]
      BY <2>2, <2>3 DEF Enter, Count, Sleep, Wake
    <3> QED BY <2>3, <3>1 DEF Enter, Count, Sleep, Wake
  <2>4. CASE FindDesc(f)
    <3>1. waits' \in [Descs -> SUBSET Flows] /\ gp' \in [Requesters -> SUBSET Flows]
      BY <2>2, <2>4 DEF FindDesc
    <3>2. PICK d \in Descs, at \in {"in", "stray"} :
            where' = [where EXCEPT ![d] = at] /\ (ptr' = ptr \/ ptr' = [ptr EXCEPT ![f] = d])
      BY <2>4 DEF FindDesc
    <3>3. where' \in [Descs -> Places] /\ ptr' \in [Flows -> Descs \cup {None}]
      BY <3>2 DEF Places
    <3> QED BY <2>4, <3>1, <3>3 DEF FindDesc
  <2>5. CASE Reap(f)
    <3>1. waits' \in [Descs -> SUBSET Flows] /\ gp' \in [Requesters -> SUBSET Flows]
      BY <2>2, <2>5 DEF Reap
    <3>2. where' \in [Descs -> Places]
      BY <2>5 DEF Reap, Tree, Places
    <3> QED BY <2>5, <3>1, <3>2 DEF Reap
  <2>6. CASE Emit(f) \/ Leave(f)
    <3>1. waits' \in [Descs -> SUBSET Flows] /\ gp' \in [Requesters -> SUBSET Flows]
      BY <2>2, <2>6 DEF Emit, Leave
    <3> QED BY <2>6, <3>1 DEF Emit, Leave
  <2> QED BY <2>1, <2>3, <2>4, <2>5, <2>6 DEF Flowing
<1>2. CASE \E p \in Requesters : Requester(p)
  <2> USE DEF Others, flowVars, WaitFor, Pop, InAtomic, Move, Requesters, Places
  <2>1. PICK p \in Requesters : Requester(p)
    BY <1>2
  <2>2. CASE Sync(p) \/ Msleep(p) \/ Wait(p)
    <3>1. gp' \in [Requesters -> SUBSET Flows]
      BY <2>2 DEF Sync, Msleep, Wait, SyncSet
    <3> QED BY <2>2, <3>1 DEF Sync, Msleep, Wait, dataVars
  <2>3. CASE Detach(p) \/ Free(p)
    BY <2>1, <2>3 DEF Detach, Free
  <2>4. CASE Defer(p)
    BY <2>4 DEF Defer, DeferredFree
  <2> QED BY <2>1, <2>2, <2>3, <2>4 DEF Requester
<1>3. CASE Controller /\ ~Requester("ctl")
  <2> USE DEF Others, flowVars, dataVars, WaitFor, Pop, InAtomic
  <2>1. CASE Done \/ Hook \/ Unhook \/ Start \/ Drain \/ Clear \/ Off \/ Destroy
    BY <2>1 DEF Done, Hook, Unhook, Start, Drain, Clear, Off, Destroy
  <2>2. CASE Unprobe \/ Stop \/ Cancel \/ Close
    <3>1. gp' \in [Requesters -> SUBSET Flows]
      BY <2>2 DEF Unprobe, Stop, Cancel, Close
    <3> QED BY <2>2, <3>1 DEF Unprobe, Stop, Cancel, Close
  <2>3. CASE Clean \/ Forget
    BY <2>3 DEF Clean, Forget, Move, Places
  <2> QED BY <1>3, <2>1, <2>2, <2>3 DEF Controller
<1>4. CASE \/ Activate \/ Deactivate \/ Exit \/ Dump \/ SetTest \/ SetAssign \/ AskUprobe
  BY <1>4 DEF Activate, Deactivate, Exit, Dump, SetTest, SetAssign, AskUprobe,
         flowVars, dataVars, monVars, reqVars
<1>5. CASE \E d \in Descs : Callback(d)
  BY <1>5 DEF Callback, flowVars, monVars, reqVars, Places
<1>6. CASE UNCHANGED vars
  BY <1>6 DEF vars, flowVars, dataVars, monVars, reqVars
<1> QED BY <1>1, <1>2, <1>3, <1>4, <1>5, <1>6 DEF Next, Controller, Flowing, Handler, Requesters

\* What the next step of a request does with descriptors.
Handles(p) ==
  LET step == Head(todo[p]) IN
  /\ todo[p] # <<>>
  /\ step = "detach" => Move("in", p)
  /\ step = "free" => Move(p, "dead")
  /\ step = "defer" => DeferredFree(p)
  /\ step = "clean" => Move("in", "dead")
  /\ step = "forget" => Move("in", "lost")
  /\ step \notin {"detach", "free", "defer", "clean", "forget"} => where' = where
  /\ step # "defer" => waits' = waits

Reports ==
  /\ Still /\ Handles("dump") /\ Head(todo["dump"]) \notin {"clean", "forget"}
  /\ \/ todo'["dump"] = Tail(todo["dump"])
     \/ /\ Head(todo["dump"]) \notin {"detach", "free", "defer"}
        /\ todo'["dump"] = <<"wait">> \o Tail(todo["dump"])

\* The steps of the system, as the invariants of the descriptors see them.
LEMMA AllData ==
  ASSUME TypeInv, [Next]_vars
  PROVE  \/ \E f \in Flows : Flowing(f)
         \/ Works /\ Handles("ctl") /\ todo'["dump"] = todo["dump"]
         \/ Reports
         \/ \E d \in Descs : Callback(d) /\ Still /\ todo' = todo
         \/ Dump /\ Still /\ UNCHANGED dataVars
         \/ Still /\ UNCHANGED <<todo, dataVars>>
         \/ /\ Done \/ Activate \/ Deactivate \/ Exit \/ SetTest \/ SetAssign
            /\ UNCHANGED <<flowVars, dataVars>> /\ todo'["dump"] = todo["dump"]
<1> USE DEF TypeInv, ToDo
<1>1. CASE Controller /\ ~Done
  <2> USE DEF Next1, Pop, WaitFor, Handles, dataVars
  <2>1. Works
    BY <1>1, Work
  <2>2. CASE Sync("ctl") \/ Msleep("ctl") \/ Wait("ctl")
    BY <2>1, <2>2 DEF Sync, Msleep, Wait
  <2>3. CASE Detach("ctl") \/ Free("ctl") \/ Defer("ctl")
    BY <2>1, <2>3 DEF Detach, Free, Defer
  <2>4. CASE Hook \/ Unhook \/ Unprobe \/ Start \/ Stop \/ Cancel \/ Close
    BY <2>1, <2>4 DEF Hook, Unhook, Unprobe, Start, Stop, Cancel, Close
  <2>5. CASE Drain \/ Clean \/ Forget \/ Clear
    BY <2>1, <2>5 DEF Drain, Clean, Forget, Clear
  <2>6. CASE Off \/ Destroy
    BY <2>1, <2>6 DEF Off, Destroy
  <2> QED BY <1>1, <2>2, <2>3, <2>4, <2>5, <2>6 DEF Controller, Requester
<1>2. CASE Requester("dump")
  <2> USE DEF Next1, Pop, WaitFor, Others, Still, Stays, flowVars
  <2>1. CASE Sync("dump") \/ Msleep("dump") \/ Wait("dump")
    BY <2>1 DEF Sync, Msleep, Wait, Reports, Handles, dataVars
  <2>2. CASE Detach("dump") \/ Free("dump") \/ Defer("dump")
    BY <2>2 DEF Detach, Free, Defer, Reports, Handles
  <2> QED BY <1>2, <2>1, <2>2 DEF Requester
<1>3. CASE Dump
  BY <1>3 DEF Dump, Begin, monVars, Still, Stays, flowVars
<1>4. CASE \E d \in Descs : Callback(d)
  BY <1>4 DEF Callback, monVars, reqVars, Still, Stays, flowVars
<1>5. CASE UNCHANGED vars
  BY <1>5 DEF vars, monVars, reqVars, Still, Stays, flowVars
<1>6. CASE Done \/ Activate \/ Deactivate \/ Exit \/ SetTest \/ SetAssign
  BY <1>6 DEF Done, Activate, Deactivate, Exit, SetTest, SetAssign, Begin
<1>7. CASE AskUprobe
  BY <1>7 DEF AskUprobe, reqVars, Still, Stays, flowVars
<1> QED BY <1>1, <1>2, <1>3, <1>4, <1>5, <1>6, <1>7 DEF Next, Flowing, Handler

\* What a handler does with descriptors.
LEMMA FlowData ==
  ASSUME TypeInv, DataInv, NEW f \in Flows, Flowing(f)
  PROVE  /\ \A d \in Descs :
              \/ where'[d] = where[d]
              \/ where[d] = "in" /\ where'[d] = "reaped"
              \/ where[d] = "in" /\ where'[d] = "dead" /\ ~(Row.reaps \subseteq {"reaper"})
              \/ where[d] = "free" /\ where'[d] = "stray"
              \/ /\ where[d] = "free" /\ where'[d] = "in" /\ Row.data # "none" /\ Tree = {}
                 /\ pc[f] = "work" /\ kind[f] \in Row.inserts
         /\ \A g \in Flows : g # f => ptr'[g] = ptr[g]
         /\ \/ ptr'[f] = ptr[f] /\ (pc'[f] \in {"emit", "done"}
                                    \/ (pc[f] \in {"out", "entry", "asleep", "work"} /\ pc'[f] # "out"))
            \/ ptr'[f] = None
            \/ /\ Row.data = "kept" /\ pc'[f] = "held" /\ ptr'[f] \in Descs
               /\ where'[ptr'[f]] \in {"in", "stray"}
         /\ \A d \in Descs :
              waits'[d] = waits[d] \/ (waits'[d] = waits[d] \ {f} /\ pc'[f] \notin Atomic)
         /\ pc'[f] = "emit" => buffer = "up"
<1> USE DEF TypeInv, DataInv, Atomic
<1>1. ASSUME NEW p, Goto(f, p)
      PROVE  /\ pc'[f] = p
             /\ \A d \in Descs :
                  waits'[d] = waits[d] \/ (waits'[d] = waits[d] \ {f} /\ pc'[f] \notin Atomic)
  BY <1>1 DEF Goto
<1>2. CASE Enter(f)
  BY <1>1, <1>2 DEF Enter
<1>3. CASE Count(f) \/ Sleep(f) \/ Wake(f)
  BY <1>1, <1>3 DEF Count, Sleep, Wake
<1>4. CASE FindDesc(f)
  <2>1. PICK d \in Descs, at \in {"in", "stray"} :
          /\ \/ where[d] = "in" /\ at = "in"
             \/ where[d] = "free" /\ Tree = {} /\ kind[f] \in Row.inserts
          /\ where' = [where EXCEPT ![d] = at]
          /\ IF Row.data = "kept" THEN ptr' = [ptr EXCEPT ![f] = d] /\ Goto(f, "held")
                                  ELSE ptr' = ptr /\ Goto(f, "done")
    BY <1>4 DEF FindDesc
  <2>2. pc[f] = "work" /\ Row.data # "none"
    BY <1>4 DEF FindDesc
  <2>3. \A e \in Descs :
              \/ where'[e] = where[e]
              \/ where[e] = "free" /\ where'[e] = "stray"
              \/ /\ where[e] = "free" /\ where'[e] = "in" /\ Row.data # "none" /\ Tree = {}
                 /\ pc[f] = "work" /\ kind[f] \in Row.inserts
    BY <2>1, <2>2
  <2>4. CASE Row.data = "kept"
    <3>1. pc'[f] = "held"
          /\ \A e \in Descs : waits'[e] = waits[e] \/ (waits'[e] = waits[e] \ {f} /\ pc'[f] \notin Atomic)
      BY <1>1, <2>1, <2>4
    <3> QED BY <2>1, <2>3, <2>4, <3>1
  <2>5. CASE Row.data # "kept"
    <3>1. pc'[f] = "done"
          /\ \A e \in Descs : waits'[e] = waits[e] \/ (waits'[e] = waits[e] \ {f} /\ pc'[f] \notin Atomic)
      BY <1>1, <2>1, <2>5
    <3> QED BY <2>1, <2>3, <2>5, <3>1
  <2> QED BY <2>4, <2>5
<1>5. CASE Reap(f)
  <2>1. Goto(f, "done") /\ ptr' = ptr /\ pc[f] = "work"
    BY <1>5 DEF Reap
  <2>2. PICK d \in Descs :
          where[d] = "in"
          /\ where' = [where EXCEPT ![d] = IF kind[f] = "reaper" THEN "reaped" ELSE "dead"]
    BY <1>5 DEF Reap, Tree
  <2>3. kind[f] # "reaper" => ~(Row.reaps \subseteq {"reaper"})
    BY <1>5 DEF Reap
  <2> QED BY <1>1, <2>1, <2>2, <2>3
<1>6. CASE Emit(f)
  BY <1>1, <1>6 DEF Emit
<1>7. CASE Leave(f)
  BY <1>1, <1>7 DEF Leave
<1> QED BY <1>2, <1>3, <1>4, <1>5, <1>6, <1>7 DEF Flowing

\* What is put behind a deactivation does not touch the list of what it took out.
LEMMA OrderConcat ==
  ASSUME NEW m, NEW s \in Seq(Steps), NEW t \in Seq(Steps), ~Holds(t, "free"), ~Holds(t, "detach")
  PROVE  /\ Disposed(s) => Disposed(s \o t)
         /\ FreedLate(m, s) => FreedLate(m, s \o t)
<1>1. PICK u, a, b : u = s \o t /\ a = Len(s) /\ b = Len(t)
  OBVIOUS
<1>2. /\ a \in Nat /\ b \in Nat /\ DOMAIN s = 1..a /\ DOMAIN t = 1..b /\ DOMAIN u = 1..(a + b)
      /\ \A i \in 1..(a + b) : u[i] = IF i <= a THEN s[i] ELSE t[i - a]
  BY <1>1
<1>3. ASSUME NEW i \in DOMAIN u, u[i] \in {"free", "detach"}
      PROVE  i \in DOMAIN s /\ s[i] = u[i]
  <2>1. CASE i <= a
    BY <1>2, <2>1
  <2>2. CASE ~(i <= a)
    <3>1. i - a \in DOMAIN t /\ u[i] = t[i - a]
      BY <1>2, <2>2
    <3> QED BY <1>3, <3>1 DEF Holds
  <2> QED BY <2>1, <2>2
<1>4. \A i \in DOMAIN s : i \in DOMAIN u /\ u[i] = s[i]
  BY <1>2
<1>5. Disposed(s) => Disposed(u)
  BY <1>3, <1>4 DEF Disposed
<1>6. FreedLate(m, s) => FreedLate(m, u)
  BY <1>3, <1>4 DEF FreedLate
<1> QED BY <1>1, <1>5, <1>6

\* The deactivation that the exit of the module comes to finds no list, and no buffer
\* is destroyed in it.
LEMMA OffOrder ==
  ASSUME LifeInv, Works, Head(ToDo) = "off", Hurried \subseteq Sleepers
  PROVE  /\ Pending /\ ~Pending' /\ phase = "exit" /\ phase' = "exit" /\ mon' = mon
         /\ Disposed(ToDo') /\ FreedLate(mon, ToDo')
         /\ ~Holds(ToDo, "free") /\ ~Holds(ToDo, "defer")
         /\ \A x \in {"forget", "destroy"} : ~Holds(ToDo, x) => ~Holds(ToDo', x)
         /\ ~Holds(ToDo, "forget")
<1> USE DEF LifeInv, TypeInv
<1>1. PICK t \in Seq(Steps) :
        /\ ToDo' = (IF activated THEN Row.off ELSE <<>>) \o t
        /\ \A x : Holds(t, x) => x = "clear" \/ Holds(ToDo, x)
  BY OffExpands
<1>2. /\ Pending /\ ~Pending' /\ Ends(mon, Row.off, RowKinds(mon)) /\ Row.off \in Seq(Steps)
      /\ \A x : Holds(ToDo', x) => x = "clear" \/ Holds(Row.off, x) \/ Holds(ToDo, x)
  BY OffExpands
<1>3. phase = "exit" /\ phase' = "exit" /\ mon' = mon
  BY <1>2, WorkStep DEF Pending
<1>4. /\ ~Holds(ToDo, "free") /\ ~Holds(ToDo, "defer") /\ ~Holds(ToDo, "detach")
      /\ ~Holds(ToDo, "forget")
  BY <1>2 DEF KindInv, Exits, Holds
<1>5. ~Holds(t, "free") /\ ~Holds(t, "detach")
  BY <1>1, <1>4
<1>6. PICK w : w = IF activated THEN Row.off ELSE <<>>
  OBVIOUS
<1>7. w \in Seq(Steps) /\ Disposed(w) /\ FreedLate(mon, w)
  <2>1. <<>> \in Seq(Steps) /\ Disposed(<<>>) /\ FreedLate(mon, <<>>)
    BY DEF Disposed, FreedLate
  <2> QED BY <1>2, <1>6, <2>1 DEF Ends
<1>8. Disposed(w \o t) /\ FreedLate(mon, w \o t)
  BY <1>5, <1>7, OrderConcat
<1>9. ~Holds(Row.off, "forget") /\ ~Holds(Row.off, "destroy")
  BY <1>2 DEF Ends, Holds
<1>10. \A x \in {"forget", "destroy"} : ~Holds(ToDo, x) => ~Holds(ToDo', x)
  BY <1>2, <1>9
<1> QED BY <1>1, <1>2, <1>3, <1>4, <1>6, <1>8, <1>10

-----------------------------------------------------------------------------
(* Lists of descriptors that were taken out of the tree.                   *)

Disposes(s) == Holds(s, "free") \/ Holds(s, "defer")

\* What is on a list is freed or left to RCU by the request whose list it is.
ListInv ==
  /\ todo["dump"] \in Seq(Steps) /\ \A p \in Requesters : Disposed(todo[p])
  /\ \A p \in Requesters, d \in Descs : where[d] = p => Disposes(todo[p])
  /\ phase \in {"exit", "gone"} => todo["dump"] = <<>>

\* The empty list disposes of nothing.
LEMMA NothingToDo ==
  Disposed(<<>>) /\ ~Disposes(<<>>) /\ <<>> \in Seq(Steps) /\ \A x : ~Holds(<<>>, x)
BY DEF Disposed, Disposes, Holds

\* A step of a request leaves its list to be disposed of, or disposes of it.
LEMMA ListStep ==
  ASSUME DataInv, NEW p \in Requesters, Handles(p), todo[p] \in Seq(Steps), Disposed(todo[p]),
         \A d \in Descs : where[d] = p => Disposes(todo[p]),
         NEW u, u = Tail(todo[p]) \/ (u = <<"wait">> \o Tail(todo[p])
                                        /\ Head(todo[p]) \notin {"detach", "free", "defer"})
  PROVE  /\ u \in Seq(Steps) /\ Disposed(u)
         /\ \A d \in Descs : where'[d] = p => Disposes(u)
         /\ \A q \in Requesters : q # p => \A d \in Descs : where'[d] = q => where[d] = q
<1> USE DEF DataInv, Requesters
<1>1. PICK s : s = todo[p]
  OBVIOUS
<1>2. s \in Seq(Steps) /\ s # <<>> /\ Disposed(s) /\ (u = Tail(s) \/ u = <<"wait">> \o Tail(s))
  BY <1>1 DEF Handles
<1>3. u \in Seq(Steps) /\ Disposed(u)
  BY <1>2, Rest, RestInOrder
<1>4. CASE Head(s) = "detach"
  <2>1. Disposes(u)
    BY <1>1, <1>2, <1>4, RestInOrder DEF Disposes
  <2>2. Move("in", p)
    BY <1>1, <1>4 DEF Handles
  <2> QED BY <1>3, <2>1, <2>2 DEF Move
<1>5. CASE Head(s) = "free"
  <2>1. Move(p, "dead")
    BY <1>1, <1>5 DEF Handles
  <2> QED BY <1>3, <2>1 DEF Move
<1>6. CASE Head(s) = "defer"
  <2>1. Move(p, "rcu")
    BY <1>1, <1>6 DEF Handles, DeferredFree
  <2> QED BY <1>3, <2>1 DEF Move
<1>7. CASE Head(s) \notin {"detach", "free", "defer"}
  <2>1. where' = where \/ Move("in", "dead") \/ Move("in", "lost")
    BY <1>1, <1>7 DEF Handles
  <2>2. \A d \in Descs : where'[d] \in Requesters => where[d] = where'[d]
    BY <2>1 DEF Move
  <2>3. Disposes(s) => Disposes(u)
    BY <1>2, <1>7, Rest DEF Disposes
  <2> QED BY <1>1, <1>3, <2>2, <2>3
<1> QED BY <1>4, <1>5, <1>6, <1>7

\* The lists of the requests dispose of what they hold.
LEMMA ListNext ==
  ASSUME LifeInv, DataInv, ListInv, [Next]_vars, OneOperator, Hurried \subseteq Sleepers
  PROVE  ListInv'
<1> USE DEF LifeInv, TypeInv, Requesters
<1>0. RowOK(mon)
  BY RowIsOK
<1>1. CASE \E f \in Flows : Flowing(f)
  <2>1. PICK f \in Flows : Flowing(f)
    BY <1>1
  <2>2. UNCHANGED <<phase, todo>>
    BY <2>1, FlowKinds DEF reqVars
  <2>3. \A p \in Requesters, d \in Descs : where'[d] = p => where[d] = p
    BY <2>1, FlowData
  <2> QED BY <2>2, <2>3 DEF ListInv
<1>2. CASE Works /\ Handles("ctl") /\ todo'["dump"] = todo["dump"]
  <2>1. ToDo # <<>> /\ ToDo \in Seq(Steps) /\ phase' = phase
    BY <1>2, WorkStep
  <2>2. CASE Head(ToDo) # "off"
    <3>1. ToDo' = Tail(ToDo) \/ (ToDo' = <<"wait">> \o Tail(ToDo)
                                   /\ Head(ToDo) \notin {"detach", "free", "defer"})
      BY <1>2, <2>2, WorkStep DEF Waits
    <3>2. /\ Disposed(ToDo')
          /\ \A d \in Descs : where'[d] = "ctl" => Disposes(ToDo')
          /\ \A q \in Requesters : q # "ctl" => \A d \in Descs : where'[d] = q => where[d] = q
      BY <1>2, <2>1, <3>1, ListStep DEF ListInv, ToDo
    <3> QED BY <1>2, <2>1, <3>2 DEF ListInv, ToDo
  <2>3. CASE Head(ToDo) = "off"
    <3>1. Disposed(ToDo') /\ ~Disposes(ToDo)
      BY <1>2, <2>3, OffOrder DEF Disposes
    <3>2. where' = where
      BY <1>2, <2>3 DEF Handles, ToDo
    <3> QED BY <1>2, <2>1, <3>1, <3>2 DEF ListInv, ToDo
  <2> QED BY <2>2, <2>3
<1>3. CASE Reports
  <2>1. todo'["ctl"] = todo["ctl"] /\ phase' = phase /\ todo["dump"] # <<>>
    BY <1>3 DEF Reports, Still, Stays, ToDo, Handles
  <2>2. /\ todo'["dump"] \in Seq(Steps) /\ Disposed(todo'["dump"])
        /\ \A d \in Descs : where'[d] = "dump" => Disposes(todo'["dump"])
        /\ \A q \in Requesters : q # "dump" => \A d \in Descs : where'[d] = q => where[d] = q
    BY <1>3, ListStep DEF ListInv, Reports
  <2> QED BY <2>1, <2>2 DEF ListInv
<1>4. CASE \E d \in Descs : Callback(d) /\ Still /\ todo' = todo
  <2>1. \A p \in Requesters, d \in Descs : where'[d] = p => where[d] = p
    BY <1>4 DEF Callback, DataInv
  <2> QED BY <1>4, <2>1 DEF ListInv, Still, Stays
<1>5. CASE Dump /\ Still /\ UNCHANGED dataVars
  <2>1. /\ todo["dump"] = <<>> /\ todo'["dump"] = Row.dump /\ todo'["ctl"] = todo["ctl"]
        /\ UNCHANGED <<where, phase>> /\ phase \notin {"exit", "gone"}
    BY <1>5 DEF Dump, Begin, Still, Stays, ToDo, dataVars
  <2>2. \A d \in Descs : where[d] # "dump"
    BY <2>1, NothingToDo DEF ListInv
  <2> QED BY <1>0, <2>1, <2>2 DEF ListInv, RowOK, Row
<1>6. CASE Still /\ UNCHANGED <<todo, dataVars>>
  BY <1>6 DEF ListInv, Still, Stays, dataVars
<1>7. CASE /\ Done \/ Activate \/ Deactivate \/ Exit \/ SetTest \/ SetAssign
           /\ UNCHANGED <<flowVars, dataVars>> /\ todo'["dump"] = todo["dump"]
  <2>1. where' = where
    BY <1>7 DEF dataVars
  <2>2. phase' \in {"exit", "gone"} => todo["dump"] = <<>>
    BY <1>7 DEF Done, Activate, Deactivate, Exit, SetTest, SetAssign, ListInv
  <2>3. CASE Done \/ SetTest \/ SetAssign
    <3>1. todo' = todo
      BY <2>3 DEF Done, SetTest, SetAssign
    <3> QED BY <2>1, <2>2, <3>1 DEF ListInv
  <2>4. CASE Activate \/ Deactivate \/ Exit
    <3>1. ToDo = <<>>
      BY <2>4 DEF Activate, Deactivate, Exit, Idle, ReqInv
    <3>2. \A d \in Descs : where[d] # "ctl"
      BY <3>1, NothingToDo DEF ListInv, ToDo
    <3>3. Disposed(Row.on) /\ (Hurried \subseteq Sleepers => Disposed(Row.off))
          /\ Disposed(ExitSteps(mon))
      <4>1. Disposed(ExitSteps(mon))
        BY <1>0 DEF RowOK, Exits, Disposed
      <4> QED BY <1>0, <4>1 DEF RowOK, Row, Begins, Ends
    <3>4. Disposed(todo'["ctl"])
      BY <2>4, <3>3 DEF Activate, Deactivate, Exit, Begin, ExitSteps, Row
    <3> QED BY <1>7, <2>1, <2>2, <3>2, <3>4 DEF ListInv
  <2> QED BY <1>7, <2>3, <2>4
<1> QED BY <1>1, <1>2, <1>3, <1>4, <1>5, <1>6, <1>7, AllData

-----------------------------------------------------------------------------
(* The record buffer.                                                      *)

\* It is destroyed in an exit of the module only, and then nobody writes into it.
BufferInv ==
  /\ phase \in {"on", "off"} \/ mon \in NeverExits => ~Holds(ToDo, "destroy")
  /\ BufferOutlivesHandlers

\* Where something may only be done when the monitor is quiet, and the per-CPU
\* timers are stopped, no handler is left.
LEMMA ExitQuiet ==
  ASSUME LifeInv, Works, phase = "exit", ~Pending, mon \notin NeverExits,
         Head(ToDo) \in Disposals(mon)
  PROVE  \A f \in Flows : pc[f] = "out"
<1> USE DEF LifeInv, TypeInv
<1>1. Quiet
  BY DoneQuiet DEF Ending
<1>2. ~timers
  <2>1. Head(ToDo) # "cancel"
    BY DEF Disposals
  <2> QED BY <2>1 DEF TimerInv
<1>3. \A f \in Flows : pc[f] # "out" /\ kind[f] \in Timed => FALSE
  BY <1>2, WorkStep DEF TimerInv
<1>4. \A f \in Flows : pc[f] = "out" \/ kind[f] \notin Asked
  BY DEF AskInv
<1> QED BY <1>1, <1>3, <1>4 DEF Quiet, Lasting, Timed, Asked

\* The buffer outlives the handlers.
LEMMA BufferNext ==
  ASSUME LifeInv, DataInv, BufferInv, [Next]_vars, OneOperator, Hurried \subseteq Sleepers
  PROVE  BufferInv'
<1> USE DEF LifeInv, TypeInv
<1>0. RowOK(mon)
  BY RowIsOK
<1>1. CASE \E f \in Flows : Flowing(f)
  <2>1. PICK f \in Flows : Flowing(f)
    BY <1>1
  <2>2. UNCHANGED <<mon, phase, buffer, ToDo>>
    BY <2>1, FlowKinds DEF reqVars, monVars
  <2>3. /\ \A g \in Flows : g # f => pc'[g] = pc[g]
        /\ pc'[f] = "emit" => buffer = "up"
    BY <2>1, FlowKinds, FlowData
  <2> QED BY <2>2, <2>3 DEF BufferInv, BufferOutlivesHandlers
<1>2. CASE Works
  <2>1. ToDo # <<>> /\ ToDo \in Seq(Steps)
        /\ UNCHANGED <<mon, phase, pc>> /\ Holds(ToDo, Head(ToDo))
    BY <1>2, WorkStep DEF flowVars
  <2>2. phase \in {"on", "off"} \/ mon \in NeverExits => ~Holds(ToDo', "destroy")
    <3>1. CASE Head(ToDo) = "off"
      BY <1>2, <3>1, OffOrder DEF BufferInv
    <3>2. CASE Head(ToDo) # "off"
      <4>1. ToDo' = Tail(ToDo) \/ ToDo' = <<"wait">> \o Tail(ToDo)
        BY <1>2, <3>2, WorkStep
      <4> QED BY <2>1, <4>1, Rest DEF BufferInv
    <3> QED BY <3>1, <3>2
  <2>3. CASE Head(ToDo) # "destroy"
    <3>1. buffer' = buffer
      BY <1>2, <2>3 DEF Works
    <3> QED BY <2>1, <2>2, <3>1 DEF BufferInv, BufferOutlivesHandlers
  <2>4. CASE Head(ToDo) = "destroy" /\ mon \notin ExitsBackwards
    <3>1. phase = "exit" /\ mon \notin NeverExits
      BY <1>2, <2>1, <2>4, WorkStep DEF BufferInv
    <3>2. ~Pending
      BY <2>4, ExitOrder DEF KindInv, Pending, BeforeOff
    <3>3. \A f \in Flows : pc[f] = "out"
      BY <1>2, <2>4, <3>1, <3>2, ExitQuiet DEF Disposals
    <3> QED BY <2>1, <2>2, <3>3 DEF BufferInv, BufferOutlivesHandlers
  <2>5. CASE mon \in ExitsBackwards
    BY <2>1, <2>2, <2>5 DEF BufferInv, BufferOutlivesHandlers
  <2> QED BY <2>3, <2>4, <2>5
<1>3. CASE Done \/ Activate \/ Deactivate \/ Exit \/ SetTest \/ SetAssign
  <2>1. UNCHANGED <<mon, pc>> /\ (buffer = "up" => buffer' = "up")
    BY <1>3 DEF Done, Activate, Deactivate, Exit, SetTest, SetAssign, flowVars, monVars
  <2>2. phase' \in {"on", "off"} \/ mon \in NeverExits => ~Holds(ToDo', "destroy")
    <3>1. CASE Done
      BY <3>1, NothingToDo DEF Done, ToDo
    <3>2. CASE SetTest \/ SetAssign
      BY <3>2 DEF SetTest, SetAssign, ToDo, BufferInv
    <3>3. CASE Activate
      <4>1. ToDo' = Row.on
        BY <3>3 DEF Activate, Begin, ToDo
      <4> QED BY <1>0, <4>1 DEF RowOK, Begins, Row, Holds
    <3>4. CASE Deactivate
      <4>1. ToDo' = Row.off
        BY <3>4 DEF Deactivate, Begin, ToDo
      <4> QED BY <1>0, <4>1 DEF RowOK, Ends, Row, Holds
    <3>5. CASE Exit
      BY <1>0, <3>5, ExitPends DEF RowOK
    <3> QED BY <1>3, <3>1, <3>2, <3>3, <3>4, <3>5
  <2> QED BY <2>1, <2>2 DEF BufferInv, BufferOutlivesHandlers
<1>4. CASE Still
  <2>1. UNCHANGED <<mon, phase, pc, buffer, ToDo>>
    BY <1>4 DEF Still, Stays, flowVars
  <2> QED BY <2>1 DEF BufferInv, BufferOutlivesHandlers
<1> QED BY <1>1, <1>2, <1>3, <1>4, AllSteps

-----------------------------------------------------------------------------
(* Descriptors in use.                                                     *)

\* Whoever uses a descriptor is in its atomic section.
HoldInv ==
  \A f \in Flows : ptr[f] # None => Row.data = "kept" /\ pc[f] \in {"held", "emit", "done"}

\* What is left to do frees nothing too early.
LateInv ==
  Wary(mon) =>
    /\ FreedLate(mon, ToDo) /\ ~Holds(todo["dump"], "free")
    /\ phase = "on" => ~Holds(ToDo, "clean")
    /\ phase = "off" /\ Holds(ToDo, "clean") => RowKinds(mon) \cap Lasting = {}

\* A descriptor in use is not freed: its callback, or whoever frees the list it is on,
\* waits for the handler that uses it.
GuardInv ==
  Wary(mon) =>
    \A f \in Flows : ptr[f] # None =>
      /\ where[ptr[f]] \notin {"free", "dead"}
      /\ where[ptr[f]] = "rcu" => f \in waits[ptr[f]]
      /\ where[ptr[f]] = "ctl" => Kept(f) \/ WaitsFirst(mon, ToDo)

\* A handler holds a descriptor only where its monitor keeps them.
LEMMA HoldNext ==
  ASSUME LifeInv, DataInv, HoldInv, [Next]_vars
  PROVE  HoldInv'
<1> USE DEF LifeInv, TypeInv
<1>1. CASE \E f \in Flows : Flowing(f)
  <2>1. PICK f \in Flows : Flowing(f)
    BY <1>1
  <2>2. Row' = Row
    BY <2>1, FlowKinds DEF monVars, Row
  <2>3. \A g \in Flows : g # f => pc'[g] = pc[g] /\ ptr'[g] = ptr[g]
    BY <2>1, FlowKinds, FlowData
  <2>4. ptr'[f] # None => Row.data = "kept" /\ pc'[f] \in {"held", "emit", "done"}
    <3>1. \/ ptr'[f] = ptr[f] /\ (pc'[f] \in {"emit", "done"}
                                  \/ pc[f] \in {"out", "entry", "asleep", "work"})
          \/ ptr'[f] = None
          \/ Row.data = "kept" /\ pc'[f] = "held"
      BY <2>1, FlowData
    <3> QED BY <3>1 DEF HoldInv
  <2> QED BY <2>2, <2>3, <2>4 DEF HoldInv
<1>2. CASE \A f \in Flows : ~Flowing(f)
  BY <1>2, OthersStay DEF HoldInv, flowVars, Row
<1> QED BY <1>1, <1>2

\* No step makes what is left to do free too early.
LEMMA LateNext ==
  ASSUME LifeInv, DataInv, ListInv, LateInv, [Next]_vars, OneOperator, Hurried \subseteq Sleepers
  PROVE  LateInv'
<1> USE DEF LifeInv, TypeInv
<1>0. RowOK(mon) /\ RowWary(mon)
  BY RowIsOK, LifeAssumption, RowsAreWary
<1>1. mon' = mon
  <2>1. CASE \E f \in Flows : Flowing(f)
    BY <2>1, FlowKinds DEF monVars
  <2> QED BY <2>1, OthersStay
<1>2. SUFFICES ASSUME Wary(mon)
               PROVE  /\ FreedLate(mon, ToDo') /\ ~Holds(todo'["dump"], "free")
                      /\ phase' = "on" => ~Holds(ToDo', "clean")
                      /\ phase' = "off" /\ Holds(ToDo', "clean") => RowKinds(mon) \cap Lasting = {}
  BY <1>1 DEF LateInv
<1>3. /\ FreedLate(mon, ToDo) /\ ~Holds(todo["dump"], "free")
      /\ phase = "on" => ~Holds(ToDo, "clean")
      /\ phase = "off" /\ Holds(ToDo, "clean") => RowKinds(mon) \cap Lasting = {}
  BY <1>2 DEF LateInv
<1>4. CASE \E f \in Flows : Flowing(f)
  <2>1. UNCHANGED <<phase, todo>> /\ ToDo' = ToDo
    BY <1>4, FlowKinds DEF reqVars
  <2> QED BY <1>3, <2>1
<1>5. CASE Works /\ Handles("ctl") /\ todo'["dump"] = todo["dump"]
  <2>1. ToDo # <<>> /\ ToDo \in Seq(Steps) /\ phase' = phase
    BY <1>5, WorkStep
  <2>2. CASE Head(ToDo) # "off"
    <3>1. ToDo' = Tail(ToDo) \/ ToDo' = <<"wait">> \o Tail(ToDo)
      BY <1>5, <2>2, WorkStep
    <3>2. FreedLate(mon, ToDo') /\ (Holds(ToDo', "clean") => Holds(ToDo, "clean"))
      BY <1>3, <2>1, <3>1, Rest, RestInOrder
    <3> QED BY <1>3, <1>5, <2>1, <3>2
  <2>3. CASE Head(ToDo) = "off"
    BY <1>3, <1>5, <2>3, OffOrder
  <2> QED BY <2>2, <2>3
<1>6. CASE Reports
  <2>1. UNCHANGED <<phase, ToDo>> /\ todo["dump"] # <<>>
    BY <1>6 DEF Reports, Still, Stays, Handles
  <2>2. todo'["dump"] = Tail(todo["dump"]) \/ todo'["dump"] = <<"wait">> \o Tail(todo["dump"])
    BY <1>6 DEF Reports
  <2>3. todo["dump"] \in Seq(Steps)
    BY DEF ListInv
  <2>4. ~Holds(todo'["dump"], "free")
    BY <1>3, <2>1, <2>2, <2>3, Rest
  <2> QED BY <1>3, <2>1, <2>4
<1>7. CASE Dump /\ Still
  <2>1. UNCHANGED <<phase, ToDo>> /\ todo'["dump"] = Row.dump
    BY <1>7 DEF Dump, Begin, Still, Stays
  <2> QED BY <1>0, <1>2, <1>3, <2>1 DEF RowWary, Row
<1>8. CASE Still /\ todo' = todo
  BY <1>3, <1>8 DEF Still, Stays
<1>9. CASE /\ Done \/ Activate \/ Deactivate \/ Exit \/ SetTest \/ SetAssign
           /\ todo'["dump"] = todo["dump"]
  <2>1. CASE Done \/ SetTest \/ SetAssign
    <3>1. ToDo' = ToDo /\ (phase' # phase => phase' \notin {"on", "off"})
      BY <2>1 DEF Done, SetTest, SetAssign, ToDo
    <3> QED BY <1>3, <1>9, <3>1
  <2>2. CASE Activate
    <3>1. ToDo' = Row.on /\ phase' = "on"
      BY <2>2 DEF Activate, Begin, ToDo
    <3>2. FreedLate(mon, Row.on) /\ ~Holds(Row.on, "clean")
      BY <1>0, <1>2 DEF RowOK, Begins, FreedLate, RowWary, Row
    <3> QED BY <1>3, <1>9, <3>1, <3>2
  <2>3. CASE Deactivate
    <3>1. ToDo' = Row.off /\ phase' = "off"
      BY <2>3 DEF Deactivate, Begin, ToDo
    <3>2. FreedLate(mon, Row.off) /\ (Holds(Row.off, "clean") => RowKinds(mon) \cap Lasting = {})
      BY <1>0, <1>2 DEF RowOK, Ends, Wary, Row
    <3> QED BY <1>3, <1>9, <3>1, <3>2
  <2>4. CASE Exit
    <3>1. ToDo' = ExitSteps(mon) /\ phase' = "exit"
      BY <2>4, ExitPends
    <3>2. FreedLate(mon, ExitSteps(mon))
      BY <1>0 DEF RowOK, Exits, FreedLate
    <3> QED BY <1>3, <1>9, <3>1, <3>2
  <2> QED BY <1>9, <2>1, <2>2, <2>3, <2>4
<1> QED BY <1>4, <1>5, <1>6, <1>7, <1>8, <1>9, AllData

\* Where a tree is emptied and freed at once, no handler of a monitor that is wary is left.
LEMMA CleanQuiet ==
  ASSUME LifeInv, LateInv, Works, Wary(mon), Head(ToDo) = "clean"
  PROVE  \A f \in Flows : pc[f] = "out"
<1> USE DEF LifeInv, TypeInv
<1>1. phase \in {"on", "off", "exit"} /\ Holds(ToDo, "clean")
  BY WorkStep
<1>2. phase # "on"
  BY <1>1 DEF LateInv
<1>3. CASE phase = "off"
  <2>1. RowKinds(mon) \cap Lasting = {}
    BY <1>1, <1>3 DEF LateInv
  <2>2. Quiet
    BY <1>3, DoneQuiet DEF Ending, Disposals
  <2>3. Runnable \cap Lasting = {}
    BY <2>1 DEF Runnable, Hooked, RowKinds, Row
  <2> QED BY <2>2, <2>3 DEF Quiet, KindInv
<1>4. CASE phase = "exit"
  <2>1. ~Pending
    BY ExitOrder DEF KindInv, Pending, BeforeOff
  <2>2. mon \notin NeverExits
    BY LifeAssumption, RowsAreWary DEF RowWary
  <2> QED BY <1>4, <2>1, <2>2, ExitQuiet DEF Disposals
<1> QED BY <1>1, <1>2, <1>3, <1>4

\* No step of the controller frees what is in use.
LEMMA GuardWorks ==
  ASSUME LifeInv, DataInv, ListInv, HoldInv, LateInv, GuardInv, Works, Handles("ctl"),
         Hurried \subseteq Sleepers, Wary(mon), NEW f \in Flows, ptr[f] # None
  PROVE  /\ where'[ptr[f]] \notin {"free", "dead"}
         /\ where'[ptr[f]] = "rcu" => f \in waits'[ptr[f]]
         /\ where'[ptr[f]] = "ctl" => Kept(f)' \/ WaitsFirst(mon, ToDo')
<1> USE DEF LifeInv, TypeInv, DataInv
<1>1. PICK d \in Descs : d = ptr[f]
  OBVIOUS
<1>2. /\ where[d] \notin {"free", "dead"}
      /\ where[d] = "rcu" => f \in waits[d]
      /\ where[d] = "ctl" => WaitsFirst(mon, ToDo) /\ Disposes(ToDo)
  BY <1>1, WorkStep DEF GuardInv, ListInv, Requesters, ToDo
<1>3. f \in InAtomic(Kinds) /\ pc[f] # "out"
  BY DEF HoldInv, InAtomic, Atomic
<1>4. ToDo # <<>> /\ ToDo \in Seq(Steps) /\ Head(ToDo) = ToDo[1] /\ 1 \in DOMAIN ToDo
  <2>1. ToDo # <<>> /\ ToDo \in Seq(Steps)
    BY WorkStep
  <2> QED BY <2>1
<1>5. Head(ToDo) # "off" => ToDo' = Tail(ToDo) \/ ToDo' = <<"wait">> \o Tail(ToDo)
  BY WorkStep
<1>6. Head(ToDo) = Head(todo["ctl"])
  BY DEF ToDo
<1>7. CASE Head(ToDo) = "off"
  <2>1. where' = where /\ waits' = waits
    BY <1>6, <1>7 DEF Handles
  <2>2. where[d] # "ctl"
    BY <1>2, <1>7, OffOrder DEF Disposes
  <2> QED BY <1>1, <1>2, <2>1, <2>2
<1>8. CASE Head(ToDo) = "detach"
  <2>1. Move("in", "ctl") /\ waits' = waits
    BY <1>6, <1>8 DEF Handles
  <2>2. ToDo' = Tail(ToDo)
    BY <1>8, WorkStep DEF Waits
  <2>3. WaitsFirst(mon, ToDo')
    BY <1>4, <1>8, <2>2, RestInOrder DEF LateInv
  <2>4. where'[d] = IF where[d] = "in" THEN "ctl" ELSE where[d]
    BY <2>1 DEF Move
  <2> QED BY <1>1, <1>2, <2>1, <2>3, <2>4
<1>9. CASE Head(ToDo) = "free"
  <2>1. Move("ctl", "dead") /\ waits' = waits
    BY <1>6, <1>9 DEF Handles
  <2>2. where[d] # "ctl"
    <3>1. ASSUME WaitsFirst(mon, ToDo) PROVE FALSE
      <4>1. PICK j \in DOMAIN ToDo : j < 1
        BY <1>4, <1>9, <3>1 DEF WaitsFirst
      <4> QED BY <1>4, <4>1
    <3> QED BY <1>2, <3>1
  <2>3. where'[d] = where[d]
    BY <2>1, <2>2 DEF Move
  <2> QED BY <1>1, <1>2, <2>1, <2>2, <2>3
<1>10. CASE Head(ToDo) = "defer"
  <2>1. Move("ctl", "rcu")
        /\ waits' = [e \in Descs |-> IF where[e] = "ctl" THEN InAtomic(Kinds) ELSE waits[e]]
    BY <1>6, <1>10 DEF Handles, DeferredFree
  <2>2. where'[d] = IF where[d] = "ctl" THEN "rcu" ELSE where[d]
    BY <2>1 DEF Move
  <2> QED BY <1>1, <1>2, <1>3, <2>1, <2>2
<1>11. Head(ToDo) # "clean"
  BY <1>3, CleanQuiet
<1>12. CASE Head(ToDo) \notin {"off", "detach", "free", "defer", "clean"}
  <2>1. waits' = waits /\ (where'[d] = where[d] \/ where'[d] = "lost")
    <3>1. where' = where \/ Move("in", "lost")
      BY <1>6, <1>12 DEF Handles
    <3> QED BY <1>6, <1>12, <3>1 DEF Handles, Move
  <2>2. WaitsFirst(mon, ToDo) => Waits(mon, Head(ToDo)) \/ WaitsFirst(mon, ToDo')
    BY <1>4, <1>5, <1>12, RestInOrder
  <2>3. ASSUME Waits(mon, Head(ToDo)) PROVE Kept(f)'
    <3>1. ToDo' = <<"wait">> \o Tail(ToDo) /\ gp'["ctl"] = InAtomic(Kinds)
      BY <1>12, <2>3, WorkStep DEF Works
    <3>2. ToDo' # <<>> /\ Head(ToDo') = "wait"
      <4>1. Tail(ToDo) \in Seq(Steps)
        BY <1>4
      <4> QED BY <3>1, <4>1
    <3> QED BY <1>3, <3>1, <3>2 DEF Kept
  <2> QED BY <1>1, <1>2, <2>1, <2>2, <2>3
<1> QED BY <1>7, <1>8, <1>9, <1>10, <1>11, <1>12

\* A descriptor that a handler holds is kept from being freed.
LEMMA GuardNext ==
  ASSUME LifeInv, DataInv, ListInv, HoldInv, LateInv, GuardInv, [Next]_vars,
         OneOperator, Hurried \subseteq Sleepers
  PROVE  GuardInv'
<1> USE DEF LifeInv, TypeInv, DataInv
<1>1. CASE \E f \in Flows : Flowing(f)
  <2>1. PICK f \in Flows : Flowing(f)
    BY <1>1
  <2>2. mon' = mon /\ ToDo' = ToDo
    BY <2>1, FlowKinds DEF monVars
  <2>3. SUFFICES ASSUME Wary(mon), NEW g \in Flows, ptr'[g] # None
                 PROVE  /\ where'[ptr'[g]] \notin {"free", "dead"}
                        /\ where'[ptr'[g]] = "rcu" => g \in waits'[ptr'[g]]
                        /\ where'[ptr'[g]] = "ctl" => Kept(g)' \/ WaitsFirst(mon, ToDo)
    BY <2>2 DEF GuardInv
  <2>4. CASE ptr'[g] = ptr[g] /\ (g # f \/ pc'[f] \in Atomic)
    <3>1. PICK d \in Descs : d = ptr[g] /\ d = ptr'[g]
      BY <2>3, <2>4
    <3>2. /\ where[d] \notin {"free", "dead"}
          /\ where[d] = "rcu" => g \in waits[d]
          /\ where[d] = "ctl" => Kept(g) \/ WaitsFirst(mon, ToDo)
      BY <2>3, <3>1 DEF GuardInv
    <3>3. where'[d] = where[d] \/ where'[d] = "reaped"
      <4>1. Row.reaps \subseteq {"reaper"}
        BY <2>3, LifeAssumption, RowsAreWary DEF RowWary, Row
      <4> QED BY <2>1, <3>2, <4>1, FlowData
    <3>4. g \in waits[d] => g \in waits'[d]
      BY <2>1, <2>4, FlowData
    <3>5. Kept(g) => Kept(g)'
      BY <2>1, <2>2, <2>4, FlowKinds DEF Kept
    <3> QED BY <3>1, <3>2, <3>3, <3>4, <3>5
  <2>5. CASE g = f /\ ptr'[f] = ptr[f] /\ pc'[f] \notin Atomic
    <3>1. pc'[f] \in {"emit", "done"} \/ pc[f] \in {"out", "entry", "asleep", "work"}
      BY <2>1, <2>3, <2>5, FlowData DEF HoldInv, Atomic
    <3> QED BY <2>3, <2>5, <3>1 DEF HoldInv, Atomic
  <2>6. CASE g = f /\ ptr'[f] # ptr[f]
    BY <2>1, <2>3, <2>6, FlowData
  <2>7. ptr'[g] = ptr[g] \/ g = f
    BY <2>1, FlowData
  <2> QED BY <2>4, <2>5, <2>6, <2>7
<1>2. CASE Works /\ Handles("ctl")
  <2>1. mon' = mon /\ ptr' = ptr
    BY <1>2, WorkStep DEF flowVars
  <2> QED BY <1>2, <2>1, GuardWorks DEF GuardInv
<1>3. CASE Reports
  <2>1. UNCHANGED <<mon, ptr, ToDo>> /\ gp'["ctl"] = gp["ctl"]
    BY <1>3 DEF Reports, Still, Stays, flowVars
  <2>2. SUFFICES ASSUME Wary(mon), NEW f \in Flows, ptr[f] # None
                 PROVE  /\ where'[ptr[f]] \notin {"free", "dead"}
                        /\ where'[ptr[f]] = "rcu" => f \in waits'[ptr[f]]
                        /\ where'[ptr[f]] = "ctl" => Kept(f)' \/ WaitsFirst(mon, ToDo)
    BY <2>1 DEF GuardInv
  <2>3. PICK d \in Descs : d = ptr[f]
    BY <2>2
  <2>4. Kept(f)' = Kept(f)
    BY <2>1 DEF Kept
  <2>5. Head(todo["dump"]) # "free"
    <3>1. todo["dump"] # <<>> /\ todo["dump"] \in Seq(Steps)
      BY <1>3 DEF Reports, Handles, ListInv
    <3>2. Head(todo["dump"]) = todo["dump"][1] /\ 1 \in DOMAIN todo["dump"]
      BY <3>1
    <3> QED BY <2>2, <3>2 DEF LateInv, Holds
  <2>6. f \in InAtomic(Kinds)
    BY <2>2 DEF HoldInv, InAtomic, Atomic
  <2>7. \/ where'[d] = where[d] /\ (waits'[d] = waits[d] \/ f \in waits'[d])
        \/ where'[d] = "dump"
        \/ where'[d] = "rcu" /\ f \in waits'[d]
    <3>1. CASE Head(todo["dump"]) = "detach"
      <4>1. Move("in", "dump") /\ waits' = waits
        BY <1>3, <3>1 DEF Reports, Handles
      <4> QED BY <4>1 DEF Move
    <3>2. CASE Head(todo["dump"]) = "defer"
      <4>1. DeferredFree("dump")
        BY <1>3, <3>2 DEF Reports, Handles
      <4> QED BY <2>6, <4>1 DEF DeferredFree, Move
    <3>3. CASE Head(todo["dump"]) \notin {"detach", "free", "defer"}
      <4>1. where' = where /\ waits' = waits
        BY <1>3, <3>3 DEF Reports, Handles
      <4> QED BY <4>1
    <3> QED BY <2>5, <3>1, <3>2, <3>3
  <2>8. /\ where[d] \notin {"free", "dead"}
        /\ where[d] = "rcu" => f \in waits[d]
        /\ where[d] = "ctl" => Kept(f) \/ WaitsFirst(mon, ToDo)
    BY <2>2, <2>3 DEF GuardInv
  <2> QED BY <2>3, <2>4, <2>7, <2>8
<1>4. CASE \E d \in Descs : Callback(d) /\ Still
  <2>1. PICK d \in Descs : Callback(d) /\ Still
    BY <1>4
  <2>2. UNCHANGED <<mon, ptr, ToDo, waits>> /\ gp'["ctl"] = gp["ctl"]
    BY <2>1 DEF Callback, Still, Stays, flowVars
  <2>3. /\ where[d] = "rcu" /\ waits[d] = {}
        /\ \A e \in Descs : e # d => where'[e] = where[e]
    BY <2>1 DEF Callback
  <2>4. Wary(mon) => \A f \in Flows : ptr[f] # None => ptr[f] # d
    BY <2>3 DEF GuardInv
  <2>5. \A f \in Flows : Kept(f)' = Kept(f)
    BY <2>2 DEF Kept
  <2> QED BY <2>2, <2>3, <2>4, <2>5 DEF GuardInv
<1>5. CASE Still /\ UNCHANGED dataVars
  <2>1. UNCHANGED <<mon, ptr, where, waits, ToDo>> /\ gp'["ctl"] = gp["ctl"]
    BY <1>5 DEF Still, Stays, flowVars, dataVars
  <2> QED BY <2>1 DEF GuardInv, Kept
<1>6. CASE /\ Done \/ Activate \/ Deactivate \/ Exit \/ SetTest \/ SetAssign
           /\ UNCHANGED <<flowVars, dataVars>>
  <2>1. UNCHANGED <<mon, ptr, where, waits>>
    BY <1>6 DEF Done, Activate, Deactivate, Exit, SetTest, SetAssign, flowVars, dataVars, monVars
  <2>2. CASE Done \/ SetTest \/ SetAssign
    <3>1. UNCHANGED <<ToDo, gp>>
      BY <2>2 DEF Done, SetTest, SetAssign, ToDo
    <3> QED BY <2>1, <3>1 DEF GuardInv, Kept
  <2>3. CASE Activate \/ Deactivate \/ Exit
    <3>1. ToDo = <<>>
      BY <2>3 DEF Activate, Deactivate, Exit, Idle, ReqInv
    <3>2. \A d \in Descs : where[d] # "ctl"
      BY <3>1, NothingToDo DEF ListInv, ToDo, Requesters
    <3> QED BY <2>1, <3>2 DEF GuardInv
  <2> QED BY <1>6, <2>2, <2>3
<1> QED BY <1>1, <1>2, <1>3, <1>4, <1>5, <1>6, AllData

-----------------------------------------------------------------------------
(* What is in the tree.                                                    *)

\* The tree is empty, and nobody is left who would insert a descriptor.
Swept == Tree = {} /\ Quiet

\* Nothing is forgotten, and whatever has not been taken out of the tree will be
\* before the monitor, or the module, is gone.
SweepInv ==
  mon \notin Leaks =>
    /\ \A d \in Descs : where[d] # "lost"
    /\ Row.data = "none" => Tree = {}
    /\ IF phase = "on" THEN Holds(ToDo, "forget") => Swept ELSE ~Holds(ToDo, "forget")
    /\ Row.data # "none" =>
         /\ Sweeps(Row.off) /\ (Idle \/ Pending) /\ ~activated => Tree = {}
         /\ ~Sweeps(Row.off) /\ Pending => Sweeps(ToDo)
         /\ Sweeps(Row.off) /\ phase = "off" => Swept \/ Sweeps(ToDo)
         /\ phase = "exit" /\ ~Pending => Swept \/ Sweeps(ToDo)
         /\ phase = "gone" => Tree = {}

\* A handler that finds the tree empty and the monitor quiet leaves them so.
LEMMA SweptFlow ==
  ASSUME LifeInv, DataInv, mon \notin Leaks, Swept, NEW f \in Flows, Flowing(f)
  PROVE  Swept'
<1> USE DEF LifeInv, TypeInv, Swept, Tree
<1>1. RowSweeps(mon)
  BY LifeAssumption, RowsSweep
<1>2. hooks' = hooks /\ Callable \subseteq hooks \cup Timed
  BY FlowKinds, CallableKinds DEF monVars
<1>3. Quiet'
  <2>1. \A g \in Flows : pc'[g] # "out" =>
          (pc[g] # "out" /\ kind'[g] = kind[g]) \/ kind'[g] \in Callable
    BY FlowKinds
  <2> QED BY <1>2, <2>1 DEF Quiet, Lasting, Timed, Asked
<1>4. ASSUME NEW d \in Descs, where'[d] = "in" PROVE FALSE
  <2>1. where[d] # "in"
    OBVIOUS
  <2>2. Row.data # "none" /\ pc[f] = "work" /\ kind[f] \in Row.inserts
    BY <1>4, <2>1, FlowData
  <2>3. kind[f] \in Lasting /\ kind[f] \in RowKinds(mon)
    BY <2>2 DEF Quiet, KindInv, Runnable, Hooked, RowKinds, Row
  <2> QED BY <1>1, <2>2, <2>3 DEF RowSweeps, RowKinds, Row
<1> QED BY <1>3, <1>4

\* Only the activation of a monitor whose tree is empty forgets its tree, and no request
\* puts a descriptor into it.
LEMMA TreeShrinks ==
  ASSUME DataInv, NEW p \in Requesters, Handles(p)
  PROVE  /\ Tree' \subseteq Tree
         /\ Head(todo[p]) \in {"clean", "detach"} => Tree' = {}
         /\ \A d \in Descs : where'[d] = "lost" =>
              where[d] = "lost" \/ (Head(todo[p]) = "forget" /\ d \in Tree)
<1> USE DEF Tree, Requesters
<1>1. CASE Head(todo[p]) = "detach"
  BY <1>1 DEF Handles, Move
<1>2. CASE Head(todo[p]) = "free"
  BY <1>2 DEF Handles, Move
<1>3. CASE Head(todo[p]) = "defer"
  BY <1>3 DEF Handles, DeferredFree, Move
<1>4. CASE Head(todo[p]) = "clean"
  BY <1>4 DEF Handles, Move
<1>5. CASE Head(todo[p]) = "forget"
  BY <1>5 DEF Handles, Move
<1>6. CASE Head(todo[p]) \notin {"detach", "free", "defer", "clean", "forget"}
  BY <1>6 DEF Handles
<1> QED BY <1>1, <1>2, <1>3, <1>4, <1>5, <1>6

\* What has not been swept yet will be.
LEMMA SweepEnding ==
  ASSUME LifeInv, DataInv, mon \notin Leaks, Works, Handles("ctl"), Ending, Swept \/ Sweeps(ToDo)
  PROVE  Swept' \/ Sweeps(ToDo')
<1> USE DEF LifeInv, TypeInv
<1>1. /\ ToDo # <<>> /\ ToDo \in Seq(Steps) /\ UNCHANGED <<pc, kind>> /\ hooks' \subseteq hooks
      /\ phase \in {"off", "exit"}
  BY WorkStep DEF flowVars, Ending
<1>2. Quiet => Quiet'
  BY <1>1 DEF Quiet
<1>3. Tree' \subseteq Tree /\ (Head(ToDo) \in {"clean", "detach"} => Tree' = {})
  BY TreeShrinks DEF Requesters, ToDo
<1>4. CASE Swept
  BY <1>2, <1>3, <1>4 DEF Swept
<1>5. CASE Sweeps(ToDo) /\ Head(ToDo) \in {"clean", "detach"}
  <2>1. Quiet
    BY <1>5, DoneQuiet DEF Disposals
  <2> QED BY <1>2, <1>3, <1>5, <2>1 DEF Swept
<1>6. CASE Sweeps(ToDo) /\ Head(ToDo) \notin {"clean", "detach"}
  <2>1. ToDo' = Tail(ToDo) \/ ToDo' = <<"wait">> \o Tail(ToDo)
    BY WorkEnding
  <2> QED BY <1>1, <1>6, <2>1, Rest DEF Sweeps
<1> QED BY <1>4, <1>5, <1>6

\* When the exit of the module comes to its deactivation, that sweeps, or the exit does
\* afterwards, unless there is nothing to sweep.
LEMMA SweepOff ==
  ASSUME LifeInv, DataInv, SweepInv, mon \notin Leaks, Row.data # "none", Works, Handles("ctl"),
         Head(ToDo) = "off", Hurried \subseteq Sleepers
  PROVE  Swept' \/ Sweeps(ToDo')
<1> USE DEF LifeInv, TypeInv
<1>1. PICK t \in Seq(Steps) :
        /\ ToDo' = (IF activated THEN Row.off ELSE <<>>) \o t
        /\ \A x : Holds(ToDo, x) => x = "off" \/ Holds(t, x)
  BY OffExpands
<1>2. Pending /\ hooks' \subseteq hooks /\ Row.off \in Seq(Steps)
  BY OffExpands
<1>3. PICK w \in Seq(Steps) : w = IF activated THEN Row.off ELSE <<>>
  BY <1>2, NothingToDo
<1>4. Sweeps(w) \/ Sweeps(t) => Sweeps(ToDo')
  <2>1. \A x : Holds(w, x) \/ Holds(t, x) => Holds(w \o t, x)
    BY HoldsConcat
  <2> QED BY <1>1, <1>3, <2>1 DEF Sweeps
<1>5. CASE Sweeps(Row.off) /\ activated
  BY <1>3, <1>4, <1>5
<1>6. CASE Sweeps(Row.off) /\ ~activated
  <2>1. Tree = {} /\ Quiet
    BY <1>2, <1>6 DEF SweepInv, KindInv
  <2>2. UNCHANGED <<pc, kind>> /\ Tree' \subseteq Tree
    BY WorkStep, TreeShrinks DEF flowVars, Requesters
  <2> QED BY <1>2, <2>1, <2>2 DEF Swept, Quiet
<1>7. CASE ~Sweeps(Row.off)
  <2>1. Sweeps(ToDo)
    BY <1>2, <1>7 DEF SweepInv
  <2> QED BY <1>1, <1>4, <2>1 DEF Sweeps
<1> QED BY <1>5, <1>6, <1>7

\* A step of a request loses no descriptor.
LEMMA SweepWorks ==
  ASSUME LifeInv, DataInv, SweepInv, Works, Handles("ctl"), Hurried \subseteq Sleepers
  PROVE  SweepInv'
<1> USE DEF LifeInv, TypeInv
<1>1. /\ ToDo # <<>> /\ ToDo \in Seq(Steps) /\ UNCHANGED <<mon, phase>>
      /\ phase \in {"on", "off", "exit"} /\ Holds(ToDo, Head(ToDo))
  BY WorkStep
<1>2. Row' = Row /\ Idle' = Idle
  BY <1>1 DEF Row, Idle
<1>3. SUFFICES ASSUME mon \notin Leaks PROVE SweepInv'
  BY <1>1 DEF SweepInv
<1>4. /\ Tree' \subseteq Tree
      /\ \A d \in Descs : where'[d] = "lost" => where[d] = "lost"
                                                \/ (Head(ToDo) = "forget" /\ d \in Tree)
  BY TreeShrinks DEF Requesters, ToDo
<1>5. \A d \in Descs : where'[d] # "lost"
  <2>1. Head(ToDo) = "forget" => Tree = {}
    BY <1>1, <1>3 DEF SweepInv, Swept
  <2> QED BY <1>3, <1>4, <2>1 DEF SweepInv
<1>6. Row.data = "none" => Tree' = {}
  BY <1>3, <1>4 DEF SweepInv
<1>7. ~Holds(ToDo', "forget")
  <2>1. CASE Head(ToDo) = "off"
    BY <2>1, OffOrder
  <2>2. CASE Head(ToDo) # "off"
    <3>1. ToDo' = Tail(ToDo) \/ ToDo' = <<"wait">> \o Tail(ToDo)
      BY <2>2, WorkStep
    <3>2. CASE phase = "on"
      <4>1. \A i \in DOMAIN ToDo : ToDo[i] = "forget" => i = 1
        BY <3>2 DEF KindInv, Begins
      <4> QED BY <1>1, <3>1, <4>1, RestInOrder
    <3>3. CASE phase # "on"
      <4>1. ~Holds(ToDo, "forget")
        BY <1>3, <3>3 DEF SweepInv
      <4> QED BY <1>1, <3>1, <4>1, Rest
    <3> QED BY <3>2, <3>3
  <2> QED BY <2>1, <2>2
<1>8. SUFFICES ASSUME Row.data # "none"
               PROVE  /\ Sweeps(Row.off) /\ Pending' /\ ~activated' => Tree' = {}
                      /\ ~Sweeps(Row.off) /\ Pending' => Sweeps(ToDo')
                      /\ Sweeps(Row.off) /\ phase = "off" => Swept' \/ Sweeps(ToDo')
                      /\ phase = "exit" /\ ~Pending' => Swept' \/ Sweeps(ToDo')
  BY <1>1, <1>2, <1>5, <1>6, <1>7 DEF SweepInv, Idle
<1>9. CASE Pending'
  <2>1. /\ Head(ToDo) # "off" /\ Pending /\ phase = "exit"
    <3>1. Head(ToDo) # "off"
      BY <1>9, OffExpands
    <3>2. ToDo' = Tail(ToDo) \/ ToDo' = <<"wait">> \o Tail(ToDo)
      BY <3>1, WorkStep
    <3>3. Holds(ToDo', "off") /\ phase = "exit"
      BY <1>1, <1>9 DEF Pending
    <3> QED BY <1>1, <3>1, <3>2, <3>3, Rest DEF Pending
  <2>2. Head(ToDo) \in BeforeOff(mon)
    BY <2>1, ExitOrder DEF KindInv, Pending
  <2>3. activated' = activated
    BY <2>2 DEF Works, BeforeOff
  <2>4. Sweeps(ToDo) => Sweeps(ToDo')
    <3>1. ToDo' = Tail(ToDo) \/ ToDo' = <<"wait">> \o Tail(ToDo)
      BY <2>1, WorkStep
    <3>2. Head(ToDo) \notin {"clean", "detach"}
      BY <2>2 DEF BeforeOff
    <3> QED BY <1>1, <3>1, <3>2, Rest DEF Sweeps
  <2> QED BY <1>3, <1>4, <1>8, <1>9, <2>1, <2>3, <2>4 DEF SweepInv
<1>10. CASE phase = "exit" /\ ~Pending'
  <2>1. CASE Head(ToDo) = "off"
    BY <1>3, <1>8, <1>10, <2>1, SweepOff
  <2>2. CASE Head(ToDo) # "off"
    <3>1. ~Pending
      <4>1. ToDo' = Tail(ToDo) \/ ToDo' = <<"wait">> \o Tail(ToDo)
        BY <2>2, WorkStep
      <4>2. ~Holds(ToDo', "off")
        BY <1>1, <1>10 DEF Pending
      <4> QED BY <1>1, <2>2, <4>1, <4>2, Rest DEF Pending
    <3>2. mon \notin NeverExits
      BY <1>3, <1>8, LifeAssumption, RowsSweep DEF RowSweeps, Row
    <3>3. Ending /\ (Swept \/ Sweeps(ToDo))
      BY <1>3, <1>8, <1>10, <3>1, <3>2 DEF SweepInv, Ending
    <3>4. Swept' \/ Sweeps(ToDo')
      BY <1>3, <3>3, SweepEnding
    <3> QED BY <1>10, <3>4
  <2> QED BY <2>1, <2>2
<1>11. CASE phase = "off"
  <2>1. ~Pending'
    BY <1>1, <1>11 DEF Pending
  <2>2. ASSUME Sweeps(Row.off) PROVE Swept' \/ Sweeps(ToDo')
    <3>1. Ending /\ (Swept \/ Sweeps(ToDo))
      BY <1>3, <1>8, <1>11, <2>2 DEF SweepInv, Ending
    <3> QED BY <1>3, <3>1, SweepEnding
  <2> QED BY <1>11, <2>1, <2>2
<1>12. CASE phase = "on"
  BY <1>1, <1>12 DEF Pending
<1> QED BY <1>1, <1>9, <1>10, <1>11, <1>12

\* No step of the system loses a descriptor.
LEMMA SweepNext ==
  ASSUME LifeInv, DataInv, ListInv, SweepInv, [Next]_vars, OneOperator, Hurried \subseteq Sleepers
  PROVE  SweepInv'
<1> USE DEF LifeInv, TypeInv
<1>0. RowOK(mon) /\ RowSweeps(mon)
  BY RowIsOK, LifeAssumption, RowsSweep
<1>1. CASE \E f \in Flows : Flowing(f)
  <2>1. PICK f \in Flows : Flowing(f)
    BY <1>1
  <2>2. UNCHANGED <<mon, phase, activated, hooks, ToDo>>
    BY <2>1, FlowKinds DEF monVars, reqVars
  <2>3. UNCHANGED <<Row, Idle, Pending>>
    BY <2>2 DEF Row, Idle, Pending
  <2>4. SUFFICES ASSUME mon \notin Leaks PROVE SweepInv'
    BY <2>2 DEF SweepInv
  <2>5. Swept => Swept'
    BY <2>1, <2>4, SweptFlow
  <2>6. \A d \in Descs : where'[d] # "lost"
    BY <2>1, <2>4, FlowData DEF SweepInv
  <2>7. Row.data = "none" => Tree' = {}
    <3>1. Row.data = "none" => \A d \in Descs : where'[d] = "in" => where[d] = "in"
      BY <2>1, FlowData
    <3> QED BY <2>4, <3>1 DEF SweepInv, Tree
  <2>8. ASSUME Row.data # "none", Sweeps(Row.off), Idle \/ Pending, ~activated
        PROVE  Tree' = {}
    <3>1. Swept
      BY <2>4, <2>8 DEF SweepInv, KindInv, Swept
    <3> QED BY <2>5, <3>1 DEF Swept
  <2>9. ASSUME Row.data # "none", phase = "gone"
        PROVE  Tree' = {}
    <3>1. Quiet
      BY <1>0, <2>4, <2>9 DEF KindInv, RowSweeps, Row
    <3>2. Tree = {}
      BY <2>4, <2>9 DEF SweepInv
    <3> QED BY <2>5, <3>1, <3>2 DEF Swept
  <2> QED BY <2>2, <2>3, <2>4, <2>5, <2>6, <2>7, <2>8, <2>9 DEF SweepInv
<1>2. CASE Works /\ Handles("ctl")
  BY <1>2, SweepWorks
<1>3. CASE Still /\ Tree' \subseteq Tree /\ \A d \in Descs : where'[d] = "lost" => where[d] = "lost"
  <2>1. UNCHANGED <<mon, phase, activated, pc, kind, ToDo>> /\ hooks' \subseteq hooks \cup Asked
    BY <1>3 DEF Still, Stays, flowVars, Asked
  <2>2. UNCHANGED <<Row, Idle, Pending>> /\ (Quiet => Quiet')
    BY <2>1 DEF Row, Idle, Pending, Quiet
  <2>3. Tree = {} => Tree' = {}
    BY <1>3
  <2> QED BY <1>3, <2>1, <2>2, <2>3 DEF SweepInv, Swept
<1>4. CASE Reports
  <2>1. Head(todo["dump"]) # "forget" /\ Handles("dump")
    BY <1>4 DEF Reports
  <2>2. Tree' \subseteq Tree /\ \A d \in Descs : where'[d] = "lost" => where[d] = "lost"
    BY <2>1, TreeShrinks DEF Requesters
  <2> QED BY <1>3, <1>4, <2>2 DEF Reports
<1>5. CASE \E d \in Descs : Callback(d) /\ Still
  <2>1. Tree' \subseteq Tree /\ \A d \in Descs : where'[d] = "lost" => where[d] = "lost"
    BY <1>5 DEF Callback, DataInv, Tree
  <2> QED BY <1>3, <1>5, <2>1
<1>6. CASE Still /\ UNCHANGED dataVars
  <2>1. Tree' \subseteq Tree /\ \A d \in Descs : where'[d] = "lost" => where[d] = "lost"
    BY <1>6 DEF dataVars, Tree
  <2> QED BY <1>3, <1>6, <2>1
<1>7. CASE /\ Done \/ Activate \/ Deactivate \/ Exit \/ SetTest \/ SetAssign
           /\ UNCHANGED <<flowVars, dataVars>>
  <2>1. UNCHANGED <<mon, where, Tree, pc, kind, hooks>>
    BY <1>7 DEF Done, Activate, Deactivate, Exit, SetTest, SetAssign,
           flowVars, dataVars, monVars, Tree
  <2>2. UNCHANGED <<Row, Quiet>>
    BY <2>1 DEF Row, Quiet
  <2>3. SUFFICES ASSUME mon \notin Leaks PROVE SweepInv'
    BY <2>1 DEF SweepInv
  <2>4. CASE SetTest \/ SetAssign
    <3>1. UNCHANGED <<phase, ToDo>>
      BY <2>4 DEF SetTest, SetAssign, ToDo
    <3>2. UNCHANGED <<Idle, Pending>>
      BY <3>1 DEF Idle, Pending
    <3>3. ~activated' => ~activated
      BY <2>4 DEF SetTest, SetAssign, monVars, ReqInv
    <3> QED BY <2>1, <2>2, <3>1, <3>2, <3>3 DEF SweepInv, Swept
  <2>5. CASE Done
    <3>1. /\ ToDo = <<>> /\ ToDo' = <<>> /\ ~Holds(ToDo', "forget")
          /\ ~Sweeps(ToDo) /\ ~Pending /\ ~Pending'
      BY <2>5, NothingToDo DEF Done, ToDo, Sweeps, Pending
    <3>2. \/ phase = "on" /\ phase' = "idle" /\ activated'
          \/ phase = "off" /\ phase' = "idle"
          \/ phase = "exit" /\ phase' = "gone"
      BY <2>5 DEF Done
    <3>3. ASSUME Row.data # "none", phase = "exit" PROVE Tree = {}
      BY <2>3, <3>1, <3>3 DEF SweepInv, Swept
    <3>4. ASSUME Row.data # "none", phase = "off", Sweeps(Row.off) PROVE Tree = {}
      BY <2>3, <3>1, <3>4 DEF SweepInv, Swept
    <3> QED BY <2>1, <2>2, <2>3, <3>1, <3>2, <3>3, <3>4 DEF SweepInv, Idle
  <2>6. CASE Activate
    <3>1. ToDo' = Row.on /\ phase' = "on" /\ Idle /\ ~activated
      BY <2>6 DEF Activate, Begin, ToDo
    <3>2. Quiet
      BY <3>1 DEF KindInv
    <3>3. Holds(Row.on, "forget") => Tree = {}
      BY <1>0, <2>3, <3>1 DEF RowSweeps, SweepInv, Row
    <3> QED BY <2>1, <2>2, <2>3, <3>1, <3>2, <3>3 DEF SweepInv, Swept, Idle, Pending
  <2>7. CASE Deactivate
    <3>1. ToDo' = Row.off /\ phase' = "off"
      BY <2>7 DEF Deactivate, Begin, ToDo
    <3>2. ~Holds(Row.off, "forget")
      BY <1>0 DEF RowOK, Ends, Row, Holds
    <3> QED BY <2>1, <2>2, <2>3, <3>1, <3>2 DEF SweepInv, Idle, Pending
  <2>8. CASE Exit
    <3>1. ToDo' = ExitSteps(mon) /\ phase' = "exit" /\ Idle /\ activated' = activated
      BY <2>8, ExitPends DEF monVars
    <3>2. ~Holds(ToDo', "forget") /\ (mon \notin NeverExits => Holds(ToDo', "off"))
      BY <1>0, <3>1 DEF RowOK, Exits, Holds
    <3>3. ASSUME Row.data # "none"
          PROVE  /\ Pending'
                 /\ Sweeps(Row.off) \/ Sweeps(ToDo')
                 /\ Sweeps(Row.off) /\ ~activated => Tree = {}
      BY <1>0, <2>3, <3>1, <3>2, <3>3 DEF RowSweeps, Row, Pending, SweepInv
    <3> QED BY <2>1, <2>2, <2>3, <3>1, <3>2, <3>3 DEF SweepInv, Idle
  <2> QED BY <1>7, <2>4, <2>5, <2>6, <2>7, <2>8
<1> QED BY <1>1, <1>2, <1>4, <1>5, <1>6, <1>7, AllData

-----------------------------------------------------------------------------
(* The theorems.                                                           *)

\* Every variable of the life of a monitor has its type, whatever is requested when:
\* in particular diag_nr_running, which handlers count up and down without a test,
\* is never negative, because it is the number of those that have counted themselves.
THEOREM TypeCorrect == Spec => []TypeOK
<1>1. Init => TypeInv /\ CountInv /\ DataInv
  BY InitLife DEF LifeInv, DataInv, Init, Requesters, Places
<1>2. TypeInv /\ CountInv /\ DataInv /\ [Next]_vars => (TypeInv /\ CountInv /\ DataInv)'
  BY TypeNext, CountNext, DataNext
<1>3. TypeInv /\ CountInv /\ DataInv => TypeOK
  <2>1. IsFiniteSet(CountedFlows)
    BY LifeAssumption, FS_Subset DEF CountedFlows
  <2>2. CountInv => running \in Nat
    BY <2>1, FS_CardinalityType DEF CountInv
  <2> QED BY <2>2 DEF TypeInv, DataInv, TypeOK, Requesters, Places
<1> QED BY <1>1, <1>2, <1>3, PTL DEF Spec

\* Provided that msleep outlasts the handlers of the monitors that rely on it
\* alone, and that no SET overtakes another request, enough of the deactivation is
\* left at every moment for what is still hooked and for what still runs.
THEOREM AlwaysLifeInv ==
  ASSUME OneOperator, Hurried \subseteq Sleepers
  PROVE  Spec => []LifeInv
<1>1. ASSUME LifeInv, [Next]_vars
      PROVE  LifeInv'
  BY <1>1, TypeNext, CountNext, ReqNext, KindNext, HookNext, FlowNext, TimerNext, AskNext
     DEF LifeInv
<1> QED BY InitLife, <1>1, PTL DEF Spec

\* What descriptors, lists and the buffer depend on, in addition.
DataLifeInv ==
  DataInv /\ ListInv /\ BufferInv /\ HoldInv /\ LateInv /\ GuardInv /\ SweepInv

\* It holds at first.
LEMMA InitDataLife == Init => DataLifeInv
<1> SUFFICES ASSUME Init PROVE DataLifeInv
  OBVIOUS
<1>1. ToDo = <<>> /\ todo["dump"] = <<>> /\ Tree = {} /\ phase = "idle"
  BY DEF Init, ToDo, Tree
<1>2. DataInv
  BY DEF DataInv, Init, Requesters, Places
<1>3. ListInv
  BY <1>1, NothingToDo DEF Init, ListInv, Requesters, ToDo
<1>4. BufferInv
  BY <1>1, NothingToDo DEF Init, BufferInv, BufferOutlivesHandlers
<1>7. HoldInv /\ GuardInv
  BY <1>1 DEF Init, HoldInv, GuardInv
<1>5. LateInv
  BY <1>1, NothingToDo DEF LateInv, FreedLate
<1>6. SweepInv
  BY <1>1, NothingToDo DEF Init, SweepInv, Pending
<1> QED BY <1>2, <1>3, <1>4, <1>5, <1>6, <1>7 DEF DataLifeInv

\* Under the same two conditions: what is taken out of a tree is disposed of in time and
\* not too early.
THEOREM AlwaysDataLifeInv ==
  ASSUME OneOperator, Hurried \subseteq Sleepers
  PROVE  Spec => []DataLifeInv
<1>1. ASSUME LifeInv, DataLifeInv, [Next]_vars
      PROVE  DataLifeInv'
  <2> USE <1>1 DEF DataLifeInv
  <2>1. TypeInv
    BY DEF LifeInv
  <2>2. DataInv' /\ ListInv' /\ BufferInv' /\ HoldInv'
    BY <2>1, DataNext, ListNext, BufferNext, HoldNext
  <2>3. LateInv' /\ GuardInv' /\ SweepInv'
    BY LateNext, GuardNext, SweepNext
  <2> QED BY <2>2, <2>3
<1> QED BY InitDataLife, AlwaysLifeInv, <1>1, PTL DEF Spec

\* Every monitor, with either style, however often it is activated and however
\* many handlers there are: when a deactivation has returned nothing is hooked, and no
\* handler is inside, but for commands, the uprobes they hook and the per-CPU timers.
THEOREM AlwaysQuiet ==
  ASSUME OneOperator, Hurried \subseteq Sleepers
  PROVE  Spec => []QuietOnceOff
<1>1. LifeInv => QuietOnceOff
  BY DEF LifeInv, KindInv, Quiet, QuietOnceOff, Asked, Lasting
<1> QED BY <1>1, AlwaysLifeInv, PTL

\* When the module is gone, no handler of a monitor whose exit function it calls is left
\* in its text or can still be called, not even from the per-CPU timers.
THEOREM AlwaysTextOutlives ==
  ASSUME OneOperator, Hurried \subseteq Sleepers
  PROVE  Spec => []TextOutlivesHandlers
<1>1. ASSUME LifeInv, phase = "gone", mon \notin NeverExits
      PROVE  Callable = {} /\ \A f \in Flows : pc[f] = "out"
  <2> USE <1>1 DEF LifeInv
  <2>1. Quiet /\ ToDo = <<>> /\ ~timers
    BY DEF KindInv, ReqInv, TimerInv, TypeInv
  <2>2. hooks = {} /\ \A f \in Flows : pc[f] = "out" \/ kind[f] \notin Asked
    BY <2>1 DEF AskInv, Pending, Quiet
  <2>3. Callable = {}
    BY <2>1, <2>2 DEF Callable
  <2>4. \A f \in Flows : pc[f] = "out" \/ kind[f] \notin Timed
    BY <2>1 DEF TimerInv, Kept
  <2> QED BY <2>1, <2>2, <2>3, <2>4 DEF Quiet, Lasting, Timed, Asked
<1>2. LifeInv => TextOutlivesHandlers
  BY <1>1 DEF TextOutlivesHandlers
<1> QED BY <1>2, AlwaysLifeInv, PTL

\* A handler of a monitor that does not exit backwards writes its record into a buffer
\* that is there, although the exit of the module destroys it.
THEOREM AlwaysBuffered ==
  ASSUME OneOperator, Hurried \subseteq Sleepers
  PROVE  Spec => []BufferOutlivesHandlers
<1>1. DataLifeInv => BufferOutlivesHandlers
  BY DEF DataLifeInv, BufferInv
<1> QED BY <1>1, AlwaysDataLifeInv, PTL

\* But for the monitors of FreesInUse: no handler uses a descriptor that its monitor has
\* freed, with kfree after a grace period, through call_rcu, or in a deactivation or exit that has waited for all handlers.
THEOREM AlwaysAllocated ==
  ASSUME OneOperator, Hurried \subseteq Sleepers
  PROVE  Spec => []NoUseAfterFree
<1>1. ASSUME DataLifeInv, mon \notin FreesInUse, NEW f \in Flows, ptr[f] # None
      PROVE  where[ptr[f]] # "dead"
  BY <1>1 DEF DataLifeInv, HoldInv, GuardInv, Wary, Row
<1>2. DataLifeInv => NoUseAfterFree
  BY <1>1 DEF NoUseAfterFree
<1> QED BY <1>2, AlwaysDataLifeInv, PTL

\* When the module is gone, nothing that the handlers of a monitor that does not leak have
\* put into a tree is still there, on a list or forgotten.
THEOREM AlwaysDisposed ==
  ASSUME OneOperator, Hurried \subseteq Sleepers
  PROVE  Spec => []NothingLost
<1>1. ASSUME LifeInv, DataLifeInv, phase = "gone", mon \notin Leaks, NEW d \in Descs
      PROVE  where[d] \notin {"in", "ctl", "dump", "lost"}
  <2> USE <1>1 DEF LifeInv, DataLifeInv
  <2>1. todo["ctl"] = <<>> /\ todo["dump"] = <<>>
    BY DEF ReqInv, ListInv, ToDo
  <2>2. where[d] \notin {"ctl", "dump"}
    BY <2>1, NothingToDo DEF ListInv, Requesters
  <2>3. where[d] \notin {"in", "lost"}
    BY DEF SweepInv, Tree
  <2> QED BY <2>2, <2>3
<1>2. LifeInv /\ DataLifeInv => NothingLost
  BY <1>1 DEF NothingLost
<1> QED BY <1>2, AlwaysLifeInv, AlwaysDataLifeInv, PTL

=============================================================================
