--------------------------- MODULE LoadAlarm_proof ---------------------------
(***************************************************************************)
(* Proofs about LoadAlarm, for any CPUs, loads, thresholds and period.     *)
(*                                                                         *)
(* Every record rests on two facts about the timers' shared state: between *)
(* two updates of the load the flag says whether some CPU has already seen *)
(* the overload (FlagInv), and last_dump is the time of the last record of *)
(* the present activation or 0 (DumpInv).                                  *)
(***************************************************************************)
EXTENDS LoadAlarm, TLAPS

USE CpusAssumption, NumbersAssumption

-----------------------------------------------------------------------------
(* Types.                                                                  *)

Steps == {"idle", "mark", "note", "gate", "limit", "emit"}

\* The clock starts at the period, so that 0 is a time that is long past.
TypeInv == TypeOK /\ now >= Period

LEMMA TypeInit == Init => TypeInv
<1> SUFFICES ASSUME Init PROVE TypeInv
  OBVIOUS
<1> USE DEF Init, NeverReported
<1>1. now \in Nat /\ now >= Period /\ load \in Loads
  OBVIOUS
<1>2. badTime \in 0..now /\ lastDump \in 0..now /\ began \in 0..now /\ reported \in 0..now
  BY <1>1
<1>3. pc \in [Cpus -> Steps] /\ checked \subseteq Cpus
  BY DEF Steps
<1> QED BY <1>1, <1>2, <1>3 DEF TypeInv, TypeOK, Steps

LEMMA TypeNext == TypeInv /\ [Next]_vars => TypeInv'
<1> SUFFICES ASSUME TypeInv, [Next]_vars PROVE TypeInv'
  OBVIOUS
<1> USE DEF TypeInv, TypeOK, settings, detail, ghosts, NeverReported
<1>1. CASE LoadUpdate
  <2>1. now' \in Nat /\ now' >= Period /\ 0..now \subseteq 0..now' /\ load' \in Loads
    BY <1>1 DEF LoadUpdate
  <2>2. began' \in 0..now'
    BY <1>1, <2>1 DEF LoadUpdate
  <2> QED BY <1>1, <2>1, <2>2 DEF LoadUpdate
<1>2. CASE Set \/ Activate
  <2>1. 0 \in 0..now /\ now \in 0..now
    OBVIOUS
  <2> QED BY <1>2, <2>1 DEF Set, Activate
<1>3. CASE Deactivate \/ Deactivated
  <2>1. 0 \in 0..now
    OBVIOUS
  <2> QED BY <1>3, <2>1 DEF Deactivate, Deactivated, DumpReset
<1>4. ASSUME NEW c \in Cpus, Timer(c) PROVE TypeInv'
  <2>1. CASE Test(c)
    BY <2>1 DEF Test, FlagBelow, Goto
  <2>2. CASE Mark(c) \/ Note(c)
    <3>1. now \in 0..now
      OBVIOUS
    <3> QED BY <2>2, <3>1 DEF Mark, Note, Goto
  <2>3. CASE Gate(c) \/ Skip(c)
    BY <1>4, <2>3 DEF Gate, Skip, Goto, Done
  <2>4. CASE Claim(c) \/ Emit(c)
    BY <1>4, <2>4 DEF Claim, Emit, Goto, Done
  <2> QED BY <1>4, <2>1, <2>2, <2>3, <2>4 DEF Timer
<1>5. CASE UNCHANGED vars
  BY <1>5 DEF vars
<1> QED BY <1>1, <1>2, <1>3, <1>4, <1>5 DEF Next

\* Every variable has its type: no time that is kept lies in the future.
THEOREM TypeCorrect == Spec => []TypeOK
<1>1. TypeInv => TypeOK
  BY DEF TypeInv
<1> QED BY TypeInit, TypeNext, <1>1, PTL DEF Spec

-----------------------------------------------------------------------------
(* The bad time.                                                           *)

High == load >= threshold

\* Since the threshold was set and first seen not to be reached: while the load is
\* below it the flag is only up until the first timer has looked; while it is reached
\* the flag is up as soon as one timer has been through its test, and until the time
\* is written the overload has begun with the present load.
FlagInv ==
  armed =>
    /\ ~High => ~Marking /\ (flag => \A c \in Cpus : pc[c] = "idle" /\ c \notin checked)
    /\ High =>
         /\ \A c \in Cpus : c \in checked \/ pc[c] \in {"note", "gate", "limit", "emit"} => flag
         /\ flag /\ ~Marking => badTime = began
         /\ ~flag \/ Marking => began = now

LEMMA FlagNext == TypeInv /\ FlagInv /\ [Next]_vars => FlagInv'
<1> SUFFICES ASSUME TypeInv, FlagInv, [Next]_vars PROVE FlagInv'
  OBVIOUS
<1> USE DEF TypeInv, TypeOK, FlagInv, High, Marking, settings, detail, ghosts
<1>1. CASE LoadUpdate
  BY <1>1 DEF LoadUpdate
<1>2. CASE Set \/ Deactivate
  BY <1>2 DEF Set, Deactivate
<1>3. CASE Activate \/ Deactivated
  BY <1>3 DEF Activate, Deactivated
<1>4. ASSUME NEW c \in Cpus, Timer(c) PROVE FlagInv'
  <2>1. CASE Test(c)
    BY <2>1 DEF Test, FlagBelow, Goto
  <2>2. CASE Mark(c)
    BY <2>2 DEF Mark, Goto
  <2>3. CASE Note(c)
    BY <2>3 DEF Note, Goto
  <2>4. CASE Gate(c)
    BY <2>4 DEF Gate, Goto
  <2>5. CASE Skip(c)
    BY <2>5 DEF Skip, Goto, Done
  <2>6. CASE Claim(c)
    BY <2>6 DEF Claim, Goto
  <2>7. CASE Emit(c)
    BY <2>7 DEF Emit, Goto, Done
  <2> QED BY <1>4, <2>1, <2>2, <2>3, <2>4, <2>5, <2>6, <2>7 DEF Timer
<1>5. CASE UNCHANGED vars
  BY <1>5 DEF vars
<1> QED BY <1>1, <1>2, <1>3, <1>4, <1>5 DEF Next

\* A record shows when the overload began, once a timer has seen the load below the
\* threshold that was set, and but for the moment in which another CPU's timer has set
\* load_flag and not yet written the time.
THEOREM BadTimeAlwaysLatest == Spec => BadTimeIsLatestOnceArmed
<1> DEFINE Right == \A c \in Cpus : Emit(c) /\ armed /\ ~Marking /\ load >= threshold
                                      => badTime = began
<1>1. FlagInv => Right
  BY DEF FlagInv, High, Emit
<1>2. Init => FlagInv
  BY DEF Init, FlagInv
<1> QED BY TypeInit, TypeNext, <1>1, <1>2, FlagNext, PTL DEF Spec, BadTimeIsLatestOnceArmed

-----------------------------------------------------------------------------
(* The rate of the records.                                                *)

\* Only CPU 0 of an active monitor gets to the rate limit; last_dump is the time of the
\* last record of this activation, and none is older than a period when CPU 0 has
\* looked at an overload.
DumpInv ==
  /\ \A c \in Cpus : pc[c] \in {"limit", "emit"} => c = Cpu0 /\ activated /\ ~closing
  /\ lastDump # 0 => activated /\ ~closing
  /\ activated /\ ~closing => reported = lastDump
  /\ closing => threshold = 0
  /\ pc[Cpu0] = "emit" => reported = now
  /\ activated /\ ~closing /\ Cpu0 \in checked /\ threshold # 0 /\ High =>
       reported # NeverReported /\ now - reported < Period

LEMMA DumpNext ==
  ASSUME ~LateTimers
  PROVE  TypeInv /\ DumpInv /\ [Next]_vars => DumpInv'
<1> SUFFICES ASSUME TypeInv, DumpInv, [Next]_vars PROVE DumpInv'
  OBVIOUS
<1> USE DEF TypeInv, TypeOK, DumpInv, High, NeverReported, settings, detail, ghosts
<1>1. CASE LoadUpdate
  BY <1>1 DEF LoadUpdate
<1>2. CASE Set
  BY <1>2 DEF Set
<1>3. CASE Activate
  BY <1>3 DEF Activate
<1>4. CASE Deactivate
  BY <1>4 DEF Deactivate, DumpReset
<1>5. CASE Deactivated
  BY <1>5 DEF Deactivated
<1>6. ASSUME NEW c \in Cpus, Timer(c) PROVE DumpInv'
  <2>1. CASE Test(c)
    BY <2>1 DEF Test, Goto
  <2>2. CASE Mark(c) \/ Note(c)
    BY <2>2 DEF Mark, Note, Goto
  <2>3. CASE Gate(c)
    BY <2>3 DEF Gate, Goto, Alarmed, Scare
  <2>4. CASE Skip(c)
    BY <2>4 DEF Skip, Goto, Done, Alarmed, Scare, Due
  <2>5. CASE Claim(c)
    BY <2>5 DEF Claim, Goto
  <2>6. CASE Emit(c)
    BY <2>6 DEF Emit, Goto, Done
  <2> QED BY <1>6, <2>1, <2>2, <2>3, <2>4, <2>5, <2>6 DEF Timer
<1>7. CASE UNCHANGED vars
  BY <1>7 DEF vars
<1> QED BY <1>1, <1>2, <1>3, <1>4, <1>5, <1>6, <1>7 DEF Next

LEMMA DumpInit == Init => DumpInv
BY DEF Init, DumpInv, NeverReported

\* An overload is reported at once and again in every period, whatever the activations
\* before it, provided that no timer is overtaken by a deactivation.
THEOREM AlwaysAlarmsInTime ==
  ASSUME ~LateTimers
  PROVE  Spec => []AlarmInTime
<1>1. DumpInv => AlarmInTime
  BY DEF DumpInv, AlarmInTime, High
<1> QED BY TypeInit, TypeNext, DumpInit, DumpNext, <1>1, PTL DEF Spec

\* Two records of one activation are a period apart, under the same condition.
THEOREM NeverTooOften ==
  ASSUME ~LateTimers
  PROVE  Spec => NotTooOften
<1> DEFINE Apart == \A c \in Cpus : Claim(c) =>
                      reported = NeverReported \/ now - reported >= Period
<1>1. DumpInv => Apart
  BY DEF DumpInv, Claim, Due
<1> QED BY TypeInit, TypeNext, DumpInit, DumpNext, <1>1, PTL DEF Spec, NotTooOften
=============================================================================
