------------------------------ MODULE LoadAlarm ------------------------------
(***************************************************************************)
(* The alarm of load-monitor, kernel/load.c: the timer that every CPU runs *)
(* all ten milliseconds looks at the load; when the load has reached a     *)
(* threshold, CPU 0 emits a record with the time at which that began, the  *)
(* bad time, and then none for ten seconds.                                *)
(*                                                                         *)
(* The kernel updates the load every five seconds, which is the clock of   *)
(* this module: between two updates every CPU runs its timer.  The timers  *)
(* of the CPUs share one flag and one record and take no lock.             *)
(***************************************************************************)
EXTENDS Integers

CONSTANTS
  Cpus, Cpu0,   \* the CPUs, and the one that emits
  Loads,        \* values of the one-minute load average
  Thresholds,   \* values given to SET as threshold_load
  OtherAlarm,   \* another of the thresholds is set, and its load reaches it
  LateTimers,   \* a timer may be between its tests while the thresholds are cleared
  Period,       \* ten seconds, in updates of the load
  MaxUpdates    \* bound on the number of updates

ASSUME CpusAssumption == Cpu0 \in Cpus
ASSUME NumbersAssumption ==
  /\ Loads \subseteq Nat /\ Thresholds \subseteq Nat
  /\ Period \in Nat \ {0} /\ MaxUpdates \in Nat /\ OtherAlarm \in BOOLEAN
  /\ LateTimers \in BOOLEAN

VARIABLES
  now,        \* number of updates since boot
  load,       \* avenrun[0]
  activated,  \* load_monitor_settings.activated
  threshold,  \* load_monitor_settings.threshold_load
  closing,    \* __deactivate_load_monitor has cleared the thresholds
  flag,       \* load_flag
  badTime,    \* detail.bad_time
  lastDump,   \* last_dump, 0 when it was reset
  pc,         \* per CPU: where diag_load_timer is
  checked,    \* the CPUs that ran it since the last update or activation
  began,      \* when the load reached the threshold, if it is there
  armed,      \* a timer saw the load below the threshold set last, no other marking
  reported    \* when the last record of this activation was begun

NeverReported == 0
settings == <<activated, threshold, closing>>
detail == <<flag, badTime>>
ghosts == <<began, armed, reported>>
vars == <<now, load, activated, threshold, closing, flag, badTime, lastDump, pc,
          checked, began, armed, reported>>

Init ==
  /\ now = Period /\ load \in Loads
  /\ activated = FALSE /\ threshold = 0 /\ closing = FALSE
  /\ flag = FALSE /\ badTime = 0 /\ lastDump = 0
  /\ pc = [c \in Cpus |-> "idle"] /\ checked = {}
  /\ began = now /\ armed = FALSE /\ reported = NeverReported

\* The scheduler's update, five seconds after the last one.
LoadUpdate ==
  /\ checked = Cpus /\ \A c \in Cpus : pc[c] = "idle"
  /\ now < Period + MaxUpdates
  /\ now' = now + 1
  /\ load' \in Loads
  /\ began' = IF load >= threshold THEN began ELSE now'
  /\ checked' = {}
  /\ UNCHANGED <<settings, detail, lastDump, pc, armed, reported>>

-----------------------------------------------------------------------------
(* diag_load_timer, in the timer interrupt of CPU c.                       *)

Goto(c, step) == pc' = [pc EXCEPT ![c] = step]
Done(c) == Goto(c, "idle") /\ checked' = checked \cup {c}

\* Mutant: the flag is not cleared when the load has fallen.
MutFlagBelow == flag
FlagBelow == FALSE

\* A timer is between its test of load_flag and the end of what that leads to.
Marking == \E c \in Cpus : pc[c] \in {"mark", "note"}

\* The test of load_flag comes before every test of the settings, on all CPUs.
Test(c) ==
  /\ pc[c] = "idle"
  /\ flag' = IF load < threshold THEN FlagBelow ELSE flag
  /\ armed' = (armed \/ (load < threshold /\ ~Marking))
  /\ Goto(c, IF load >= threshold /\ ~flag THEN "mark" ELSE "gate")
  /\ UNCHANGED <<now, load, settings, badTime, lastDump, checked, began, reported>>

Mark(c) ==
  /\ pc[c] = "mark"
  /\ flag' = TRUE
  /\ Goto(c, "note")
  /\ UNCHANGED <<now, load, settings, badTime, lastDump, checked, ghosts>>

Note(c) ==
  /\ pc[c] = "note"
  /\ badTime' = now
  /\ Goto(c, "gate")
  /\ UNCHANGED <<now, load, settings, flag, lastDump, checked, ghosts>>

Scare == (threshold # 0 /\ load >= threshold) \/ (OtherAlarm /\ ~closing)
Alarmed(c) == activated /\ c = Cpu0 /\ Scare

\* Mutant: the time since the last record is compared with "<=".
MutDue == now - lastDump > Period
Due == now - lastDump >= Period

Gate(c) ==
  /\ pc[c] = "gate" /\ Alarmed(c)
  /\ Goto(c, "limit")
  /\ UNCHANGED <<now, load, settings, detail, lastDump, checked, ghosts>>

Skip(c) ==
  /\ (pc[c] = "gate" /\ ~Alarmed(c)) \/ (pc[c] = "limit" /\ ~Due)
  /\ Done(c)
  /\ UNCHANGED <<now, load, settings, detail, lastDump, ghosts>>

Claim(c) ==
  /\ pc[c] = "limit" /\ Due
  /\ lastDump' = now /\ reported' = now
  /\ Goto(c, "emit")
  /\ UNCHANGED <<now, load, settings, detail, checked, began, armed>>

\* The record is written to the buffer, with detail.bad_time as it is now.
Emit(c) ==
  /\ pc[c] = "emit"
  /\ Done(c)
  /\ UNCHANGED <<now, load, settings, detail, lastDump, ghosts>>

-----------------------------------------------------------------------------
(* Requests, one after the other.                                          *)

Set ==
  /\ ~activated /\ ~closing
  /\ threshold' \in Thresholds
  /\ began' = now /\ armed' = FALSE
  /\ UNCHANGED <<now, load, activated, closing, detail, lastDump, pc, checked, reported>>

Activate ==
  /\ ~activated /\ ~closing
  /\ activated' = TRUE
  /\ checked' = {}
  /\ reported' = NeverReported
  /\ UNCHANGED <<now, load, threshold, closing, detail, lastDump, pc, began, armed>>

\* Mutant: last_dump keeps its value.
MutDumpReset == lastDump
DumpReset == 0

\* The thresholds and last_dump are cleared while activated is still set.  The
\* wait for timers that are running, synchronize_sched and msleep, comes before
\* that, so one that starts after it can be overtaken.
Deactivate ==
  /\ activated /\ ~closing
  /\ LateTimers \/ \A c \in Cpus : pc[c] = "idle"
  /\ closing' = TRUE
  /\ threshold' = 0 /\ lastDump' = DumpReset
  /\ armed' = FALSE
  /\ UNCHANGED <<now, load, activated, detail, pc, checked, began, reported>>

Deactivated ==
  /\ closing
  /\ activated' = FALSE /\ closing' = FALSE
  /\ UNCHANGED <<now, load, threshold, detail, lastDump, pc, checked, ghosts>>

Timer(c) == Test(c) \/ Mark(c) \/ Note(c) \/ Gate(c) \/ Skip(c) \/ Claim(c) \/ Emit(c)
Next ==
  \/ LoadUpdate \/ Set \/ Activate \/ Deactivate \/ Deactivated
  \/ \E c \in Cpus : Timer(c)

Spec == Init /\ [][Next]_vars

-----------------------------------------------------------------------------
(* Properties.                                                             *)

\* Every variable has its type: no time that is kept lies before boot or in the
\* future.
TypeOK ==
  /\ now \in Nat /\ load \in Loads
  /\ activated \in BOOLEAN /\ threshold \in Thresholds \cup {0} /\ closing \in BOOLEAN
  /\ flag \in BOOLEAN /\ badTime \in 0..now /\ lastDump \in 0..now
  /\ pc \in [Cpus -> {"idle", "mark", "note", "gate", "limit", "emit"}] /\ checked \subseteq Cpus
  /\ began \in 0..now /\ armed \in BOOLEAN /\ reported \in 0..now

\* "As soon as the load exceeds 50 the call chains are printed"
\* (load-monitor.md:60): a load beyond the threshold is reported at once, and
\* again every ten seconds for as long as it stays there, also when the monitor
\* was deactivated and activated again within the ten seconds.
AlarmInTime ==
  (activated /\ ~closing /\ checked = Cpus /\ \A c \in Cpus : pc[c] = "idle") =>
    (threshold # 0 /\ load >= threshold =>
       reported # NeverReported /\ now - reported < Period)

\* Two records of one activation are ten seconds apart.
NotTooOften ==
  [][\A c \in Cpus : Claim(c) =>
       reported = NeverReported \/ now - reported >= Period]_vars

\* "Abnormal times are overwritten with the time of every new abnormal event"
\* (load-monitor.md:199): a record shows when the load went beyond the threshold, once
\* a timer has seen the load below the threshold that was set, and but for an emission
\* while another CPU's timer has set load_flag and not yet written the time.
BadTimeIsLatestOnceArmed ==
  [][\A c \in Cpus : Emit(c) /\ armed /\ ~Marking /\ load >= threshold => badTime = began]_vars
=============================================================================
