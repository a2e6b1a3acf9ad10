------------------------------ MODULE LoadTrend ------------------------------
(***************************************************************************)
(* The load trend of load-monitor, kernel/load.c: for a given time a high  *)
(* resolution timer stores the load averages every few seconds in a ring   *)
(* that /proc/load_trend prints.                                           *)
(*                                                                         *)
(* The timer's callback runs in interrupt context and takes no lock, the   *)
(* lock of the ring is only taken by readers.  A second timer ends the     *)
(* sampling after the given time; activation and deactivation start and    *)
(* stop everything.                                                        *)
(***************************************************************************)
EXTENDS Integers, Sequences

CONSTANTS
  Cap,             \* BUFF_SIZE: number of slots
  Readers,         \* processes that read /proc/load_trend
  Nobody,          \* the holder of a free lock
  AllocFails,      \* alloc_diag_variant_buffer may fail
  SamplesPerShow,  \* bound: samples taken while one reader prints
  MaxSamples,      \* bound on the number of samples
  MaxSessions      \* bound on the number of activations

ASSUME SlotsAssumption == Cap \in Nat /\ Cap > 1
ASSUME ReadersAssumption == Nobody \notin Readers
ASSUME BoundsAssumption ==
  /\ SamplesPerShow \in Nat /\ MaxSamples \in Nat /\ MaxSessions \in Nat
  /\ AllocFails \in BOOLEAN

VARIABLES
  activated,   \* load_monitor_settings.activated
  alloced,     \* the record buffer exists
  cpc,         \* where activate_load_monitor or deactivate_load_monitor is
  file,        \* the files named load_trend that exist: 0 or 1
  entry,       \* load_trend_entry # NULL
  sampling,    \* load_hrtimer is armed
  duration,    \* duration_timer is pending
  dpc,         \* duration_timer_callback: "idle" or "cancel"
  apc,         \* load_hrtimer_callback: "idle", or the next step of add_data
  front, rear, \* of the ring
  datas,       \* the number of the sample in each slot, 0 at first
  lock,        \* holder of buffer.lock
  rpc, pos,    \* per reader: where it is, its index i
  rows,        \* per reader: the samples it printed
  taken,       \* number of samples stored so far
  base,        \* number of samples when the ring was last initialised
  budget,      \* per reader: how many more samples are taken while it prints
  early,       \* the readers that opened the file before the ring was initialised
  sessions     \* number of activations

Slots == 0..(Cap - 1)
ring == <<front, rear, datas, apc, taken, base>>
timers == <<sampling, duration, dpc>>
control == <<activated, alloced, cpc, file, entry, sessions>>
readers == <<lock, rpc, pos, rows, early>>
vars == <<activated, alloced, cpc, file, entry, sampling, duration, dpc, apc, front, rear,
          datas, lock, rpc, pos, rows, taken, base, budget, early, sessions>>

NextSlot(i) == (i + 1) % Cap
Used == (rear - front) % Cap
Contents == [k \in 1..Used |-> datas[(front + k - 1) % Cap]]

Init ==
  /\ activated = FALSE /\ alloced = FALSE /\ cpc = "off"
  /\ file = 0 /\ entry = FALSE
  /\ sampling = FALSE /\ duration = FALSE /\ dpc = "idle" /\ apc = "idle"
  /\ front = 0 /\ rear = 0 /\ datas = [i \in Slots |-> 0]
  /\ lock = Nobody /\ rpc = [r \in Readers |-> "idle"] /\ pos = [r \in Readers |-> 0]
  /\ rows = [r \in Readers |-> <<>>]
  /\ budget = [r \in Readers |-> SamplesPerShow]
  /\ taken = 0 /\ base = 0 /\ early = {} /\ sessions = 0

-----------------------------------------------------------------------------
(* load_hrtimer_callback and add_data.                                     *)

\* Mutant: a full ring is not recognised.
MutFull == FALSE
Full == NextSlot(rear) = front

\* The oldest sample makes room.  The sampling interval is long: at most
\* SamplesPerShow samples are taken while one reader prints.
Expire ==
  /\ sampling /\ apc = "idle"
  /\ taken < MaxSamples
  /\ \A r \in Readers : rpc[r] # "idle" => budget[r] > 0
  /\ budget' = [r \in Readers |-> IF rpc[r] # "idle" THEN budget[r] - 1 ELSE budget[r]]
  /\ front' = IF Full THEN NextSlot(front) ELSE front
  /\ apc' = "store"
  /\ UNCHANGED <<rear, datas, taken, base, timers, control, readers>>

Store ==
  /\ apc = "store"
  /\ datas' = [datas EXCEPT ![rear] = taken + 1]
  /\ apc' = "advance"
  /\ UNCHANGED <<front, rear, taken, base, timers, control, readers, budget>>

Advanced == NextSlot(rear)

Advance ==
  /\ apc = "advance"
  /\ rear' = Advanced
  /\ taken' = taken + 1
  /\ apc' = "idle"
  /\ UNCHANGED <<front, datas, base, timers, control, readers, budget>>

-----------------------------------------------------------------------------
(* duration_timer_callback; hrtimer_cancel waits for a running callback.   *)

DurationFires ==
  /\ duration /\ dpc = "idle"
  /\ duration' = FALSE /\ dpc' = "cancel"
  /\ UNCHANGED <<sampling, ring, control, readers, budget>>

\* Mutant: the callback only ends.
MutCancelled == sampling
Cancelled == FALSE

DurationCancels ==
  /\ dpc = "cancel" /\ apc = "idle"
  /\ sampling' = Cancelled
  /\ dpc' = "idle"
  /\ UNCHANGED <<duration, ring, control, readers, budget>>

-----------------------------------------------------------------------------
(* activate_load_monitor with settings.time > 0; controller_sem admits one  *)
(* activation or deactivation at a time.                                    *)

\* deliver_in_proc: a second file of the same name is refused.
Activate ==
  /\ cpc = "off" /\ ~activated
  /\ sessions < MaxSessions /\ sessions' = sessions + 1
  /\ file' = 1 /\ entry' = (file = 0)
  /\ cpc' = "init"
  /\ UNCHANGED <<activated, alloced, ring, timers, readers, budget>>

InitRing ==
  /\ cpc = "init"
  /\ front' = 0 /\ rear' = 0 /\ base' = taken
  /\ lock' = Nobody
  /\ cpc' = "arm"
  /\ UNCHANGED <<datas, apc, taken, timers, activated, alloced, file, entry, sessions,
                 rpc, pos, rows, early, budget>>

\* The duration is a matter of seconds, so it does not end between mod_timer
\* and hrtimer_start.
Arm ==
  /\ cpc = "arm"
  /\ duration' = TRUE /\ sampling' = TRUE
  /\ cpc' = "alloc"
  /\ UNCHANGED <<dpc, ring, activated, alloced, file, entry, sessions, readers, budget>>

Alloc ==
  /\ cpc = "alloc"
  /\ alloced' \in IF AllocFails THEN {alloced, TRUE} ELSE {TRUE}
  /\ activated' = alloced'
  /\ cpc' = "off"
  /\ UNCHANGED <<file, entry, sessions, ring, timers, readers, budget>>

\* proc_remove waits for the readers that are inside the file.
Deactivate ==
  /\ cpc = "off" /\ activated
  /\ entry => \A r \in Readers : rpc[r] = "idle"
  /\ file' = IF entry THEN 0 ELSE file
  /\ cpc' = "cancel"
  /\ UNCHANGED <<activated, alloced, entry, sessions, ring, timers, readers, budget>>

CancelSampling ==
  /\ cpc = "cancel" /\ apc = "idle"
  /\ sampling' = FALSE
  /\ cpc' = "delete"
  /\ UNCHANGED <<duration, dpc, activated, alloced, file, entry, sessions, ring, readers, budget>>

Deleted == FALSE

\* del_timer does not wait for a running callback.
DeleteDuration ==
  /\ cpc = "delete"
  /\ duration' = Deleted
  /\ activated' = FALSE
  /\ cpc' = "off"
  /\ UNCHANGED <<sampling, dpc, alloced, file, entry, sessions, ring, readers, budget>>

-----------------------------------------------------------------------------
(* load_trend_show.                                                        *)

Open(r) ==
  /\ rpc[r] = "idle" /\ file = 1
  /\ rpc' = [rpc EXCEPT ![r] = "front"]
  /\ rows' = [rows EXCEPT ![r] = <<>>]
  /\ budget' = [budget EXCEPT ![r] = SamplesPerShow]
  /\ early' = IF cpc = "init" THEN early \cup {r} ELSE early \ {r}
  /\ UNCHANGED <<lock, pos, control, ring, timers>>

\* front is read before the lock is taken.
ReadFront(r) ==
  /\ rpc[r] = "front"
  /\ pos' = [pos EXCEPT ![r] = front]
  /\ rpc' = [rpc EXCEPT ![r] = "lock"]
  /\ UNCHANGED <<lock, rows, early, budget, control, ring, timers>>

LockRing(r) ==
  /\ rpc[r] = "lock" /\ lock = Nobody
  /\ lock' = r
  /\ rpc' = [rpc EXCEPT ![r] = "rows"]
  /\ UNCHANGED <<pos, rows, early, budget, control, ring, timers>>

\* Mutant: the reader does not wrap around.
MutFollowing(i) == IF i + 1 < Cap THEN i + 1 ELSE Cap - 1
Following(i) == NextSlot(i)

PrintRow(r) ==
  /\ rpc[r] = "rows" /\ pos[r] # rear
  /\ rows' = [rows EXCEPT ![r] = Append(@, datas[pos[r]])]
  /\ pos' = [pos EXCEPT ![r] = Following(@)]
  /\ UNCHANGED <<lock, rpc, early, budget, control, ring, timers>>

Close(r) ==
  /\ rpc[r] = "rows" /\ pos[r] = rear
  /\ lock' = Nobody
  /\ rpc' = [rpc EXCEPT ![r] = "idle"]
  /\ UNCHANGED <<pos, rows, early, budget, control, ring, timers>>

-----------------------------------------------------------------------------
Sampler == Expire \/ Store \/ Advance
Ending == DurationFires \/ DurationCancels
Controller ==
  \/ Activate \/ InitRing \/ Arm \/ Alloc
  \/ Deactivate \/ CancelSampling \/ DeleteDuration
Reader(r) == Open(r) \/ ReadFront(r) \/ LockRing(r) \/ PrintRow(r) \/ Close(r)

Next == Sampler \/ Ending \/ Controller \/ \E r \in Readers : Reader(r)

Spec == Init /\ [][Next]_vars

\* Timers fire and callbacks run on.
FairSpec == Spec /\ WF_vars(Store \/ Advance) /\ WF_vars(DurationFires) /\ WF_vars(DurationCancels)

-----------------------------------------------------------------------------
(* Properties.                                                             *)

\* Every variable has its type: in particular no index leaves the ring.
TypeOK ==
  /\ activated \in BOOLEAN /\ alloced \in BOOLEAN
  /\ cpc \in {"off", "init", "arm", "alloc", "cancel", "delete"}
  /\ file \in {0, 1} /\ entry \in BOOLEAN
  /\ sampling \in BOOLEAN /\ duration \in BOOLEAN /\ dpc \in {"idle", "cancel"}
  /\ apc \in {"idle", "store", "advance"}
  /\ front \in Slots /\ rear \in Slots /\ datas \in [Slots -> Nat]
  /\ lock \in Readers \cup {Nobody} /\ pos \in [Readers -> Slots]
  /\ rpc \in [Readers -> {"idle", "front", "lock", "rows"}]
  /\ rows \in [Readers -> Seq(Nat)]
  /\ budget \in [Readers -> Nat] /\ early \subseteq Readers
  /\ taken \in Nat /\ base \in Nat /\ sessions \in Nat

\* Between two samples the ring holds the newest samples of this session in the
\* order they were taken: all of them, or as many as there are slots but one.
Kept == IF taken - base < Cap - 1 THEN taken - base ELSE Cap - 1
KeepsNewest ==
  apc = "idle" => Contents = [k \in 1..Kept |-> taken - Kept + k]

\* What a reader prints are samples, in the order they were taken and without a
\* gap, although samples are stored and dropped while it prints; but for a reader
\* that opened the file between its creation and the initialisation of the ring.
RowsInOrder ==
  \A r \in Readers \ early : \A k \in DOMAIN rows[r] :
    rows[r][k] = rows[r][1] + k - 1 /\ rows[r][k] > 0

\* Sampling ends, whether or not anybody deactivates the monitor.
SamplingEnds == sampling ~> ~sampling
=============================================================================
