---------------------------- MODULE MutexMonitor ----------------------------
(***************************************************************************)
(* mutex-monitor, kernel/mutex.c: while it is activated, mutex_lock and    *)
(* mutex_unlock of the running kernel are patched to jump to               *)
(* new_mutex_lock and new_mutex_unlock, which remember when each mutex was *)
(* taken and report the holds that last longer than a threshold.           *)
(*                                                                         *)
(* Tasks of the kernel run through the hooks while one of them, the        *)
(* controller, patches, unpatches and cleans up, and while settings are    *)
(* changed through a request that the controller's semaphore does not      *)
(* order.  The kernel is not preemptible: a task gives up its CPU only     *)
(* where it may sleep, which is what synchronize_sched relies on.          *)
(***************************************************************************)
EXTENDS Integers, FiniteSets

CONSTANTS
  Tasks,        \* tasks that lock and unlock mutexes
  Ctl,          \* the task that activates and deactivates, one of Tasks
  Mutexes,      \* the mutexes of the kernel
  TextMutex,    \* text_mutex, one of Mutexes
  Descs,        \* memory for struct mutex_desc
  None,         \* no task, no descriptor
  Thresholds,   \* the thresholds given to SET, in ms
  NsPerMs,      \* clock ticks in a millisecond
  IntMax,       \* the largest int
  Skewed,       \* the clocks of two CPUs may disagree by less than a tick
  OneOperator,  \* SET is never issued while another request is under way
  MaxTime,      \* bound on the clock
  MaxSessions   \* bound on the number of activations

ASSUME TasksAssumption ==
  /\ IsFiniteSet(Tasks) /\ Ctl \in Tasks /\ TextMutex \in Mutexes
  /\ None \notin Tasks \cup Descs
ASSUME NumbersAssumption ==
  /\ Thresholds \subseteq Nat /\ NsPerMs \in Nat \ {0} /\ IntMax \in Nat
  /\ MaxTime \in Nat /\ MaxSessions \in Nat /\ OneOperator \in BOOLEAN
  /\ Skewed \in BOOLEAN

VARIABLES
  now,        \* sched_clock
  hooks,      \* the patched functions, a subset of {"lock", "unlock"}
  activated,  \* mutex_monitor_settings.activated
  threshold,  \* mutex_monitor_settings.threshold
  running,    \* diag_nr_running
  tree,       \* mutex_tree: the descriptor of each mutex
  lockTime,   \* desc->lock_time, 0 when no hold is being timed
  doomed,     \* mutex_list: descriptors out of the tree and not freed yet
  stray,      \* descriptors that never got into the tree, which nobody frees
  owner,      \* who holds each mutex
  since,      \* when it was taken, 0 when it is free
  pc, mx,     \* per task: where it is, the mutex it is about
  ptr,        \* per task: the descriptor a hook works on
  cpc,        \* where the controller is
  gp,         \* the tasks a grace period still waits for
  spc,        \* where the SET request is
  sessions,   \* number of activations
  stamp       \* per task: when its hook timed the hold that is in the tree

hookVars == <<running, tree, lockTime, ptr, stamp>>
mutexVars == <<owner, since>>
settings == <<activated, threshold, spc>>
control == <<hooks, doomed, stray, cpc, sessions>>
vars == <<now, hooks, activated, threshold, running, tree, lockTime, doomed, stray,
          owner, since, pc, mx, ptr, cpc, gp, spc, sessions, stamp>>

\* What a task does between two places where it may sleep, inside the hooks;
\* "jump" and "unjump" are before the counter is incremented, "store" is for RwSem.
Atomic == {"jump", "find", "insert", "set", "store", "leave",
           "unjump", "seek", "judge", "clear", "release"}
Counted == (Atomic \ {"jump", "unjump"}) \cup {"wait"}
Outside == {"idle", "orig", "held"}

\* A task that gets where it may sleep ends its part in a grace period.
Goto(t, p) ==
  /\ pc' = [pc EXCEPT ![t] = p]
  /\ gp' = IF p \in Atomic THEN gp ELSE gp \ {t}
GracePeriod == {t \in Tasks : pc[t] \in Atomic}

InTree == {tree[m] : m \in Mutexes} \ {None}
Live == doomed \cup stray \cup InTree

Init ==
  /\ now = 1
  /\ hooks = {} /\ activated = FALSE /\ threshold \in Thresholds
  /\ running = 0
  /\ tree = [m \in Mutexes |-> None] /\ lockTime = [d \in Descs |-> 0]
  /\ doomed = {} /\ stray = {}
  /\ owner = [m \in Mutexes |-> None] /\ since = [m \in Mutexes |-> 0]
  /\ pc = [t \in Tasks |-> "idle"] /\ mx = [t \in Tasks |-> TextMutex]
  /\ ptr = [t \in Tasks |-> None] /\ stamp = [t \in Tasks |-> 0]
  /\ cpc = "off" /\ gp = {} /\ spc = "idle" /\ sessions = 0

Tick == now < MaxTime /\ now' = now + 1
        /\ UNCHANGED <<hookVars, mutexVars, settings, control, pc, mx, gp>>

-----------------------------------------------------------------------------
(* mutex_lock: the kernel's own, or new_mutex_lock.                        *)

CallLock(t) ==
  /\ pc[t] = "idle" /\ t # Ctl
  /\ \E m \in Mutexes : mx' = [mx EXCEPT ![t] = m]
  /\ Goto(t, IF "lock" \in hooks THEN "jump" ELSE "orig")
  /\ UNCHANGED <<now, hookVars, mutexVars, settings, control>>

EnterLock(t) ==
  /\ pc[t] = "jump"
  /\ running' = running + 1
  /\ Goto(t, "wait")
  /\ UNCHANGED <<now, tree, lockTime, ptr, stamp, mutexVars, settings, control, mx>>

\* The mutex is got, on the fast path or after sleeping.
Acquire(t) ==
  /\ pc[t] \in {"orig", "wait"} /\ owner[mx[t]] = None
  /\ owner' = [owner EXCEPT ![mx[t]] = t]
  /\ since' = [since EXCEPT ![mx[t]] = now]
  /\ Goto(t, IF pc[t] = "wait" THEN "find" ELSE "held")
  /\ UNCHANGED <<now, hookVars, settings, control, mx>>

\* find_desc_alloc: the first lookup is made without tree_lock.
FindDesc(t) ==
  /\ pc[t] = "find"
  /\ ptr' = [ptr EXCEPT ![t] = tree[mx[t]]]
  /\ Goto(t, IF tree[mx[t]] = None THEN "insert" ELSE "set")
  /\ UNCHANGED <<now, running, tree, lockTime, stamp, mutexVars, settings, control, mx>>

\* The second is made under tree_lock, and whoever comes second uses what the
\* first one inserted.
InsertDesc(t) ==
  /\ pc[t] = "insert"
  /\ \E d \in Descs \ Live :
       LET found == IF tree[mx[t]] = None THEN d ELSE tree[mx[t]]
       IN /\ tree' = [tree EXCEPT ![mx[t]] = found]
          /\ ptr' = [ptr EXCEPT ![t] = found]
  /\ Goto(t, "set")
  /\ UNCHANGED <<now, running, lockTime, stamp, mutexVars, settings, control, mx>>

\* radix_tree_insert may find no memory for its own node; nobody looks at what it
\* returns, and the caller goes on with a descriptor that is in no tree.
InsertLost(t) ==
  /\ pc[t] = "insert" /\ tree[mx[t]] = None
  /\ \E d \in Descs \ Live :
       stray' = stray \cup {d} /\ ptr' = [ptr EXCEPT ![t] = d]
  /\ Goto(t, "set")
  /\ UNCHANGED <<now, running, tree, lockTime, stamp, mutexVars, settings,
                 hooks, doomed, cpc, sessions, mx>>

\* kmalloc(GFP_ATOMIC) failed: the hold is not timed.
InsertFails(t) ==
  /\ pc[t] = "insert"
  /\ Goto(t, "leave")
  /\ UNCHANGED <<now, hookVars, mutexVars, settings, control, mx>>

SetLockTime(t) ==
  /\ pc[t] = "set"
  /\ lockTime' = [lockTime EXCEPT ![ptr[t]] = now]
  /\ stamp' = [stamp EXCEPT ![t] = IF tree[mx[t]] = ptr[t] THEN now ELSE 0]
  /\ Goto(t, "leave")
  /\ UNCHANGED <<now, running, tree, ptr, mutexVars, settings, control, mx>>

CountedOut == running - 1

\* The end of new_mutex_lock and of new_mutex_unlock.
Leave(t) ==
  /\ pc[t] = "leave"
  /\ running' = CountedOut
  /\ ptr' = [ptr EXCEPT ![t] = None]
  /\ Goto(t, IF owner[mx[t]] = t THEN "held" ELSE "idle")
  /\ UNCHANGED <<now, tree, lockTime, stamp, mutexVars, settings, control, mx>>

-----------------------------------------------------------------------------
(* mutex_unlock: the kernel's own, or new_mutex_unlock.                    *)

Released(t) ==
  /\ owner' = [owner EXCEPT ![mx[t]] = None]
  /\ since' = [since EXCEPT ![mx[t]] = 0]
  /\ stamp' = [stamp EXCEPT ![t] = 0]

CallUnlock(t) ==
  /\ pc[t] = "held" /\ t # Ctl
  /\ IF "unlock" \in hooks
       THEN Goto(t, "unjump") /\ UNCHANGED <<mutexVars, stamp>>
       ELSE Goto(t, "idle") /\ Released(t)
  /\ UNCHANGED <<now, running, tree, lockTime, ptr, settings, control, mx>>

\* diag_mutex_unlock works on the descriptor first and then releases the mutex.
\* Mutant: the mutex is released first.
MutAfter(step) ==
  CASE step = "enter" -> "release" [] step = "hook" -> "leave" [] step = "release" -> "seek"
After(step) ==
  CASE step = "enter" -> "seek" [] step = "hook" -> "release" [] step = "release" -> "leave"

EnterUnlock(t) ==
  /\ pc[t] = "unjump"
  /\ running' = running + 1
  /\ Goto(t, After("enter"))
  /\ UNCHANGED <<now, tree, lockTime, ptr, stamp, mutexVars, settings, control, mx>>

\* hook_unlock: __find_desc, without tree_lock.
SeekDesc(t) ==
  /\ pc[t] = "seek"
  /\ ptr' = [ptr EXCEPT ![t] = tree[mx[t]]]
  /\ Goto(t, IF tree[mx[t]] = None THEN After("hook") ELSE "judge")
  /\ UNCHANGED <<now, running, tree, lockTime, stamp, mutexVars, settings, control, mx>>

\* threshold * 1000 * 1000 is computed in an int; the comparison is unsigned,
\* so that a product that came out negative is beyond every delay.
Scaled(th) ==
  LET product == (th * NsPerMs) % (2 * (IntMax + 1))
  IN IF product > IntMax THEN product - 2 * (IntMax + 1) ELSE product
\* Mutant: a hold of exactly the threshold is reported.
MutExceeds(delay) == Scaled(threshold) >= 0 /\ delay >= Scaled(threshold)
Exceeds(delay) == Scaled(threshold) >= 0 /\ delay > Scaled(threshold)

\* A tick stands for many readings of sched_clock: within one, the clock has
\* moved on since lock_time, unless the two were read on CPUs that disagree.
Timed(t) == lockTime[ptr[t]] # 0 /\ (now > lockTime[ptr[t]] \/ ~Skewed)
Delay(t) == now - lockTime[ptr[t]]

\* A record is emitted (it goes to the buffer of module VariantBuffer).
Reports(t) == Timed(t) /\ Exceeds(Delay(t))

Judge(t) ==
  /\ pc[t] = "judge"
  /\ Goto(t, IF Timed(t) THEN "clear" ELSE After("hook"))
  /\ UNCHANGED <<now, hookVars, mutexVars, settings, control, mx>>

ClearLockTime(t) ==
  /\ pc[t] = "clear"
  /\ lockTime' = [lockTime EXCEPT ![ptr[t]] = 0]
  /\ stamp' = [stamp EXCEPT ![t] = 0]
  /\ Goto(t, After("hook"))
  /\ UNCHANGED <<now, running, tree, ptr, mutexVars, settings, control, mx>>

Release(t) ==
  /\ pc[t] = "release"
  /\ Released(t)
  /\ Goto(t, After("release"))
  /\ UNCHANGED <<now, running, tree, lockTime, ptr, settings, control, mx>>

-----------------------------------------------------------------------------
(* activate_mutex_monitor and deactivate_mutex_monitor, one at a time under *)
(* controller_sem.  Both call new_mutex_lock(text_mutex) themselves.        *)

TakeTextMutex == Goto(Ctl, "jump") /\ mx' = [mx EXCEPT ![Ctl] = TextMutex]

\* JUMP_CHECK refuses a function whose first instruction is a jump already.
Activate ==
  /\ cpc = "off" /\ ~activated /\ hooks = {} /\ pc[Ctl] = "idle"
  /\ OneOperator => spc = "idle"
  /\ sessions < MaxSessions /\ sessions' = sessions + 1
  /\ TakeTextMutex
  /\ cpc' = "install"
  /\ UNCHANGED <<now, hookVars, mutexVars, settings, hooks, doomed, stray>>

InstallLock ==
  /\ cpc = "install" /\ pc[Ctl] = "held" /\ "lock" \notin hooks
  /\ hooks' = hooks \cup {"lock"}
  /\ UNCHANGED <<now, hookVars, mutexVars, settings, doomed, stray, cpc, sessions, pc, mx, gp>>

InstallUnlock ==
  /\ cpc = "install" /\ pc[Ctl] = "held" /\ "lock" \in hooks
  /\ hooks' = hooks \cup {"unlock"}
  /\ Goto(Ctl, "unjump")
  /\ cpc' = "activate"
  /\ UNCHANGED <<now, hookVars, mutexVars, settings, doomed, stray, sessions, mx>>

Activated ==
  /\ cpc = "activate" /\ pc[Ctl] = "idle"
  /\ activated' = TRUE
  /\ cpc' = "off"
  /\ UNCHANGED <<now, hookVars, mutexVars, threshold, spc, hooks, doomed, stray, sessions,
                 pc, mx, gp>>

Deactivate ==
  /\ cpc = "off" /\ activated
  /\ TakeTextMutex
  /\ cpc' = "remove"
  /\ UNCHANGED <<now, hookVars, mutexVars, settings, hooks, doomed, stray, sessions>>

RemoveLock ==
  /\ cpc = "remove" /\ pc[Ctl] = "held" /\ "lock" \in hooks
  /\ hooks' = hooks \ {"lock"}
  /\ UNCHANGED <<now, hookVars, mutexVars, settings, doomed, stray, cpc, sessions, pc, mx, gp>>

\* Mutant: a jump is left behind.
MutUnpatched == hooks
Unpatched == hooks \ {"unlock"}

RemoveUnlock ==
  /\ cpc = "remove" /\ pc[Ctl] = "held" /\ "lock" \notin hooks
  /\ hooks' = Unpatched
  /\ Goto(Ctl, "unjump")
  /\ cpc' = "clean"
  /\ UNCHANGED <<now, hookVars, mutexVars, settings, doomed, stray, sessions, mx>>

\* clean_data: all descriptors leave the tree, in one section under tree_lock.
CleanDetach ==
  /\ cpc = "clean" /\ pc[Ctl] = "idle"
  /\ doomed' = doomed \cup InTree
  /\ tree' = [m \in Mutexes |-> None]
  /\ stamp' = [t \in Tasks |-> 0]
  /\ gp' = GracePeriod
  /\ cpc' = "sync"
  /\ UNCHANGED <<now, running, lockTime, ptr, mutexVars, settings, hooks, stray, sessions, pc, mx>>

\* Mutant: clean_data without synchronize_sched.
MutGraceOver == TRUE
GraceOver == gp = {}

\* They are freed after a grace period; a second one begins.  The memory is
\* zeroed when it is handed out again, which is as good as now.
CleanFree ==
  /\ cpc = "sync" /\ GraceOver
  /\ doomed' = {}
  /\ lockTime' = [d \in Descs |-> IF d \in doomed THEN 0 ELSE lockTime[d]]
  /\ gp' = GracePeriod
  /\ cpc' = "drain"
  /\ UNCHANGED <<now, running, tree, ptr, stamp, mutexVars, settings, hooks, stray, sessions,
                 pc, mx>>

Drained == gp = {} /\ running = 0

Deactivated ==
  /\ cpc = "drain" /\ Drained
  /\ activated' = FALSE
  /\ cpc' = "off"
  /\ UNCHANGED <<now, hookVars, mutexVars, threshold, spc, hooks, doomed, stray, sessions,
                 pc, mx, gp>>

\* SET, of diag_ioctl_mutex_monitor: tests activated, sleeps in copy_from_user,
\* then assigns the whole structure; the command line tool fills activated with 0.
SetTest ==
  /\ spc = "idle" /\ ~activated
  /\ OneOperator => cpc = "off"
  /\ spc' = "copy"
  /\ UNCHANGED <<now, hookVars, mutexVars, activated, threshold, control, pc, mx, gp>>

SetAssign ==
  /\ spc = "copy"
  /\ threshold' \in Thresholds /\ activated' = FALSE
  /\ spc' = "idle"
  /\ UNCHANGED <<now, hookVars, mutexVars, control, pc, mx, gp>>

-----------------------------------------------------------------------------
InLock(t) ==
  \/ EnterLock(t) \/ FindDesc(t) \/ InsertDesc(t) \/ InsertLost(t) \/ InsertFails(t)
  \/ SetLockTime(t)
InUnlock(t) == EnterUnlock(t) \/ SeekDesc(t) \/ Judge(t) \/ ClearLockTime(t) \/ Release(t)
Hook(t) == InLock(t) \/ InUnlock(t) \/ Leave(t)
Task(t) == CallLock(t) \/ Acquire(t) \/ CallUnlock(t) \/ Hook(t)

Controller ==
  \/ Activate \/ InstallLock \/ InstallUnlock \/ Activated
  \/ Deactivate \/ RemoveLock \/ RemoveUnlock
  \/ CleanDetach \/ CleanFree \/ Deactivated

Next == Tick \/ (\E t \in Tasks : Task(t)) \/ Controller \/ SetTest \/ SetAssign

Spec == Init /\ [][Next]_vars

-----------------------------------------------------------------------------
(* Properties.                                                             *)

\* Every variable has its type: in particular diag_nr_running never falls below 0.
TypeOK ==
  /\ now \in 1..MaxTime \cup {1} /\ hooks \subseteq {"lock", "unlock"}
  /\ activated \in BOOLEAN /\ threshold \in Thresholds /\ running \in Nat
  /\ tree \in [Mutexes -> Descs \cup {None}] /\ lockTime \in [Descs -> Nat]
  /\ doomed \subseteq Descs /\ stray \subseteq Descs
  /\ owner \in [Mutexes -> Tasks \cup {None}] /\ since \in [Mutexes -> Nat]
  /\ pc \in [Tasks -> Atomic \cup {"wait"} \cup Outside] /\ mx \in [Tasks -> Mutexes]
  /\ ptr \in [Tasks -> Descs \cup {None}] /\ stamp \in [Tasks -> Nat]
  /\ cpc \in {"off", "install", "activate", "remove", "clean", "sync", "drain"}
  /\ gp \subseteq Tasks /\ spc \in {"idle", "copy"} /\ sessions \in Nat

\* A hook never touches a descriptor that clean_data has freed, although it
\* looks descriptors up and uses them without any lock.
NoUseAfterFree ==
  \A t \in Tasks : pc[t] \in {"set", "judge", "clear"} => ptr[t] \in Live

\* "When the function is switched off it has no influence on the performance of
\* the system" (mutex-monitor.md:101): outside of an activation or deactivation,
\* the functions are patched exactly when the monitor says it is activated.
OffMeansUnpatched ==
  cpc = "off" => hooks = IF activated THEN {"lock", "unlock"} ELSE {}

\* While a task holds a mutex that its hook has timed in the tree, the descriptor there
\* carries that task's own time, whatever other tasks do with the mutex.
HolderIsTimed ==
  \A t \in Tasks : stamp[t] # 0 =>
    /\ owner[mx[t]] = t
    /\ tree[mx[t]] # None /\ lockTime[tree[mx[t]]] = stamp[t]

\* A timed hold is reported when it is released exactly if it lasted longer than
\* the threshold in ms: "when a function holds a mutex for more than 1000 ms its
\* call chain is printed" (mutex-monitor.md:35).
LongHoldsReported ==
  [][\A t \in Tasks : stamp[t] # 0 /\ Judge(t) =>
       (Reports(t) <=> now - stamp[t] > threshold * NsPerMs)]_vars

=============================================================================
