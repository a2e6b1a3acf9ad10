------------------------------- MODULE RwSem -------------------------------
(***************************************************************************)
(* rw-sem, kernel/rw_sem.c: the time that writers hold a semaphore of the  *)
(* kernel.  Its descriptors, their tree and clean_data are those of        *)
(* mutex.c, and so are the definitions taken from MutexMonitor here; read  *)
(* "mutex" as "semaphore", "lock" as "lock for writing".                   *)
(*                                                                         *)
(* But the hooks are kprobes at the entry of down_write,                   *)
(* down_write_killable and up_write, so that                               *)
(*   - the time is taken when down_write is called, not when it returns,   *)
(*     and every caller stores its time into the one descriptor,           *)
(*   - nobody sleeps in a hook, and unregister_kprobe waits until none of  *)
(*     them runs any more,                                                 *)
(*   - down_write_trylock and downgrade_write are not watched.             *)
(* Readers only make writers wait.  SET is issued between activations (the *)
(* race of SET and activation is that of MutexMonitor).                    *)
(***************************************************************************)
EXTENDS MutexMonitor, Sequences

VARIABLES
  call,    \* per task: the function it takes a semaphore with, while it does
  entry,   \* per task: the clock as its probe of down_write read it, or 0
  timer    \* per semaphore: whose time was stored last in the tree, and the time
rwVars == <<vars, call, entry, timer>>
mine == <<call, entry, timer>>

Downs == {"down_write", "down_write_killable"}
NoTime == [by |-> None, at |-> 0]

RwInit ==
  /\ Init
  /\ call = [t \in Tasks |-> None] /\ entry = [t \in Tasks |-> 0]
  /\ timer = [m \in Mutexes |-> NoTime]

-----------------------------------------------------------------------------
(* A writer.                                                               *)

CallDown(t) ==
  /\ pc[t] = "idle" /\ t # Ctl
  /\ \E m \in Mutexes : mx' = [mx EXCEPT ![t] = m]
  /\ \E f \in Downs :
       call' = [call EXCEPT ![t] = f] /\ Goto(t, IF f \in hooks THEN "find" ELSE "orig")
  /\ UNCHANGED <<now, hookVars, mutexVars, settings, control, entry, timer>>

\* Mutant: no second look under tree_lock.
MutFindOrMake(t) ==
  \/ (FindDesc(t) \/ InsertLost(t) \/ InsertFails(t)) /\ UNCHANGED mine
  \/ /\ pc[t] = "insert" /\ Goto(t, "set")
     /\ \E d \in Descs \ Live :
          tree' = [tree EXCEPT ![mx[t]] = d] /\ ptr' = [ptr EXCEPT ![t] = d]
     /\ UNCHANGED <<now, running, lockTime, stamp, mutexVars, settings, control, mx, mine>>
\* hook_lock: find_desc_alloc, then the clock is read, then the time is stored.
FindOrMake(t) ==
  (FindDesc(t) \/ InsertDesc(t) \/ InsertLost(t) \/ InsertFails(t)) /\ UNCHANGED mine

ReadClock(t) ==
  /\ pc[t] = "set"
  /\ entry' = [entry EXCEPT ![t] = now]
  /\ Goto(t, "store")
  /\ UNCHANGED <<now, hookVars, mutexVars, settings, control, mx, call, timer>>

\* Whose time counts from now on: a time in a descriptor that is in no tree is lost.
TimeStored(t) ==
  IF ptr[t] \in stray
    THEN entry' = [entry EXCEPT ![t] = 0] /\ UNCHANGED timer
    ELSE timer' = [timer EXCEPT ![mx[t]] = [by |-> t, at |-> entry[t]]] /\ UNCHANGED entry

\* Mutant: a time that is there is not overwritten.
MutStoreTime(t) ==
  /\ pc[t] = "store"
  /\ lockTime' = IF lockTime[ptr[t]] = 0 THEN [lockTime EXCEPT ![ptr[t]] = entry[t]] ELSE lockTime
  /\ TimeStored(t)
  /\ Goto(t, "leave")
  /\ UNCHANGED <<now, running, tree, ptr, stamp, mutexVars, settings, control, mx, call>>
StoreTime(t) ==
  /\ pc[t] = "store"
  /\ lockTime' = [lockTime EXCEPT ![ptr[t]] = entry[t]]
  /\ TimeStored(t)
  /\ Goto(t, "leave")
  /\ UNCHANGED <<now, running, tree, ptr, stamp, mutexVars, settings, control, mx, call>>

\* The probe returns, and down_write itself runs; it may sleep.
ProbeReturns(t) ==
  /\ pc[t] = "leave"
  /\ ptr' = [ptr EXCEPT ![t] = None]
  /\ Goto(t, "orig")
  /\ UNCHANGED <<now, running, tree, lockTime, stamp, mutexVars, settings, control, mx, mine>>

Got(t) ==
  /\ pc[t] = "orig" /\ owner[mx[t]] = None
  /\ owner' = [owner EXCEPT ![mx[t]] = t] /\ call' = [call EXCEPT ![t] = None]
  /\ Goto(t, "held")
  /\ UNCHANGED <<now, hookVars, since, settings, control, mx, entry, timer>>

\* down_write_killable gives up when the task is killed.
GiveUp(t) ==
  /\ pc[t] = "orig" /\ call[t] = "down_write_killable"
  /\ entry' = [entry EXCEPT ![t] = 0] /\ call' = [call EXCEPT ![t] = None]
  /\ Goto(t, "idle")
  /\ UNCHANGED <<now, hookVars, mutexVars, settings, control, mx, timer>>

TryDown(t) ==
  /\ pc[t] = "idle" /\ t # Ctl
  /\ \E m \in Mutexes :
       /\ owner[m] = None
       /\ owner' = [owner EXCEPT ![m] = t]
       /\ mx' = [mx EXCEPT ![t] = m]
  /\ Goto(t, "held")
  /\ UNCHANGED <<now, hookVars, since, settings, control, mine>>

\* The semaphore is given back: by up_write, or to readers by downgrade_write.
Up(t) ==
  /\ Goto(t, "idle")
  /\ owner' = [owner EXCEPT ![mx[t]] = None] /\ entry' = [entry EXCEPT ![t] = 0]

Downgrade(t) ==
  /\ pc[t] = "held" /\ t # Ctl /\ Up(t)
  /\ UNCHANGED <<now, hookVars, since, settings, control, mx, call, timer>>

CallUp(t) ==
  /\ pc[t] = "held" /\ t # Ctl
  /\ IF "up_write" \in hooks
       THEN Goto(t, "seek") /\ UNCHANGED <<owner, entry>>
       ELSE Up(t)
  /\ UNCHANGED <<now, hookVars, since, settings, control, mx, call, timer>>

\* hook_unlock.
SeekAndJudge(t) == (SeekDesc(t) \/ Judge(t)) /\ UNCHANGED mine

ClearTime(t) ==
  /\ ClearLockTime(t)
  /\ timer' = [timer EXCEPT ![mx[t]] = NoTime]
  /\ UNCHANGED <<call, entry>>

UpWrite(t) ==
  /\ pc[t] = "release" /\ Up(t)
  /\ ptr' = [ptr EXCEPT ![t] = None]
  /\ UNCHANGED <<now, running, tree, lockTime, stamp, since, settings, control, mx, call, timer>>

-----------------------------------------------------------------------------
(* activate_rw_sem and deactivate_rw_sem.                                  *)

Probes == <<"down_write", "down_write_killable", "up_write">>
Hooking == <<"hook1", "hook2", "hook3", "activate">>
Unhooking == <<"unhook1", "unhook2", "unhook3", "clean">>

controllerSame == UNCHANGED <<now, hookVars, mutexVars, threshold, spc, doomed, stray, pc, mx, mine>>

RwActivate ==
  /\ cpc = "off" /\ ~activated
  /\ sessions < MaxSessions /\ sessions' = sessions + 1
  /\ cpc' = Hooking[1]
  /\ controllerSame /\ UNCHANGED <<hooks, activated, gp>>

\* register_kprobe may fail; nobody looks at what it returns.
HookKprobe(i) ==
  /\ cpc = Hooking[i] /\ cpc' = Hooking[i + 1]
  /\ hooks' \in {hooks, hooks \cup {Probes[i]}}
  /\ controllerSame /\ UNCHANGED <<activated, gp, sessions>>

RwActivated == Activated /\ UNCHANGED mine

RwDeactivate ==
  /\ cpc = "off" /\ activated
  /\ cpc' = Unhooking[1]
  /\ controllerSame /\ UNCHANGED <<hooks, activated, gp, sessions>>

\* Mutant: a probe is taken away and its handlers run on.
MutWaitsFor(i) == {}
\* Whom unregister_kprobe waits for, if the probe was registered.
WaitsFor(i) == IF Probes[i] \in hooks THEN GracePeriod ELSE {}

\* What follows begins when unregister_kprobe has returned.
UnhookKprobe(i) ==
  /\ cpc = Unhooking[i] /\ gp = {} /\ cpc' = Unhooking[i + 1]
  /\ hooks' = hooks \ {Probes[i]} /\ gp' = WaitsFor(i)
  /\ controllerSame /\ UNCHANGED <<activated, sessions>>

RwDetach ==
  /\ gp = {} /\ CleanDetach
  /\ timer' = [m \in Mutexes |-> NoTime] /\ UNCHANGED <<call, entry>>

RwClean == (CleanFree \/ Deactivated) /\ UNCHANGED mine

\* diag_ioctl_rw_sem, SET.
RwSet ==
  /\ cpc = "off" /\ ~activated
  /\ threshold' \in Thresholds
  /\ UNCHANGED <<now, hookVars, mutexVars, activated, spc, control, pc, mx, gp, mine>>

RwTick == Tick /\ UNCHANGED mine

-----------------------------------------------------------------------------
Writer(t) ==
  \/ CallDown(t) \/ FindOrMake(t) \/ ReadClock(t) \/ StoreTime(t) \/ ProbeReturns(t)
  \/ Got(t) \/ GiveUp(t) \/ TryDown(t)
  \/ Downgrade(t) \/ CallUp(t) \/ SeekAndJudge(t) \/ ClearTime(t) \/ UpWrite(t)

RwController ==
  \/ RwActivate \/ (\E i \in 1..3 : HookKprobe(i)) \/ RwActivated
  \/ RwDeactivate \/ (\E i \in 1..3 : UnhookKprobe(i)) \/ RwDetach \/ RwClean

RwNext == RwTick \/ (\E t \in Tasks : Writer(t)) \/ RwController \/ RwSet

RwSpec == RwInit /\ [][RwNext]_rwVars

-----------------------------------------------------------------------------
(* Properties.                                                             *)

InProbe == {"find", "insert", "set", "store", "leave", "seek", "judge", "clear"}

\* Every variable has its type.
RwTypeOK ==
  /\ now \in 1..MaxTime \cup {1} /\ hooks \subseteq {Probes[i] : i \in 1..3}
  /\ activated \in BOOLEAN /\ threshold \in Thresholds /\ running = 0
  /\ tree \in [Mutexes -> Descs \cup {None}] /\ lockTime \in [Descs -> Nat]
  /\ doomed \subseteq Descs /\ stray \subseteq Descs
  /\ owner \in [Mutexes -> Tasks \cup {None}] /\ since = [m \in Mutexes |-> 0]
  /\ pc \in [Tasks -> InProbe \cup {"release"} \cup Outside] /\ mx \in [Tasks -> Mutexes]
  /\ ptr \in [Tasks -> Descs \cup {None}] /\ stamp = [t \in Tasks |-> 0]
  /\ cpc \in {"off", "hook1", "hook2", "hook3", "activate",
              "unhook1", "unhook2", "unhook3", "clean", "sync", "drain"}
  /\ gp \subseteq Tasks /\ spc = "idle" /\ sessions \in Nat
  /\ call \in [Tasks -> Downs \cup {None}] /\ entry \in [Tasks -> Nat]
  /\ timer \in [Mutexes -> [by : Tasks \cup {None}, at : Nat]]

\* A probe never uses memory that clean_data or a lost race in find_desc_alloc has
\* freed.
RwNoUseAfterFree ==
  \A t \in Tasks : pc[t] \in {"set", "store", "judge", "clear"} => ptr[t] \in Live

\* When deactivate_rw_sem has returned, no probe is left, none still runs, and of the
\* descriptors only those are left that radix_tree_insert refused, which leak: whoever
\* calls down_write in the next activation, or after the module, meets none of them.
NothingLeft ==
  cpc = "off" /\ ~activated =>
    hooks = {} /\ Live = stray /\ \A t \in Tasks : pc[t] \notin InProbe

\* However the probes of several writers interleave, in making the descriptor too and in
\* failing to insert it, the one in the tree holds the time that was stored last by a
\* writer that worked on it, unless an up_write has settled that time since.
TimerKept ==
  \A m \in Mutexes : timer[m].at = IF tree[m] = None THEN 0 ELSE lockTime[tree[m]]

\* A writer whose time nobody has overwritten is reported when it calls up_write exactly
\* if it called down_write longer ago than the threshold in ms.
OwnCallsReported ==
  [][\A t \in Tasks : Judge(t) /\ entry[t] # 0 /\ timer[mx[t]].by = t =>
       (Reports(t) <=> now - entry[t] > threshold * NsPerMs)]_rwVars

=============================================================================
