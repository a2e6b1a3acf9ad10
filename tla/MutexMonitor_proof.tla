------------------------- MODULE MutexMonitor_proof -------------------------
(***************************************************************************)
(* Proofs about MutexMonitor, and about RwSem that is made from it, for    *)
(* any finite set of tasks and any mutexes, descriptors, thresholds and    *)
(* bounds.                                                                 *)
(*                                                                         *)
(* The type invariant needs that diag_nr_running is the number of the      *)
(* tasks that have counted themselves in.  That no hook uses a descriptor  *)
(* that was freed needs, of each hook that holds a pointer, that the       *)
(* descriptor is in the tree or that the grace period of clean_data waits  *)
(* for the task.  That the holder is timed needs besides that the tree     *)
(* gives no descriptor to two mutexes and that a hook works on the         *)
(* descriptor of the mutex its task holds.                                 *)
(*                                                                         *)
(* RwSem, at the end, counts nothing and needs no grace period for its     *)
(* descriptors: whoever is in a probe is in one that is still registered,  *)
(* or is waited for by unregister_kprobe.                                  *)
(***************************************************************************)
EXTENDS RwSem, TLAPS, FiniteSetTheorems

USE TasksAssumption, NumbersAssumption

-----------------------------------------------------------------------------
(* Types, and the counter.                                                 *)

Places == Atomic \cup {"wait"} \cup Outside

\* The tasks that are inside the hooks and have counted themselves in.
CountedIn == {t \in Tasks : pc[t] \in Counted}
Counting == running = Cardinality(CountedIn)

\* Between two of its requests, and while it only waits, the controller is not
\* taking or holding text_mutex.
CtlIdle == cpc \in {"off", "sync", "drain"} => pc[Ctl] = "idle"

TypeInv == TypeOK /\ Counting /\ CtlIdle

LEMMA CountedInFinite == IsFiniteSet(CountedIn) /\ Cardinality(CountedIn) \in Nat
<1>1. CountedIn \subseteq Tasks
  BY DEF CountedIn
<1> QED BY <1>1, FS_Subset, FS_CardinalityType

\* How the step of one task changes the set.
LEMMA CountedInStep ==
  ASSUME TypeOK, NEW t \in Tasks, NEW p, Goto(t, p)
  PROVE  CountedIn' = IF p \in Counted THEN CountedIn \cup {t} ELSE CountedIn \ {t}
BY DEF TypeOK, Goto, CountedIn

\* A step that leaves the task on its side of the counter leaves it true.
LEMMA SameSide ==
  ASSUME TypeInv, NEW t \in Tasks, NEW p, Goto(t, p), running' = running,
         p \in Counted <=> pc[t] \in Counted
  PROVE  Counting'
<1>1. CountedIn' = CountedIn
  <2>1. CASE p \in Counted
    BY <2>1, CountedInStep DEF TypeInv, CountedIn
  <2>2. CASE p \notin Counted
    BY <2>2, CountedInStep DEF TypeInv, CountedIn
  <2> QED BY <2>1, <2>2
<1> QED BY <1>1 DEF TypeInv, Counting

LEMMA CountsIn ==
  ASSUME TypeInv, NEW t \in Tasks, NEW p, Goto(t, p), running' = running + 1,
         p \in Counted, pc[t] \notin Counted
  PROVE  Counting'
<1>1. CountedIn' = CountedIn \cup {t} /\ t \notin CountedIn
  BY CountedInStep DEF TypeInv, CountedIn
<1>2. Cardinality(CountedIn \cup {t}) = Cardinality(CountedIn) + 1
  BY <1>1, CountedInFinite, FS_AddElement
<1> QED BY <1>1, <1>2 DEF TypeInv, Counting

LEMMA CountsOut ==
  ASSUME TypeInv, NEW t \in Tasks, NEW p, Goto(t, p), running' = running - 1,
         p \notin Counted, pc[t] \in Counted
  PROVE  Counting' /\ running' \in Nat
<1>1. CountedIn' = CountedIn \ {t} /\ t \in CountedIn
  BY CountedInStep DEF TypeInv, CountedIn
<1>2. Cardinality(CountedIn \ {t}) = Cardinality(CountedIn) - 1
  BY <1>1, CountedInFinite, FS_RemoveElement
<1>3. Cardinality(CountedIn \ {t}) \in Nat
  BY <1>1, CountedInFinite, FS_RemoveElement, FS_CardinalityType
<1> QED BY <1>1, <1>2, <1>3 DEF TypeInv, Counting

\* A step after which every task is where it was.
LEMMA SamePlace ==
  ASSUME Counting, UNCHANGED <<pc, running>>
  PROVE  Counting'
BY DEF Counting, CountedIn

\* Only the controller itself can make it leave "idle".
LEMMA OthersLeaveCtl ==
  ASSUME TypeInv, NEW t \in Tasks, NEW p, Goto(t, p), cpc' = cpc, t = Ctl => pc[t] # "idle"
  PROVE  CtlIdle'
BY DEF TypeInv, TypeOK, CtlIdle, Goto

LEMMA AfterIs ==
  After("enter") = "seek" /\ After("hook") = "release" /\ After("release") = "leave"
BY DEF After

LEMMA SidesOfThePlaces ==
  /\ Atomic = {"jump", "find", "insert", "set", "store", "leave",
               "unjump", "seek", "judge", "clear", "release"}
  /\ Counted = {"find", "insert", "set", "store", "leave", "seek", "judge", "clear", "release",
                "wait"}
  /\ Outside = {"idle", "orig", "held"}
BY DEF Atomic, Counted, Outside

-----------------------------------------------------------------------------
LEMMA TypeInit == Init => TypeInv
<1> SUFFICES ASSUME Init PROVE TypeInv
  OBVIOUS
<1>1. TypeOK
  BY DEF Init, TypeOK, Outside
<1>2. CountedIn = {}
  BY SidesOfThePlaces DEF Init, CountedIn
<1> QED BY <1>1, <1>2, FS_EmptySet DEF Init, TypeInv, Counting, CtlIdle

\* A task inside mutex_lock.
LEMMA TypeLock ==
  ASSUME TypeInv, NEW t \in Tasks,
         CallLock(t) \/ Acquire(t) \/ InLock(t)
  PROVE  TypeInv'
<1> USE SidesOfThePlaces DEF TypeInv, hookVars, mutexVars, settings, control
<1>1. CASE CallLock(t)
  <2>1. TypeOK' BY <1>1 DEF CallLock, Goto, TypeOK
  <2>2. Counting' BY <1>1, SameSide DEF CallLock
  <2>9. CtlIdle' BY <1>1, OthersLeaveCtl DEF CallLock
  <2> QED BY <2>1, <2>2, <2>9
<1>2. CASE Acquire(t)
  <2>1. TypeOK' BY <1>2 DEF Acquire, Goto, TypeOK
  <2>2. Counting' BY <1>2, SameSide DEF Acquire
  <2>9. CtlIdle' BY <1>2, OthersLeaveCtl DEF Acquire
  <2> QED BY <2>1, <2>2, <2>9
<1>3. CASE EnterLock(t)
  <2>1. TypeOK' BY <1>3 DEF EnterLock, Goto, TypeOK
  <2>2. Counting' BY <1>3, CountsIn DEF EnterLock
  <2>9. CtlIdle' BY <1>3, OthersLeaveCtl DEF EnterLock
  <2> QED BY <2>1, <2>2, <2>9
<1>4. CASE FindDesc(t)
  <2>1. TypeOK' BY <1>4 DEF FindDesc, Goto, TypeOK
  <2>2. Counting' BY <1>4, SameSide DEF FindDesc
  <2>9. CtlIdle' BY <1>4, OthersLeaveCtl DEF FindDesc
  <2> QED BY <2>1, <2>2, <2>9
<1>5. CASE InsertDesc(t)
  <2>1. TypeOK' BY <1>5 DEF InsertDesc, Goto, TypeOK
  <2>2. Counting' BY <1>5, SameSide DEF InsertDesc
  <2>9. CtlIdle' BY <1>5, OthersLeaveCtl DEF InsertDesc
  <2> QED BY <2>1, <2>2, <2>9
<1>6. CASE InsertFails(t)
  <2>1. TypeOK' BY <1>6 DEF InsertFails, Goto, TypeOK
  <2>2. Counting' BY <1>6, SameSide DEF InsertFails
  <2>9. CtlIdle' BY <1>6, OthersLeaveCtl DEF InsertFails
  <2> QED BY <2>1, <2>2, <2>9
<1>8. CASE InsertLost(t)
  <2>1. TypeOK' BY <1>8 DEF InsertLost, Goto, TypeOK
  <2>2. Counting' BY <1>8, SameSide DEF InsertLost
  <2>9. CtlIdle' BY <1>8, OthersLeaveCtl DEF InsertLost
  <2> QED BY <2>1, <2>2, <2>9
<1>7. CASE SetLockTime(t)
  <2>1. now \in Nat
    BY DEF TypeOK
  <2>2. lockTime' \in [Descs -> Nat] /\ stamp' \in [Tasks -> Nat]
    BY <1>7, <2>1 DEF SetLockTime, TypeOK
  <2>3. TypeOK' BY <1>7, <2>2 DEF SetLockTime, Goto, TypeOK
  <2>4. Counting' BY <1>7, SameSide DEF SetLockTime
  <2>5. CtlIdle' BY <1>7, OthersLeaveCtl DEF SetLockTime
  <2> QED BY <2>3, <2>4, <2>5
<1> QED BY <1>1, <1>2, <1>3, <1>4, <1>5, <1>6, <1>7, <1>8 DEF InLock

\* A task inside mutex_unlock, and at the end of a hook.
LEMMA TypeUnlock ==
  ASSUME TypeInv, NEW t \in Tasks,
         CallUnlock(t) \/ InUnlock(t) \/ Leave(t)
  PROVE  TypeInv'
<1> USE SidesOfThePlaces, AfterIs DEF TypeInv, hookVars, mutexVars, settings, control
<1>1. CASE CallUnlock(t)
  <2>1. TypeOK' BY <1>1 DEF CallUnlock, Released, Goto, TypeOK
  <2>2. \E p \in {"unjump", "idle"} : Goto(t, p)
    BY <1>1 DEF CallUnlock
  <2>3. Counting' BY <1>1, <2>2, SameSide DEF CallUnlock
  <2>9. CtlIdle' BY <1>1, <2>2, OthersLeaveCtl DEF CallUnlock
  <2> QED BY <2>1, <2>3, <2>9
<1>2. CASE EnterUnlock(t)
  <2>1. TypeOK' BY <1>2 DEF EnterUnlock, Goto, TypeOK
  <2>2. Counting' BY <1>2, CountsIn DEF EnterUnlock
  <2>9. CtlIdle' BY <1>2, OthersLeaveCtl DEF EnterUnlock
  <2> QED BY <2>1, <2>2, <2>9
<1>3. CASE SeekDesc(t)
  <2>1. TypeOK' BY <1>3 DEF SeekDesc, Goto, TypeOK
  <2>2. Counting' BY <1>3, SameSide DEF SeekDesc
  <2>9. CtlIdle' BY <1>3, OthersLeaveCtl DEF SeekDesc
  <2> QED BY <2>1, <2>2, <2>9
<1>4. CASE Judge(t)
  <2>1. TypeOK' BY <1>4 DEF Judge, Goto, TypeOK
  <2>2. Counting' BY <1>4, SameSide DEF Judge
  <2>9. CtlIdle' BY <1>4, OthersLeaveCtl DEF Judge
  <2> QED BY <2>1, <2>2, <2>9
<1>5. CASE ClearLockTime(t)
  <2>1. TypeOK' BY <1>5 DEF ClearLockTime, Goto, TypeOK
  <2>2. Counting' BY <1>5, SameSide DEF ClearLockTime
  <2>9. CtlIdle' BY <1>5, OthersLeaveCtl DEF ClearLockTime
  <2> QED BY <2>1, <2>2, <2>9
<1>6. CASE Release(t)
  <2>1. TypeOK' BY <1>6 DEF Release, Released, Goto, TypeOK
  <2>2. Counting' BY <1>6, SameSide DEF Release
  <2>9. CtlIdle' BY <1>6, OthersLeaveCtl DEF Release
  <2> QED BY <2>1, <2>2, <2>9
<1>7. CASE Leave(t)
  <2>1. Counting' /\ running' \in Nat BY <1>7, CountsOut DEF Leave, CountedOut
  <2>2. TypeOK' BY <1>7, <2>1 DEF Leave, Goto, TypeOK
  <2>9. CtlIdle' BY <1>7, OthersLeaveCtl DEF Leave
  <2> QED BY <2>1, <2>2, <2>9
<1> QED BY <1>1, <1>2, <1>3, <1>4, <1>5, <1>6, <1>7 DEF InUnlock

\* The controller, the clock and SET.
LEMMA TypeRest ==
  ASSUME TypeInv, Controller \/ Tick \/ SetTest \/ SetAssign \/ UNCHANGED vars
  PROVE  TypeInv'
<1> USE SidesOfThePlaces DEF TypeInv, CtlIdle, hookVars, mutexVars, settings, control
<1>1. CASE Activate
  <2>1. TypeOK' BY <1>1 DEF Activate, TakeTextMutex, Goto, TypeOK
  <2>2. Counting' BY <1>1, SameSide DEF Activate, TakeTextMutex
  <2>3. CtlIdle' BY <1>1 DEF Activate, TakeTextMutex, Goto
  <2> QED BY <2>1, <2>2, <2>3
<1>2. CASE InstallLock
  BY <1>2, SamePlace DEF InstallLock, TypeOK
<1>3. CASE InstallUnlock
  <2>1. TypeOK' BY <1>3 DEF InstallUnlock, Goto, TypeOK
  <2>2. Counting' BY <1>3, SameSide DEF InstallUnlock
  <2>3. CtlIdle' BY <1>3 DEF InstallUnlock, Goto
  <2> QED BY <2>1, <2>2, <2>3
<1>4. CASE Activated
  BY <1>4, SamePlace DEF Activated, TypeOK
<1>5. CASE RemoveLock
  BY <1>5, SamePlace DEF RemoveLock, TypeOK
<1>6. CASE RemoveUnlock
  <2>1. TypeOK' BY <1>6 DEF RemoveUnlock, Unpatched, Goto, TypeOK
  <2>2. Counting' BY <1>6, SameSide DEF RemoveUnlock
  <2>3. CtlIdle' BY <1>6 DEF RemoveUnlock, Goto
  <2> QED BY <2>1, <2>2, <2>3
<1>7. CASE CleanDetach
  BY <1>7, SamePlace DEF CleanDetach, InTree, GracePeriod, TypeOK
<1>8. CASE CleanFree
  BY <1>8, SamePlace DEF CleanFree, GracePeriod, TypeOK
<1>9. CASE Deactivated
  BY <1>9, SamePlace DEF Deactivated, TypeOK
<1>10. CASE Tick
  BY <1>10, SamePlace DEF Tick, TypeOK
<1>11. CASE SetTest
  BY <1>11, SamePlace DEF SetTest, TypeOK
<1>12. CASE SetAssign
  BY <1>12, SamePlace DEF SetAssign, TypeOK
<1>13. CASE UNCHANGED vars
  BY <1>13, SamePlace DEF vars, TypeOK
<1>14. CASE Deactivate
  <2>1. TypeOK' BY <1>14 DEF Deactivate, TakeTextMutex, Goto, TypeOK
  <2>2. Counting' BY <1>14, SameSide DEF Deactivate, TakeTextMutex
  <2>3. CtlIdle' BY <1>14 DEF Deactivate
  <2> QED BY <2>1, <2>2, <2>3
<1> QED BY <1>1, <1>2, <1>3, <1>4, <1>5, <1>6, <1>7, <1>8, <1>9, <1>10, <1>11, <1>12,
           <1>13, <1>14 DEF Controller

LEMMA TypeNext == TypeInv /\ [Next]_vars => TypeInv'
<1> SUFFICES ASSUME TypeInv, [Next]_vars PROVE TypeInv'
  OBVIOUS
<1>1. ASSUME NEW t \in Tasks, Task(t) PROVE TypeInv'
  BY <1>1, TypeLock, TypeUnlock DEF Task, Hook
<1> QED BY <1>1, TypeRest DEF Next

\* The type invariant: diag_nr_running is never negative, because it is the number
\* of the tasks that new_mutex_lock and new_mutex_unlock have counted in.
THEOREM TypeCorrect == Spec => []TypeOK
<1>1. TypeInv => TypeOK
  BY DEF TypeInv
<1> QED BY TypeInit, TypeNext, <1>1, PTL DEF Spec

-----------------------------------------------------------------------------
(* The memory of the descriptors.                                          *)

\* Where a hook is about to use the descriptor it has looked up.
Working == {"set", "judge", "clear"}

\* The grace period of clean_data is under way as long as descriptors are doomed; the
\* tree gives each descriptor to one mutex, and none that got lost; and a hook's
\* descriptor is in the tree, or doomed while the grace period still waits for the hook,
\* or lost, which only the hook that lost it may come to work on.
MemInv ==
  /\ doomed # {} => cpc = "sync"
  /\ \A m, n \in Mutexes : tree[m] # None /\ tree[m] = tree[n] => m = n
  /\ \A m \in Mutexes : tree[m] \notin doomed \cup stray
  /\ \A t \in Tasks : pc[t] \in Working =>
       /\ ptr[t] # None
       /\ \/ tree[mx[t]] = ptr[t]
          \/ ptr[t] \in doomed /\ t \in gp
          \/ ptr[t] \in stray /\ pc[t] = "set"

\* A task inside mutex_lock.
LEMMA MemLock ==
  ASSUME TypeInv, MemInv, NEW t \in Tasks,
         CallLock(t) \/ Acquire(t) \/ InLock(t)
  PROVE  MemInv'
<1> USE SidesOfThePlaces, AfterIs DEF TypeInv, TypeOK, MemInv, Working, Goto,
      hookVars, mutexVars, settings, control
<1>1. CASE CallLock(t)
  BY <1>1 DEF CallLock
<1>2. CASE Acquire(t)
  BY <1>2 DEF Acquire
<1>3. CASE EnterLock(t)
  BY <1>3 DEF EnterLock
<1>4. CASE FindDesc(t)
  BY <1>4 DEF FindDesc
<1>5. CASE InsertDesc(t)
  BY <1>5 DEF InsertDesc, Live, InTree
<1>6. CASE InsertFails(t)
  BY <1>6 DEF InsertFails
<1>8. CASE InsertLost(t)
  BY <1>8 DEF InsertLost, Live, InTree
<1>7. CASE SetLockTime(t)
  BY <1>7 DEF SetLockTime
<1> QED BY <1>1, <1>2, <1>3, <1>4, <1>5, <1>6, <1>7, <1>8 DEF InLock

\* A task inside mutex_unlock, and at the end of a hook.
LEMMA MemUnlock ==
  ASSUME TypeInv, MemInv, NEW t \in Tasks,
         CallUnlock(t) \/ InUnlock(t) \/ Leave(t)
  PROVE  MemInv'
<1> USE SidesOfThePlaces, AfterIs DEF TypeInv, TypeOK, MemInv, Working, Goto,
      hookVars, mutexVars, settings, control
<1>1. CASE CallUnlock(t)
  BY <1>1 DEF CallUnlock, Released
<1>2. CASE EnterUnlock(t)
  BY <1>2 DEF EnterUnlock
<1>3. CASE SeekDesc(t)
  BY <1>3 DEF SeekDesc
<1>4. CASE Judge(t)
  BY <1>4 DEF Judge
<1>5. CASE ClearLockTime(t)
  BY <1>5 DEF ClearLockTime
<1>6. CASE Release(t)
  BY <1>6 DEF Release, Released
<1>7. CASE Leave(t)
  BY <1>7 DEF Leave
<1> QED BY <1>1, <1>2, <1>3, <1>4, <1>5, <1>6, <1>7 DEF InUnlock

\* The controller, the clock and SET.
LEMMA MemRest ==
  ASSUME TypeInv, MemInv, Controller \/ Tick \/ SetTest \/ SetAssign \/ UNCHANGED vars
  PROVE  MemInv'
<1> USE SidesOfThePlaces DEF CtlIdle, TypeInv, TypeOK, MemInv, Working, Goto,
      hookVars, mutexVars, settings, control
<1>1. CASE Activate
  BY <1>1 DEF Activate, TakeTextMutex
<1>2. CASE InstallLock
  BY <1>2 DEF InstallLock
<1>3. CASE InstallUnlock
  BY <1>3 DEF InstallUnlock
<1>4. CASE Activated
  BY <1>4 DEF Activated
<1>5. CASE Deactivate
  BY <1>5 DEF Deactivate, TakeTextMutex
<1>6. CASE RemoveLock
  BY <1>6 DEF RemoveLock
<1>7. CASE RemoveUnlock
  BY <1>7 DEF RemoveUnlock
<1>8. CASE CleanDetach
  BY <1>8 DEF CleanDetach, InTree, GracePeriod
<1>9. CASE CleanFree
  <2>1. gp = {} /\ doomed' = {} /\ UNCHANGED <<tree, stray, pc, mx, ptr>>
    BY <1>9 DEF CleanFree, GraceOver
  <2> HIDE DEF TypeInv, TypeOK
  <2> QED BY <2>1
<1>10. CASE Deactivated
  BY <1>10 DEF Deactivated
<1>11. CASE Tick
  BY <1>11 DEF Tick
<1>12. CASE SetTest
  BY <1>12 DEF SetTest
<1>13. CASE SetAssign
  BY <1>13 DEF SetAssign
<1>14. CASE UNCHANGED vars
  BY <1>14 DEF vars
<1> QED BY <1>1, <1>2, <1>3, <1>4, <1>5, <1>6, <1>7, <1>8, <1>9, <1>10, <1>11, <1>12, <1>13,
           <1>14 DEF Controller

LEMMA MemNext == TypeInv /\ MemInv /\ [Next]_vars => MemInv'
<1> SUFFICES ASSUME TypeInv, MemInv, [Next]_vars PROVE MemInv'
  OBVIOUS
<1>1. ASSUME NEW t \in Tasks, Task(t) PROVE MemInv'
  BY <1>1, MemLock, MemUnlock DEF Task, Hook
<1> QED BY <1>1, MemRest DEF Next

\* No hook uses a descriptor that clean_data has freed, although hooks look up and
\* use descriptors without a lock: synchronize_sched waits for them.
THEOREM NeverUsesFreed == Spec => []NoUseAfterFree
<1>1. Init => MemInv
  BY SidesOfThePlaces DEF Init, MemInv, Working
<1>2. TypeInv /\ MemInv => NoUseAfterFree
  BY DEF TypeInv, TypeOK, MemInv, NoUseAfterFree, Working, Live, InTree
<1> QED BY TypeInit, TypeNext, <1>1, MemNext, <1>2, PTL DEF Spec

-----------------------------------------------------------------------------
(* The times in the tree.                                                  *)

Holding == {"find", "insert", "set", "held", "unjump", "seek", "judge", "clear", "release"}

\* A task that is past mutex_lock and not past mutex_unlock owns its mutex, and a time
\* that its hook has put into the tree is still there.
HoldInv ==
  /\ \A t \in Tasks : pc[t] \in Holding => owner[mx[t]] = t
  /\ \A t \in Tasks : stamp[t] # 0 =>
       /\ pc[t] \in Holding \cup {"leave"} /\ owner[mx[t]] = t
       /\ tree[mx[t]] # None /\ lockTime[tree[mx[t]]] = stamp[t]
       /\ pc[t] \in {"judge", "clear"} => ptr[t] = tree[mx[t]]

\* A task inside mutex_lock.
LEMMA HoldLock ==
  ASSUME TypeInv, MemInv, HoldInv, NEW t \in Tasks,
         CallLock(t) \/ Acquire(t) \/ InLock(t)
  PROVE  HoldInv'
<1> USE SidesOfThePlaces, AfterIs DEF TypeInv, TypeOK, MemInv, HoldInv, Working, Holding, Goto,
      hookVars, mutexVars, settings, control
<1>1. CASE CallLock(t)
  BY <1>1 DEF CallLock
<1>2. CASE Acquire(t)
  BY <1>2 DEF Acquire
<1>3. CASE EnterLock(t)
  BY <1>3 DEF EnterLock
<1>4. CASE FindDesc(t)
  BY <1>4 DEF FindDesc
<1>5. CASE InsertDesc(t)
  BY <1>5 DEF InsertDesc, Live, InTree
<1>6. CASE InsertFails(t)
  BY <1>6 DEF InsertFails
<1>8. CASE InsertLost(t)
  BY <1>8 DEF InsertLost, Live, InTree
<1>7. CASE SetLockTime(t)
  BY <1>7 DEF SetLockTime
<1> QED BY <1>1, <1>2, <1>3, <1>4, <1>5, <1>6, <1>7, <1>8 DEF InLock

\* A task inside mutex_unlock, and at the end of a hook.
LEMMA HoldUnlock ==
  ASSUME TypeInv, MemInv, HoldInv, NEW t \in Tasks,
         CallUnlock(t) \/ InUnlock(t) \/ Leave(t)
  PROVE  HoldInv'
<1> USE SidesOfThePlaces, AfterIs DEF TypeInv, TypeOK, MemInv, HoldInv, Working, Holding, Goto,
      hookVars, mutexVars, settings, control
<1>1. CASE CallUnlock(t)
  BY <1>1 DEF CallUnlock, Released
<1>2. CASE EnterUnlock(t)
  BY <1>2 DEF EnterUnlock
<1>3. CASE SeekDesc(t)
  BY <1>3 DEF SeekDesc
<1>4. CASE Judge(t)
  BY <1>4 DEF Judge
<1>5. CASE ClearLockTime(t)
  BY <1>5 DEF ClearLockTime
<1>6. CASE Release(t)
  BY <1>6 DEF Release, Released
<1>7. CASE Leave(t)
  BY <1>7 DEF Leave
<1> QED BY <1>1, <1>2, <1>3, <1>4, <1>5, <1>6, <1>7 DEF InUnlock

\* The controller, the clock and SET.
LEMMA HoldRest ==
  ASSUME TypeInv, MemInv, HoldInv,
         Controller \/ Tick \/ SetTest \/ SetAssign \/ UNCHANGED vars
  PROVE  HoldInv'
<1> USE SidesOfThePlaces DEF CtlIdle, TypeInv, TypeOK, MemInv, HoldInv, Working, Holding, Goto,
      hookVars, mutexVars, settings, control
<1>1. CASE Activate
  BY <1>1 DEF Activate, TakeTextMutex
<1>2. CASE InstallLock
  BY <1>2 DEF InstallLock
<1>3. CASE InstallUnlock
  BY <1>3 DEF InstallUnlock
<1>4. CASE Activated
  BY <1>4 DEF Activated
<1>5. CASE Deactivate
  BY <1>5 DEF Deactivate, TakeTextMutex
<1>6. CASE RemoveLock
  BY <1>6 DEF RemoveLock
<1>7. CASE RemoveUnlock
  BY <1>7 DEF RemoveUnlock
<1>8. CASE CleanDetach
  BY <1>8 DEF CleanDetach, InTree, GracePeriod
<1>9. CASE CleanFree
  BY <1>9 DEF CleanFree, GracePeriod
<1>10. CASE Deactivated
  BY <1>10 DEF Deactivated
<1>11. CASE Tick
  BY <1>11 DEF Tick
<1>12. CASE SetTest
  BY <1>12 DEF SetTest
<1>13. CASE SetAssign
  BY <1>13 DEF SetAssign
<1>14. CASE UNCHANGED vars
  BY <1>14 DEF vars
<1> QED BY <1>1, <1>2, <1>3, <1>4, <1>5, <1>6, <1>7, <1>8, <1>9, <1>10, <1>11, <1>12, <1>13,
           <1>14 DEF Controller

LEMMA HoldNext == TypeInv /\ MemInv /\ HoldInv /\ [Next]_vars => HoldInv'
<1> SUFFICES ASSUME TypeInv, MemInv, HoldInv, [Next]_vars PROVE HoldInv'
  OBVIOUS
<1>1. ASSUME NEW t \in Tasks, Task(t) PROVE HoldInv'
  BY <1>1, HoldLock, HoldUnlock DEF Task, Hook
<1> QED BY <1>1, HoldRest DEF Next

LEMMA AllInvariants == Spec => [](TypeInv /\ MemInv /\ HoldInv)
<1>1. Init => MemInv /\ HoldInv
  BY SidesOfThePlaces DEF Init, MemInv, HoldInv, Working, Holding
<1> QED BY TypeInit, TypeNext, <1>1, MemNext, HoldNext, PTL DEF Spec

\* The descriptor of a mutex whose holder was timed carries the holder's own time,
\* whatever other tasks, the clean-up and the reuse of descriptors do meanwhile.
THEOREM HolderAlwaysTimed == Spec => []HolderIsTimed
<1>1. HoldInv => HolderIsTimed
  BY DEF HoldInv, HolderIsTimed
<1> QED BY AllInvariants, <1>1, PTL

-----------------------------------------------------------------------------
(* The threshold.                                                          *)

\* As long as the thresholds in nanoseconds fit an int, the conversion keeps them.
LEMMA ScaledIs ==
  ASSUME NEW th \in Nat, th * NsPerMs <= IntMax
  PROVE  Scaled(th) = th * NsPerMs
<1> DEFINE p == th * NsPerMs
           w == 2 * (IntMax + 1)
<1>1. p \in Nat /\ w \in Nat \ {0} /\ p < w
  OBVIOUS
<1>2. p % w = p
  <2> HIDE DEF p, w
  <2> QED BY <1>1
<1> QED BY <1>1, <1>2 DEF Scaled

\* The times in the tree are not in the future.
Past == \A d \in Descs : lockTime[d] <= now

LEMMA PastNext == TypeInv /\ Past /\ [Next]_vars => Past'
<1> SUFFICES ASSUME TypeInv, Past, [Next]_vars PROVE Past'
  OBVIOUS
<1>1. now \in Nat /\ now' \in Nat /\ lockTime \in [Descs -> Nat] /\ lockTime' \in [Descs -> Nat]
  BY TypeNext DEF TypeInv, TypeOK
<1>2. CASE UNCHANGED <<now, lockTime>>
  BY <1>2 DEF Past
<1>3. CASE Tick
  BY <1>1, <1>3 DEF Tick, Past, hookVars
<1>4. CASE CleanFree
  BY <1>1, <1>4 DEF CleanFree, Past
<1>5. ASSUME NEW t \in Tasks, SetLockTime(t) \/ ClearLockTime(t) PROVE Past'
  BY <1>1, <1>5 DEF SetLockTime, ClearLockTime, Past
<1>6. ASSUME NEW t \in Tasks, Task(t), ~SetLockTime(t), ~ClearLockTime(t)
      PROVE  UNCHANGED <<now, lockTime>>
  BY <1>6 DEF Task, Hook, InLock, InUnlock, CallLock, Acquire, EnterLock, FindDesc, InsertDesc,
     InsertLost, InsertFails, CallUnlock, EnterUnlock, SeekDesc, Judge, Release, Released, Leave, hookVars
<1>7. ASSUME Controller, ~CleanFree PROVE UNCHANGED <<now, lockTime>>
  BY <1>7 DEF Controller, Activate, InstallLock, InstallUnlock, Activated, Deactivate, RemoveLock,
     RemoveUnlock, CleanDetach, Deactivated, hookVars
<1>8. ASSUME SetTest \/ SetAssign \/ UNCHANGED vars PROVE UNCHANGED <<now, lockTime>>
  BY <1>8 DEF SetTest, SetAssign, vars, hookVars
<1> QED BY <1>2, <1>3, <1>4, <1>5, <1>6, <1>7, <1>8 DEF Next

\* A timed hold is reported exactly if it lasted longer than the threshold, provided
\* that no threshold overflows an int when it is converted to nanoseconds.
THEOREM LongHoldsAlwaysReported ==
  ASSUME \A th \in Thresholds : th * NsPerMs <= IntMax
  PROVE  Spec => LongHoldsReported
<1> DEFINE Exact == \A t \in Tasks : stamp[t] # 0 /\ Judge(t) =>
                      (Reports(t) <=> now - stamp[t] > threshold * NsPerMs)
<1>1. TypeInv /\ MemInv /\ HoldInv /\ Past => Exact
  <2> SUFFICES ASSUME TypeInv, MemInv, HoldInv, Past, NEW t \in Tasks, stamp[t] # 0, Judge(t)
               PROVE  Reports(t) <=> now - stamp[t] > threshold * NsPerMs
    OBVIOUS
  <2>1. now \in Nat /\ threshold \in Nat /\ stamp[t] \in Nat /\ threshold \in Thresholds
    BY DEF TypeInv, TypeOK
  <2>2. tree[mx[t]] \in Descs /\ lockTime[tree[mx[t]]] = stamp[t]
    BY DEF TypeInv, TypeOK, HoldInv
  <2>3. ptr[t] = tree[mx[t]]
    BY DEF HoldInv, Judge
  <2>4. lockTime[ptr[t]] = stamp[t] /\ stamp[t] <= now
    BY <2>2, <2>3 DEF Past
  <2>5. threshold * NsPerMs \in Nat /\ Scaled(threshold) = threshold * NsPerMs
    BY <2>1, ScaledIs
  <2> QED BY <2>1, <2>4, <2>5 DEF Reports, Timed, Exceeds, Delay
<1>2. Init => Past
  BY DEF Init, Past
<1> QED BY AllInvariants, <1>1, <1>2, PastNext, PTL DEF Spec, LongHoldsReported

-----------------------------------------------------------------------------
(* What is patched.                                                        *)

\* The patches that are in place at each step of an activation and a deactivation; and
\* what the SET request has tested is still so when it assigns.
PatchInv ==
  /\ cpc = "off" => hooks = IF activated THEN {"lock", "unlock"} ELSE {}
  /\ cpc = "install" => ~activated /\ "unlock" \notin hooks
  /\ cpc = "activate" => ~activated /\ hooks = {"lock", "unlock"}
  /\ cpc = "remove" => activated /\ "unlock" \in hooks
  /\ cpc \in {"clean", "sync", "drain"} => activated /\ hooks = {}
  /\ spc = "copy" => cpc = "off" /\ ~activated

LEMMA PatchNext == OneOperator /\ TypeInv /\ PatchInv /\ [Next]_vars => PatchInv'
<1> SUFFICES ASSUME OneOperator, TypeInv, PatchInv, [Next]_vars PROVE PatchInv'
  OBVIOUS
<1> USE DEF TypeInv, TypeOK, PatchInv, settings, control, hookVars, mutexVars
<1>1. CASE UNCHANGED <<hooks, activated, cpc, spc>>
  BY <1>1
<1>2. CASE Activate
  BY <1>2 DEF Activate
<1>3. CASE InstallLock
  BY <1>3 DEF InstallLock
<1>4. CASE InstallUnlock
  <2>1. cpc = "install" /\ cpc' = "activate" /\ UNCHANGED <<activated, spc>>
    BY <1>4 DEF InstallUnlock
  <2>2. hooks' = {"lock", "unlock"}
    BY <1>4 DEF InstallUnlock
  <2> HIDE DEF TypeInv, TypeOK
  <2> QED BY <2>1, <2>2
<1>5. CASE Activated
  BY <1>5 DEF Activated
<1>6. CASE Deactivate
  BY <1>6 DEF Deactivate
<1>7. CASE RemoveLock
  BY <1>7 DEF RemoveLock
<1>8. CASE RemoveUnlock
  BY <1>8 DEF RemoveUnlock, Unpatched
<1>9. CASE CleanDetach
  BY <1>9 DEF CleanDetach
<1>10. CASE CleanFree
  BY <1>10 DEF CleanFree
<1>11. CASE Deactivated
  BY <1>11 DEF Deactivated
<1>12. CASE SetTest
  BY <1>12 DEF SetTest
<1>13. CASE SetAssign
  BY <1>13 DEF SetAssign
<1>14. ASSUME NEW t \in Tasks, Task(t) PROVE UNCHANGED <<hooks, activated, cpc, spc>>
  BY <1>14 DEF Task, Hook, InLock, InUnlock, CallLock, Acquire, EnterLock, FindDesc, InsertDesc,
     InsertLost, InsertFails, SetLockTime, CallUnlock, EnterUnlock, SeekDesc, Judge, ClearLockTime, Release, Leave
<1>15. ASSUME Tick \/ UNCHANGED vars PROVE UNCHANGED <<hooks, activated, cpc, spc>>
  BY <1>15 DEF Tick, vars
<1> QED BY <1>1, <1>2, <1>3, <1>4, <1>5, <1>6, <1>7, <1>8, <1>9, <1>10, <1>11, <1>12, <1>13,
           <1>14, <1>15 DEF Next, Controller

\* The functions are patched exactly while the monitor is activated, provided that no SET
\* is under way next to another request: the race that run mm_off shows is all there is.
THEOREM OffAlwaysUnpatched == ASSUME OneOperator PROVE Spec => []OffMeansUnpatched
<1>1. Init => PatchInv
  BY DEF Init, PatchInv
<1>2. TypeInv /\ PatchInv /\ [Next]_vars => PatchInv'
  BY PatchNext
<1>3. PatchInv => OffMeansUnpatched
  BY DEF PatchInv, OffMeansUnpatched
<1> QED BY AllInvariants, <1>1, <1>2, <1>3, PTL DEF Spec

-----------------------------------------------------------------------------
(* RwSem: where everybody is.                                              *)

InUp == {"seek", "judge", "clear"}
InDown == InProbe \ InUp

\* The function whose probe a task is in.
ProbeOf(t) == IF pc[t] \in InUp THEN "up_write" ELSE call[t]

\* The second half of deactivate_rw_sem, and until the next activation.
Settled == cpc \in {"sync", "drain"} \/ (cpc = "off" /\ ~activated)

\* Whoever is in a probe is in one that is registered, or unregister_kprobe waits for
\* it; and the probes are taken away one after the other.
RunInv ==
  /\ \A t \in Tasks : pc[t] \in InProbe =>
       ProbeOf(t) \in hooks \/ (t \in gp /\ cpc \in {"unhook2", "unhook3", "clean"})
  /\ \A t \in Tasks : pc[t] \in InDown \cup {"orig"} => call[t] \in Downs
  /\ cpc \in {"unhook2", "unhook3", "clean"} => "down_write" \notin hooks
  /\ cpc \in {"unhook3", "clean"} => "down_write_killable" \notin hooks
  /\ cpc = "clean" \/ Settled => hooks = {}

LEMMA RwPlaces ==
  /\ InProbe = {"find", "insert", "set", "store", "leave", "seek", "judge", "clear"}
  /\ InDown = {"find", "insert", "set", "store", "leave"}
  /\ Downs = {"down_write", "down_write_killable"}
  /\ {Probes[i] : i \in 1..3} = {"down_write", "down_write_killable", "up_write"}
<1>1. 1..3 = {1, 2, 3}
  OBVIOUS
<1>2. Probes[1] = "down_write" /\ Probes[2] = "down_write_killable" /\ Probes[3] = "up_write"
  BY DEF Probes
<1> QED BY <1>1, <1>2 DEF InProbe, InDown, InUp, Downs

\* Which place of the controller follows which, and which probe is between them.
LEMMA HookSteps ==
  ASSUME NEW i \in 1..3
  PROVE  /\ Hooking[i] \in {"hook1", "hook2", "hook3"}
         /\ Hooking[i + 1] \in {"hook2", "hook3", "activate"}
         /\ \/ /\ Unhooking[i] = "unhook1" /\ Unhooking[i + 1] = "unhook2"
               /\ Probes[i] = "down_write"
            \/ /\ Unhooking[i] = "unhook2" /\ Unhooking[i + 1] = "unhook3"
               /\ Probes[i] = "down_write_killable"
            \/ /\ Unhooking[i] = "unhook3" /\ Unhooking[i + 1] = "clean"
               /\ Probes[i] = "up_write"
<1>1. i = 1 \/ i = 2 \/ i = 3
  OBVIOUS
<1> QED BY <1>1 DEF Hooking, Unhooking, Probes

\* The step of a writer in down_write, and in up_write.
DownStep(t) ==
  \/ CallDown(t) \/ FindOrMake(t) \/ ReadClock(t) \/ StoreTime(t) \/ ProbeReturns(t)
  \/ Got(t) \/ GiveUp(t) \/ TryDown(t)
UpStep(t) == Downgrade(t) \/ CallUp(t) \/ SeekAndJudge(t) \/ ClearTime(t) \/ UpWrite(t)

LEMMA RwTypeInit == RwInit => RwTypeOK
<1> SUFFICES ASSUME RwInit PROVE RwTypeOK
  OBVIOUS
<1>1. NoTime \in [by : Tasks \cup {None}, at : Nat]
  BY DEF NoTime
<1>2. timer \in [Mutexes -> [by : Tasks \cup {None}, at : Nat]]
  BY <1>1 DEF RwInit
<1>3. call \in [Tasks -> Downs \cup {None}] /\ entry \in [Tasks -> Nat]
  BY DEF RwInit
<1> QED BY <1>2, <1>3, SidesOfThePlaces DEF RwInit, Init, RwTypeOK

LEMMA RwTypeDown ==
  ASSUME RwTypeOK, NEW t \in Tasks, DownStep(t)
  PROVE  RwTypeOK'
<1> USE SidesOfThePlaces, RwPlaces DEF Goto, hookVars, mutexVars, settings, control, mine
<1>1. CASE CallDown(t)
  BY <1>1 DEF CallDown, RwTypeOK
<1>2. CASE FindDesc(t) /\ UNCHANGED mine
  BY <1>2 DEF FindDesc, RwTypeOK
<1>3. CASE InsertDesc(t) /\ UNCHANGED mine
  BY <1>3 DEF InsertDesc, RwTypeOK
<1>4. CASE InsertFails(t) /\ UNCHANGED mine
  BY <1>4 DEF InsertFails, RwTypeOK
<1>11. CASE InsertLost(t) /\ UNCHANGED mine
  BY <1>11 DEF InsertLost, RwTypeOK
<1>5. CASE ReadClock(t)
  <2>1. now \in Nat
    BY DEF RwTypeOK
  <2>2. entry' \in [Tasks -> Nat]
    BY <1>5, <2>1 DEF ReadClock, RwTypeOK
  <2> QED BY <1>5, <2>2 DEF ReadClock, RwTypeOK
<1>6. CASE StoreTime(t)
  <2>1. entry[t] \in Nat /\ [by |-> t, at |-> entry[t]] \in [by : Tasks \cup {None}, at : Nat]
    BY DEF RwTypeOK
  <2>2. lockTime' \in [Descs -> Nat]
    BY <1>6, <2>1 DEF StoreTime, RwTypeOK
  <2>3. /\ entry' \in [Tasks -> Nat]
        /\ timer' \in [Mutexes -> [by : Tasks \cup {None}, at : Nat]]
    <3>1. TimeStored(t)
      BY <1>6 DEF StoreTime
    <3>2. /\ entry \in [Tasks -> Nat] /\ mx[t] \in Mutexes
          /\ timer \in [Mutexes -> [by : Tasks \cup {None}, at : Nat]]
      BY DEF RwTypeOK
    <3> HIDE DEF Goto, hookVars, mutexVars, settings, control, mine
    <3>3. CASE ptr[t] \in stray
      <4>1. entry' = [entry EXCEPT ![t] = 0] /\ timer' = timer
        BY <3>1, <3>3 DEF TimeStored
      <4> QED BY <3>2, <4>1
    <3>4. CASE ptr[t] \notin stray
      <4>1. timer' = [timer EXCEPT ![mx[t]] = [by |-> t, at |-> entry[t]]] /\ entry' = entry
        BY <3>1, <3>4 DEF TimeStored
      <4> QED BY <2>1, <3>2, <4>1
    <3> QED BY <3>3, <3>4
  <2> QED BY <1>6, <2>2, <2>3 DEF StoreTime, RwTypeOK
<1>7. CASE ProbeReturns(t)
  BY <1>7 DEF ProbeReturns, RwTypeOK
<1>8. CASE Got(t)
  BY <1>8 DEF Got, RwTypeOK
<1>9. CASE GiveUp(t)
  BY <1>9 DEF GiveUp, RwTypeOK
<1>10. CASE TryDown(t)
  BY <1>10 DEF TryDown, RwTypeOK
<1> QED BY <1>1, <1>2, <1>3, <1>4, <1>5, <1>6, <1>7, <1>8, <1>9, <1>10, <1>11 DEF DownStep, FindOrMake

LEMMA RwTypeUp ==
  ASSUME RwTypeOK, NEW t \in Tasks, UpStep(t)
  PROVE  RwTypeOK'
<1> USE SidesOfThePlaces, RwPlaces, AfterIs
    DEF Goto, Up, hookVars, mutexVars, settings, control, mine
<1>1. CASE Downgrade(t)
  BY <1>1 DEF Downgrade, RwTypeOK
<1>2. CASE CallUp(t)
  <2>1. CASE "up_write" \in hooks
    BY <1>2, <2>1 DEF CallUp, RwTypeOK
  <2>2. CASE "up_write" \notin hooks
    <3>1. Up(t) /\ UNCHANGED <<now, hookVars, since, settings, control, mx, call, timer>>
      BY <1>2, <2>2 DEF CallUp
    <3> QED BY <3>1 DEF RwTypeOK
  <2> QED BY <2>1, <2>2
<1>3. CASE SeekDesc(t) /\ UNCHANGED mine
  BY <1>3 DEF SeekDesc, RwTypeOK
<1>4. CASE Judge(t) /\ UNCHANGED mine
  BY <1>4 DEF Judge, RwTypeOK
<1>5. CASE ClearTime(t)
  <2>1. NoTime \in [by : Tasks \cup {None}, at : Nat]
    BY DEF NoTime
  <2>2. stamp' = stamp
    BY <1>5 DEF ClearTime, ClearLockTime, RwTypeOK
  <2> QED BY <1>5, <2>1, <2>2 DEF ClearTime, ClearLockTime, RwTypeOK
<1>6. CASE UpWrite(t)
  BY <1>6 DEF UpWrite, RwTypeOK
<1> QED BY <1>1, <1>2, <1>3, <1>4, <1>5, <1>6 DEF UpStep, SeekAndJudge

LEMMA RwTypeRest ==
  ASSUME RwTypeOK, RwController \/ RwSet \/ RwTick \/ UNCHANGED rwVars
  PROVE  RwTypeOK'
<1> USE SidesOfThePlaces, RwPlaces DEF hookVars, mutexVars, settings, control, mine, controllerSame
<1>1. CASE RwActivate
  BY <1>1 DEF RwActivate, Hooking, RwTypeOK
<1>2. ASSUME NEW i \in 1..3, HookKprobe(i) PROVE RwTypeOK'
  BY <1>2, HookSteps DEF HookKprobe, RwTypeOK
<1>3. CASE RwActivated
  BY <1>3 DEF RwActivated, Activated, RwTypeOK
<1>4. CASE RwDeactivate
  BY <1>4 DEF RwDeactivate, Unhooking, RwTypeOK
<1>5. ASSUME NEW i \in 1..3, UnhookKprobe(i) PROVE RwTypeOK'
  BY <1>5, HookSteps DEF UnhookKprobe, WaitsFor, GracePeriod, RwTypeOK
<1>6. CASE RwDetach
  <2>1. NoTime \in [by : Tasks \cup {None}, at : Nat]
    BY DEF NoTime
  <2> QED BY <1>6, <2>1 DEF RwDetach, CleanDetach, InTree, GracePeriod, RwTypeOK
<1>7. CASE CleanFree /\ UNCHANGED mine
  BY <1>7 DEF CleanFree, GracePeriod, RwTypeOK
<1>8. CASE Deactivated /\ UNCHANGED mine
  BY <1>8 DEF Deactivated, RwTypeOK
<1>9. CASE RwSet
  BY <1>9 DEF RwSet, RwTypeOK
<1>10. CASE RwTick
  BY <1>10 DEF RwTick, Tick, RwTypeOK
<1>11. CASE UNCHANGED rwVars
  BY <1>11 DEF rwVars, vars, RwTypeOK
<1> QED BY <1>1, <1>2, <1>3, <1>4, <1>5, <1>6, <1>7, <1>8, <1>9, <1>10, <1>11
        DEF RwController, RwClean

LEMMA RwTypeNext == RwTypeOK /\ [RwNext]_rwVars => RwTypeOK'
<1> SUFFICES ASSUME RwTypeOK, [RwNext]_rwVars PROVE RwTypeOK'
  OBVIOUS
<1>1. ASSUME NEW t \in Tasks, Writer(t) PROVE RwTypeOK'
  BY <1>1, RwTypeDown, RwTypeUp DEF Writer, DownStep, UpStep
<1> QED BY <1>1, RwTypeRest DEF RwNext

\* Every variable of RwSem has its type: a probe leaves diag_nr_running alone.
THEOREM RwTypeCorrect == RwSpec => []RwTypeOK
BY RwTypeInit, RwTypeNext, PTL DEF RwSpec

LEMMA RunDown ==
  ASSUME RwTypeOK, RunInv, NEW t \in Tasks, DownStep(t)
  PROVE  RunInv'
<1> USE SidesOfThePlaces, RwPlaces
    DEF RwTypeOK, RunInv, ProbeOf, InUp, Settled, Goto, hookVars, mutexVars, settings, control, mine
<1>1. CASE CallDown(t)
  BY <1>1 DEF CallDown
<1>2. CASE FindDesc(t) /\ UNCHANGED mine
  BY <1>2 DEF FindDesc
<1>3. CASE InsertDesc(t) /\ UNCHANGED mine
  BY <1>3 DEF InsertDesc
<1>4. CASE InsertFails(t) /\ UNCHANGED mine
  BY <1>4 DEF InsertFails
<1>11. CASE InsertLost(t) /\ UNCHANGED mine
  BY <1>11 DEF InsertLost
<1>5. CASE ReadClock(t)
  BY <1>5 DEF ReadClock
<1>6. CASE StoreTime(t)
  BY <1>6 DEF StoreTime
<1>7. CASE ProbeReturns(t)
  BY <1>7 DEF ProbeReturns
<1>8. CASE Got(t)
  BY <1>8 DEF Got
<1>9. CASE GiveUp(t)
  BY <1>9 DEF GiveUp
<1>10. CASE TryDown(t)
  BY <1>10 DEF TryDown
<1> QED BY <1>1, <1>2, <1>3, <1>4, <1>5, <1>6, <1>7, <1>8, <1>9, <1>10, <1>11 DEF DownStep, FindOrMake

LEMMA RunUp ==
  ASSUME RwTypeOK, RunInv, NEW t \in Tasks, UpStep(t)
  PROVE  RunInv'
<1> USE SidesOfThePlaces, RwPlaces, AfterIs
    DEF RwTypeOK, RunInv, ProbeOf, InUp, Settled, Goto, Up,
        hookVars, mutexVars, settings, control, mine
<1>1. CASE Downgrade(t)
  BY <1>1 DEF Downgrade
<1>2. CASE CallUp(t)
  <2>1. CASE "up_write" \in hooks
    BY ZenonT(30), <1>2, <2>1 DEF CallUp
  <2>2. CASE "up_write" \notin hooks
    <3>1. Up(t) /\ UNCHANGED <<now, hookVars, since, settings, control, mx, call, timer>>
      BY <1>2, <2>2 DEF CallUp
    <3> QED BY <3>1
  <2> QED BY <2>1, <2>2
<1>3. CASE SeekDesc(t) /\ UNCHANGED mine
  BY <1>3 DEF SeekDesc
<1>4. CASE Judge(t) /\ UNCHANGED mine
  BY <1>4 DEF Judge
<1>5. CASE ClearTime(t)
  BY <1>5 DEF ClearTime, ClearLockTime
<1>6. CASE UpWrite(t)
  BY <1>6 DEF UpWrite
<1> QED BY <1>1, <1>2, <1>3, <1>4, <1>5, <1>6 DEF UpStep, SeekAndJudge

\* Once the last unregister_kprobe has returned, nobody is in a probe.
LEMMA NobodyLeft ==
  ASSUME RunInv, Settled \/ (cpc = "clean" /\ gp = {})
  PROVE  hooks = {} /\ \A t \in Tasks : pc[t] \notin InProbe
BY DEF RunInv, Settled

LEMMA RunUnhook ==
  ASSUME RwTypeOK, RunInv, NEW i \in 1..3, UnhookKprobe(i)
  PROVE  RunInv'
<1>1. /\ gp = {} /\ hooks' = hooks \ {Probes[i]} /\ gp' = WaitsFor(i)
      /\ UNCHANGED <<pc, call, activated>>
  BY DEF UnhookKprobe, controllerSame, mine
<1>2. cpc' \in {"unhook2", "unhook3", "clean"}
  BY HookSteps DEF UnhookKprobe
<1>3. ASSUME NEW t \in Tasks, pc[t] \in InProbe
      PROVE  ProbeOf(t)' \in hooks' \/ t \in gp'
  <2>1. ProbeOf(t) \in hooks /\ ProbeOf(t)' = ProbeOf(t)
    BY <1>1, <1>3 DEF RunInv, ProbeOf
  <2>2. CASE ProbeOf(t) = Probes[i]
    BY <1>1, <1>3, <2>1, <2>2, SidesOfThePlaces, RwPlaces DEF WaitsFor, GracePeriod
  <2> QED BY <1>1, <2>1, <2>2
<1>4. (\A t \in Tasks : pc[t] \in InDown \cup {"orig"} => call[t] \in Downs)'
  BY <1>1 DEF RunInv
<1>5. /\ "down_write" \notin hooks'
      /\ cpc' \in {"unhook3", "clean"} => "down_write_killable" \notin hooks'
      /\ cpc' = "clean" => hooks' = {}
  BY <1>1, HookSteps, RwPlaces DEF UnhookKprobe, RunInv, RwTypeOK
<1>6. ~Settled'
  BY <1>2 DEF Settled
<1> QED BY <1>1, <1>2, <1>3, <1>4, <1>5, <1>6 DEF RunInv

LEMMA RunRest ==
  ASSUME RwTypeOK, RunInv, RwController \/ RwSet \/ RwTick \/ UNCHANGED rwVars
  PROVE  RunInv'
<1> USE SidesOfThePlaces, RwPlaces
    DEF RwTypeOK, RunInv, ProbeOf, Settled, hookVars, mutexVars, settings, control, mine,
        controllerSame
<1>1. CASE RwActivate
  BY <1>1 DEF RwActivate, Hooking
<1>2. ASSUME NEW i \in 1..3, HookKprobe(i) PROVE RunInv'
  BY <1>2, HookSteps DEF HookKprobe
<1>3. CASE RwActivated
  BY <1>3 DEF RwActivated, Activated
<1>4. CASE RwDeactivate
  BY <1>4 DEF RwDeactivate, Unhooking
<1>5. CASE RwDetach
  BY <1>5, NobodyLeft DEF RwDetach, CleanDetach
<1>6. CASE CleanFree /\ UNCHANGED mine
  BY <1>6, NobodyLeft DEF CleanFree
<1>7. CASE Deactivated /\ UNCHANGED mine
  BY <1>7 DEF Deactivated
<1>8. CASE RwSet
  BY <1>8 DEF RwSet
<1>9. CASE RwTick
  BY <1>9 DEF RwTick, Tick
<1>10. CASE UNCHANGED rwVars
  BY <1>10 DEF rwVars, vars
<1> QED BY <1>1, <1>2, <1>3, <1>4, <1>5, <1>6, <1>7, <1>8, <1>9, <1>10, RunUnhook
        DEF RwController, RwClean

LEMMA RunNext == RwTypeOK /\ RunInv /\ [RwNext]_rwVars => RunInv'
<1> SUFFICES ASSUME RwTypeOK, RunInv, [RwNext]_rwVars PROVE RunInv'
  OBVIOUS
<1>1. ASSUME NEW t \in Tasks, Writer(t) PROVE RunInv'
  BY <1>1, RunDown, RunUp DEF Writer, DownStep, UpStep
<1> QED BY <1>1, RunRest DEF RwNext

-----------------------------------------------------------------------------
(* RwSem: the descriptors.                                                 *)

\* The tree is empty once clean_data has emptied it; it gives a descriptor to one
\* semaphore, and none that got lost; and a probe works on the descriptor that the tree
\* has for its semaphore, or stores its time in the one it has lost.
RwMemInv ==
  /\ Settled => \A m \in Mutexes : tree[m] = None
  /\ doomed # {} => cpc = "sync"
  /\ \A m, n \in Mutexes : tree[m] # None /\ tree[m] = tree[n] => m = n
  /\ \A m \in Mutexes : tree[m] \notin stray
  /\ \A t \in Tasks : pc[t] \in {"set", "store", "judge", "clear"} =>
       /\ ptr[t] # None
       /\ ptr[t] = tree[mx[t]] \/ (ptr[t] \in stray /\ pc[t] \in {"set", "store"})

LEMMA RwMemDown ==
  ASSUME RwTypeOK, RunInv, RwMemInv, NEW t \in Tasks, DownStep(t)
  PROVE  RwMemInv'
<1> USE SidesOfThePlaces, RwPlaces
    DEF RwTypeOK, RwMemInv, Goto, hookVars, mutexVars, settings, control, mine
<1>1. CASE CallDown(t)
  BY <1>1 DEF CallDown, Settled
<1>2. CASE FindDesc(t) /\ UNCHANGED mine
  BY <1>2 DEF FindDesc, Settled
<1>3. CASE InsertDesc(t) /\ UNCHANGED mine
  <2>1. ~Settled /\ ~Settled'
    BY <1>3, NobodyLeft DEF InsertDesc, Settled
  <2> QED BY <1>3, <2>1 DEF InsertDesc, Live, InTree
<1>11. CASE InsertLost(t) /\ UNCHANGED mine
  BY <1>11 DEF InsertLost, Live, InTree, Settled
<1>4. CASE InsertFails(t) /\ UNCHANGED mine
  BY <1>4 DEF InsertFails, Settled
<1>5. CASE ReadClock(t)
  BY <1>5 DEF ReadClock, Settled
<1>6. CASE StoreTime(t)
  BY <1>6 DEF StoreTime, Settled
<1>7. CASE ProbeReturns(t)
  BY <1>7 DEF ProbeReturns, Settled
<1>8. CASE Got(t)
  BY <1>8 DEF Got, Settled
<1>9. CASE GiveUp(t)
  BY <1>9 DEF GiveUp, Settled
<1>10. CASE TryDown(t)
  BY <1>10 DEF TryDown, Settled
<1> QED BY <1>1, <1>2, <1>3, <1>4, <1>5, <1>6, <1>7, <1>8, <1>9, <1>10, <1>11 DEF DownStep, FindOrMake

LEMMA RwMemUp ==
  ASSUME RwTypeOK, RunInv, RwMemInv, NEW t \in Tasks, UpStep(t)
  PROVE  RwMemInv'
<1> USE SidesOfThePlaces, RwPlaces, AfterIs
    DEF RwTypeOK, RwMemInv, Settled, Goto, Up, hookVars, mutexVars, settings, control, mine
<1>1. CASE Downgrade(t)
  BY <1>1 DEF Downgrade
<1>2. CASE CallUp(t)
  <2>1. CASE "up_write" \in hooks
    BY <1>2, <2>1 DEF CallUp
  <2>2. CASE "up_write" \notin hooks
    <3>1. Up(t) /\ UNCHANGED <<now, hookVars, since, settings, control, mx, call, timer>>
      BY <1>2, <2>2 DEF CallUp
    <3> QED BY <3>1
  <2> QED BY <2>1, <2>2
<1>3. CASE SeekDesc(t) /\ UNCHANGED mine
  BY <1>3 DEF SeekDesc
<1>4. CASE Judge(t) /\ UNCHANGED mine
  BY <1>4 DEF Judge
<1>5. CASE ClearTime(t)
  BY <1>5 DEF ClearTime, ClearLockTime
<1>6. CASE UpWrite(t)
  BY <1>6 DEF UpWrite
<1> QED BY <1>1, <1>2, <1>3, <1>4, <1>5, <1>6 DEF UpStep, SeekAndJudge

LEMMA RwMemRest ==
  ASSUME RwTypeOK, RunInv, RwMemInv, RwController \/ RwSet \/ RwTick \/ UNCHANGED rwVars
  PROVE  RwMemInv'
<1> USE SidesOfThePlaces, RwPlaces
    DEF RwTypeOK, RwMemInv, Settled, hookVars, mutexVars, settings, control, mine, controllerSame
<1>1. CASE RwActivate
  BY <1>1 DEF RwActivate, Hooking
<1>2. ASSUME NEW i \in 1..3, HookKprobe(i) PROVE RwMemInv'
  BY <1>2, HookSteps DEF HookKprobe
<1>3. CASE RwActivated
  BY <1>3 DEF RwActivated, Activated
<1>4. CASE RwDeactivate
  BY <1>4 DEF RwDeactivate, Unhooking
<1>5. ASSUME NEW i \in 1..3, UnhookKprobe(i) PROVE RwMemInv'
  BY <1>5, HookSteps DEF UnhookKprobe
<1>6. CASE RwDetach
  BY <1>6, NobodyLeft DEF RwDetach, CleanDetach
<1>7. CASE CleanFree /\ UNCHANGED mine
  BY <1>7 DEF CleanFree
<1>8. CASE Deactivated /\ UNCHANGED mine
  BY <1>8 DEF Deactivated
<1>9. CASE RwSet
  BY <1>9 DEF RwSet
<1>10. CASE RwTick
  BY <1>10 DEF RwTick, Tick
<1>11. CASE UNCHANGED rwVars
  BY <1>11 DEF rwVars, vars
<1> QED BY <1>1, <1>2, <1>3, <1>4, <1>5, <1>6, <1>7, <1>8, <1>9, <1>10, <1>11
        DEF RwController, RwClean

LEMMA RwMemNext == RwTypeOK /\ RunInv /\ RwMemInv /\ [RwNext]_rwVars => RwMemInv'
<1> SUFFICES ASSUME RwTypeOK, RunInv, RwMemInv, [RwNext]_rwVars PROVE RwMemInv'
  OBVIOUS
<1>1. ASSUME NEW t \in Tasks, Writer(t) PROVE RwMemInv'
  BY <1>1, RwMemDown, RwMemUp DEF Writer, DownStep, UpStep
<1> QED BY <1>1, RwMemRest DEF RwNext

LEMMA RwInvariants == RwSpec => [](RwTypeOK /\ RunInv /\ RwMemInv)
<1>1. RwInit => RunInv /\ RwMemInv
  BY RwPlaces DEF RwInit, Init, RunInv, RwMemInv, Settled, InUp
<1> QED BY RwTypeInit, RwTypeNext, <1>1, RunNext, RwMemNext, PTL DEF RwSpec

\* No probe uses a descriptor that was freed: what clean_data frees, no probe has, for
\* the probes are gone before the tree is emptied.
THEOREM RwNeverUsesFreed == RwSpec => []RwNoUseAfterFree
<1>1. RwTypeOK /\ RwMemInv => RwNoUseAfterFree
  BY DEF RwTypeOK, RwMemInv, RwNoUseAfterFree, Live, InTree
<1> QED BY RwInvariants, <1>1, PTL

\* A deactivation leaves no probe, nobody in a probe, and no descriptor but those that
\* radix_tree_insert has refused, although register_kprobe may have failed for any of the
\* probes.
THEOREM NothingEverLeft == RwSpec => []NothingLeft
<1>1. RunInv /\ RwMemInv => NothingLeft
  BY NobodyLeft DEF RwMemInv, NothingLeft, Settled, Live, InTree
<1> QED BY RwInvariants, <1>1, PTL

-----------------------------------------------------------------------------
(* RwSem: the times.                                                       *)

\* A descriptor that is not in use carries no time; the time of a semaphore is what its
\* descriptor carries; and a writer whose time was stored last, and who has not given the
\* semaphore back, is the one whose time that is.
TimesInv ==
  /\ \A d \in Descs \ Live : lockTime[d] = 0
  /\ TimerKept
  /\ \A t \in Tasks :
       entry[t] <= now /\ (pc[t] \in {"idle", "find", "insert", "set"} => entry[t] = 0)
  /\ \A t \in Tasks : entry[t] # 0 /\ pc[t] # "store" /\ timer[mx[t]].by = t =>
       timer[mx[t]].at = entry[t]

RwPlace == InProbe \cup {"release"} \cup Outside

LEMMA RwDomains ==
  ASSUME RwTypeOK
  PROVE  /\ entry \in [Tasks -> Nat] /\ pc \in [Tasks -> RwPlace] /\ mx \in [Tasks -> Mutexes]
         /\ now \in Nat
BY DEF RwTypeOK, RwPlace

\* A step that touches neither the clock, nor a descriptor, nor a time.
LEMMA SameTimes ==
  ASSUME TimesInv, UNCHANGED <<now, tree, lockTime, doomed, stray, timer>>, NEW t \in Tasks,
         entry \in [Tasks -> Nat], pc \in [Tasks -> RwPlace], mx \in [Tasks -> Mutexes],
         NEW p, Goto(t, p), now \in Nat,
         entry' = entry \/ entry' = [entry EXCEPT ![t] = 0],
         mx' = mx \/ (entry[t] = 0 /\ \E m \in Mutexes : mx' = [mx EXCEPT ![t] = m]),
         p \in {"idle", "find", "insert", "set"} => entry'[t] = 0,
         pc[t] # "store"
  PROVE  TimesInv'
<1>1. Live' = Live
  BY DEF Live, InTree
<1>2. TimerKept' /\ \A d \in Descs \ Live' : lockTime'[d] = 0
  BY <1>1 DEF TimesInv, TimerKept
<1>3. ASSUME NEW u \in Tasks
      PROVE  /\ entry'[u] <= now'
             /\ pc'[u] \in {"idle", "find", "insert", "set"} => entry'[u] = 0
             /\ entry'[u] # 0 /\ pc'[u] # "store" /\ timer'[mx'[u]].by = u =>
                  timer'[mx'[u]].at = entry'[u]
  BY <1>3 DEF TimesInv, Goto
<1> QED BY <1>2, <1>3 DEF TimesInv

LEMMA TimesDown ==
  ASSUME RwTypeOK, RunInv, RwMemInv, TimesInv, NEW t \in Tasks, DownStep(t)
  PROVE  TimesInv'
<1> USE SidesOfThePlaces, RwPlaces
    DEF hookVars, mutexVars, settings, control, mine
<1>0. /\ entry \in [Tasks -> Nat] /\ pc \in [Tasks -> RwPlace] /\ mx \in [Tasks -> Mutexes]
      /\ now \in Nat
  BY RwDomains
<1>1. CASE CallDown(t)
  BY <1>0, <1>1, SameTimes DEF CallDown, TimesInv
<1>2. CASE FindDesc(t) /\ UNCHANGED mine
  BY <1>0, <1>2, SameTimes DEF FindDesc, TimesInv
<1>3. CASE InsertDesc(t) /\ UNCHANGED mine
  <2>1. PICK d \in Descs \ Live :
          LET found == IF tree[mx[t]] = None THEN d ELSE tree[mx[t]]
          IN tree' = [tree EXCEPT ![mx[t]] = found]
    BY <1>3 DEF InsertDesc
  <2>2. /\ UNCHANGED <<now, lockTime, doomed, stray, timer, entry, mx>> /\ pc[t] = "insert"
        /\ pc' = [pc EXCEPT ![t] = "set"] /\ entry[t] = 0
    BY <1>3 DEF InsertDesc, Goto, TimesInv
  <2>3. Live' \subseteq Live \cup {d} /\ Live \subseteq Live'
    BY <2>1, <2>2 DEF Live, InTree, RwTypeOK
  <2>4. \A e \in Descs \ Live' : lockTime'[e] = 0
    BY <2>2, <2>3 DEF TimesInv
  <2>5. TimerKept'
    BY <2>1, <2>2, <1>0 DEF TimerKept, TimesInv, RwTypeOK
  <2>6. \A u \in Tasks : /\ entry[u] <= now
                         /\ pc'[u] \in {"idle", "find", "insert", "set"} => entry[u] = 0
                         /\ entry[u] # 0 /\ pc'[u] # "store" /\ timer[mx[u]].by = u =>
                              timer[mx[u]].at = entry[u]
    BY <2>2, <1>0 DEF TimesInv
  <2> QED BY <2>2, <2>4, <2>5, <2>6 DEF TimesInv
<1>4. CASE InsertFails(t) /\ UNCHANGED mine
  BY <1>0, <1>4, SameTimes DEF InsertFails, TimesInv
<1>11. CASE InsertLost(t) /\ UNCHANGED mine
  <2>1. /\ UNCHANGED <<now, tree, lockTime, doomed, timer, entry, mx>> /\ pc[t] = "insert"
        /\ pc' = [pc EXCEPT ![t] = "set"] /\ entry[t] = 0 /\ stray \subseteq stray'
    BY <1>11 DEF InsertLost, Goto, TimesInv
  <2>2. Live \subseteq Live'
    BY <2>1 DEF Live, InTree
  <2>3. TimerKept' /\ \A e \in Descs \ Live' : lockTime'[e] = 0
    BY <2>1, <2>2 DEF TimesInv, TimerKept
  <2>4. \A u \in Tasks : /\ entry[u] <= now
                         /\ pc'[u] \in {"idle", "find", "insert", "set"} => entry[u] = 0
                         /\ entry[u] # 0 /\ pc'[u] # "store" /\ timer[mx[u]].by = u =>
                              timer[mx[u]].at = entry[u]
    BY <2>1, <1>0 DEF TimesInv
  <2> QED BY <2>1, <2>3, <2>4 DEF TimesInv
<1>5. CASE ReadClock(t)
  <2>1. /\ UNCHANGED <<now, tree, lockTime, doomed, stray, timer, mx>> /\ pc[t] = "set"
        /\ pc' = [pc EXCEPT ![t] = "store"] /\ entry' = [entry EXCEPT ![t] = now]
    BY <1>5 DEF ReadClock, Goto
  <2>2. TimerKept' /\ \A e \in Descs \ Live' : lockTime'[e] = 0
    BY <2>1 DEF TimesInv, TimerKept, Live, InTree
  <2>3. \A u \in Tasks : /\ entry'[u] <= now
                         /\ pc'[u] \in {"idle", "find", "insert", "set"} => entry'[u] = 0
                         /\ entry'[u] # 0 /\ pc'[u] # "store" /\ timer[mx[u]].by = u =>
                              timer[mx[u]].at = entry'[u]
    BY <2>1, <1>0 DEF TimesInv
  <2> QED BY <2>1, <2>2, <2>3 DEF TimesInv
<1>12. CASE StoreTime(t) /\ ptr[t] \in stray
  <2>1. /\ UNCHANGED <<now, tree, doomed, stray, mx, timer>> /\ pc[t] = "store"
        /\ pc' = [pc EXCEPT ![t] = "leave"]
        /\ lockTime' = [lockTime EXCEPT ![ptr[t]] = entry[t]]
        /\ entry' = [entry EXCEPT ![t] = 0]
    BY <1>12 DEF StoreTime, TimeStored, Goto
  <2>2. Live' = Live /\ ptr[t] \in Live
    BY <1>12, <2>1 DEF Live, InTree
  <2>3. \A e \in Descs \ Live' : lockTime'[e] = 0
    BY <2>1, <2>2 DEF TimesInv, RwTypeOK
  <2>4. \A m \in Mutexes : tree[m] # None => lockTime'[tree[m]] = lockTime[tree[m]]
    BY <1>12, <2>1 DEF RwMemInv, RwTypeOK
  <2>5. TimerKept'
    BY <2>1, <2>4 DEF TimesInv, TimerKept
  <2>6. \A u \in Tasks : /\ entry'[u] <= now
                         /\ pc'[u] \in {"idle", "find", "insert", "set"} => entry'[u] = 0
                         /\ entry'[u] # 0 /\ pc'[u] # "store" /\ timer[mx[u]].by = u =>
                              timer[mx[u]].at = entry'[u]
    BY <2>1, <1>0 DEF TimesInv
  <2> QED BY <2>1, <2>3, <2>5, <2>6 DEF TimesInv
<1>6. CASE StoreTime(t) /\ ptr[t] \notin stray
  <2>1. /\ UNCHANGED <<now, tree, doomed, stray, mx, entry>> /\ pc[t] = "store"
        /\ pc' = [pc EXCEPT ![t] = "leave"]
        /\ lockTime' = [lockTime EXCEPT ![ptr[t]] = entry[t]]
        /\ timer' = [timer EXCEPT ![mx[t]] = [by |-> t, at |-> entry[t]]]
    BY <1>6 DEF StoreTime, TimeStored, Goto
  <2>2. mx[t] \in Mutexes /\ ptr[t] \in Descs /\ ptr[t] = tree[mx[t]] /\ ptr[t] # None
    BY <1>6, <2>1 DEF RwTypeOK, RwMemInv
  <2>3. ptr[t] \in Live /\ Live' = Live
    BY <2>1, <2>2 DEF Live, InTree
  <2>4. \A e \in Descs \ Live' : lockTime'[e] = 0
    BY <2>1, <2>2, <2>3 DEF TimesInv, RwTypeOK
  <2>5. TimerKept'
    <3> SUFFICES ASSUME NEW m \in Mutexes
                 PROVE  timer'[m].at = IF tree[m] = None THEN 0 ELSE lockTime'[tree[m]]
      BY <2>1 DEF TimerKept
    <3>1. CASE m = mx[t]
      BY <2>1, <2>2, <3>1 DEF RwTypeOK
    <3>2. CASE m # mx[t]
      <4>1. tree[m] # None => tree[m] # ptr[t] /\ tree[m] \in Descs
        BY <2>2, <3>2 DEF RwMemInv, RwTypeOK
      <4> QED BY <2>1, <2>2, <3>2, <4>1 DEF RwTypeOK, TimesInv, TimerKept
    <3> QED BY <3>1, <3>2
  <2>6. ASSUME NEW u \in Tasks
        PROVE  /\ entry[u] <= now
               /\ pc'[u] \in {"idle", "find", "insert", "set"} => entry[u] = 0
               /\ entry[u] # 0 /\ pc'[u] # "store" /\ timer'[mx[u]].by = u =>
                    timer'[mx[u]].at = entry[u]
    <3>1. CASE u = t
      BY <2>1, <2>2, <3>1, <1>0 DEF TimesInv, RwTypeOK
    <3>2. CASE u # t
      <4>1. pc'[u] = pc[u] /\ mx[u] \in Mutexes
        BY <2>1, <1>0, <3>2
      <4>2. timer'[mx[u]].by = u => timer'[mx[u]] = timer[mx[u]]
        BY <2>1, <4>1, <3>2 DEF RwTypeOK
      <4> QED BY <4>1, <4>2 DEF TimesInv
    <3> QED BY <3>1, <3>2
  <2> QED BY <2>1, <2>4, <2>5, <2>6 DEF TimesInv
<1>7. CASE ProbeReturns(t)
  BY <1>0, <1>7, SameTimes DEF ProbeReturns
<1>8. CASE Got(t)
  BY <1>0, <1>8, SameTimes DEF Got
<1>9. CASE GiveUp(t)
  BY <1>0, <1>9, SameTimes DEF GiveUp
<1>10. CASE TryDown(t)
  BY <1>0, <1>10, SameTimes DEF TryDown, TimesInv
<1> QED BY <1>1, <1>2, <1>3, <1>4, <1>5, <1>6, <1>7, <1>8, <1>9, <1>10, <1>11, <1>12 DEF DownStep, FindOrMake

LEMMA TimesUp ==
  ASSUME RwTypeOK, RunInv, RwMemInv, TimesInv, NEW t \in Tasks, UpStep(t)
  PROVE  TimesInv'
<1> USE SidesOfThePlaces, RwPlaces, AfterIs
    DEF Up, hookVars, mutexVars, settings, control, mine
<1>0. /\ entry \in [Tasks -> Nat] /\ pc \in [Tasks -> RwPlace] /\ mx \in [Tasks -> Mutexes]
      /\ now \in Nat
  BY RwDomains
<1>1. CASE Downgrade(t)
  BY <1>0, <1>1, SameTimes DEF Downgrade
<1>2. CASE CallUp(t)
  <2>1. CASE "up_write" \in hooks
    BY <1>0, <1>2, <2>1, SameTimes DEF CallUp
  <2>2. CASE "up_write" \notin hooks
    <3>1. /\ Up(t) /\ UNCHANGED <<now, hookVars, since, settings, control, mx, call, timer>>
          /\ pc[t] = "held"
      BY <1>2, <2>2 DEF CallUp
    <3> QED BY <1>0, <3>1, SameTimes
  <2> QED BY <2>1, <2>2
<1>3. CASE SeekDesc(t) /\ UNCHANGED mine
  BY <1>0, <1>3, SameTimes DEF SeekDesc
<1>4. CASE Judge(t) /\ UNCHANGED mine
  BY <1>0, <1>4, SameTimes DEF Judge
<1>5. CASE ClearTime(t)
  <2>1. /\ UNCHANGED <<now, tree, doomed, stray, mx, entry>> /\ pc[t] = "clear"
        /\ pc' = [pc EXCEPT ![t] = "release"]
        /\ lockTime' = [lockTime EXCEPT ![ptr[t]] = 0]
        /\ timer' = [timer EXCEPT ![mx[t]] = NoTime]
    BY <1>5 DEF ClearTime, ClearLockTime, Goto
  <2>2. mx[t] \in Mutexes /\ ptr[t] \in Descs /\ ptr[t] = tree[mx[t]] /\ ptr[t] # None
    BY <2>1 DEF RwTypeOK, RwMemInv
  <2>3. Live' = Live
    BY <2>1 DEF Live, InTree
  <2>4. \A e \in Descs \ Live' : lockTime'[e] = 0
    BY <2>1, <2>2, <2>3 DEF TimesInv, RwTypeOK
  <2>5. TimerKept'
    <3> SUFFICES ASSUME NEW m \in Mutexes
                 PROVE  timer'[m].at = IF tree[m] = None THEN 0 ELSE lockTime'[tree[m]]
      BY <2>1 DEF TimerKept
    <3>1. CASE m = mx[t]
      BY <2>1, <2>2, <3>1 DEF RwTypeOK, NoTime
    <3>2. CASE m # mx[t]
      <4>1. tree[m] # None => tree[m] # ptr[t] /\ tree[m] \in Descs
        BY <2>2, <3>2 DEF RwMemInv, RwTypeOK
      <4> QED BY <2>1, <2>2, <3>2, <4>1 DEF RwTypeOK, TimesInv, TimerKept
    <3> QED BY <3>1, <3>2
  <2>6. ASSUME NEW u \in Tasks
        PROVE  /\ entry[u] <= now
               /\ pc'[u] \in {"idle", "find", "insert", "set"} => entry[u] = 0
               /\ entry[u] # 0 /\ pc'[u] # "store" /\ timer'[mx[u]].by = u =>
                    timer'[mx[u]].at = entry[u]
    <3>1. mx[u] \in Mutexes /\ (pc'[u] = pc[u] \/ (u = t /\ pc'[u] = "release"))
      BY <2>1, <1>0
    <3>2. timer'[mx[u]].by = u => timer'[mx[u]] = timer[mx[u]]
      BY <2>1, <3>1, TasksAssumption DEF RwTypeOK, NoTime
    <3> QED BY <2>1, <3>1, <3>2 DEF TimesInv
  <2> QED BY <2>1, <2>4, <2>5, <2>6 DEF TimesInv
<1>6. CASE UpWrite(t)
  BY <1>0, <1>6, SameTimes DEF UpWrite
<1> QED BY <1>1, <1>2, <1>3, <1>4, <1>5, <1>6 DEF UpStep, SeekAndJudge

LEMMA TimesRest ==
  ASSUME RwTypeOK, RwMemInv, TimesInv, RwController \/ RwSet \/ RwTick \/ UNCHANGED rwVars
  PROVE  TimesInv'
<1>0. entry \in [Tasks -> Nat] /\ now \in Nat /\ mx \in [Tasks -> Mutexes]
  BY DEF RwTypeOK
<1>1. CASE UNCHANGED <<now, tree, lockTime, doomed, stray, timer, entry, pc, mx>>
  <2>1. TimerKept' /\ \A d \in Descs \ Live' : lockTime'[d] = 0
    BY <1>1 DEF TimesInv, TimerKept, Live, InTree
  <2> QED BY <1>1, <2>1 DEF TimesInv
<1>2. CASE RwTick
  <2>1. UNCHANGED <<tree, lockTime, doomed, stray, timer, entry, pc, mx>> /\ now' = now + 1
    BY <1>2 DEF RwTick, Tick, mine, hookVars, control
  <2>2. TimerKept' /\ \A d \in Descs \ Live' : lockTime'[d] = 0
    BY <2>1 DEF TimesInv, TimerKept, Live, InTree
  <2>3. \A t \in Tasks : entry[t] <= now'
    BY <2>1, <1>0 DEF TimesInv
  <2> QED BY <2>1, <2>2, <2>3 DEF TimesInv
<1>3. CASE RwDetach
  <2>1. /\ UNCHANGED <<now, lockTime, stray, entry, pc, mx>>
        /\ doomed' = doomed \cup InTree /\ tree' = [m \in Mutexes |-> None]
        /\ timer' = [m \in Mutexes |-> NoTime]
    BY <1>3 DEF RwDetach, CleanDetach, hookVars
  <2>2. Live' = Live
    BY <2>1 DEF Live, InTree
  <2>3. TimerKept' /\ \A d \in Descs \ Live' : lockTime'[d] = 0
    BY <2>1, <2>2 DEF TimesInv, TimerKept, NoTime
  <2>4. \A t \in Tasks : timer'[mx[t]].by # t
    BY <2>1, <1>0, TasksAssumption DEF NoTime
  <2> QED BY <2>1, <2>3, <2>4 DEF TimesInv
<1>4. CASE CleanFree /\ UNCHANGED mine
  <2>1. /\ UNCHANGED <<now, tree, stray, timer, entry, pc, mx>> /\ doomed' = {} /\ cpc = "sync"
        /\ lockTime' = [d \in Descs |-> IF d \in doomed THEN 0 ELSE lockTime[d]]
    BY <1>4 DEF CleanFree, mine
  <2>2. \A m \in Mutexes : tree[m] = None
    BY <2>1 DEF RwMemInv, Settled
  <2>3. TimerKept'
    BY <2>1, <2>2 DEF TimesInv, TimerKept
  <2>4. \A d \in Descs \ Live' : lockTime'[d] = 0
    BY <2>1, <2>2 DEF TimesInv, Live, InTree
  <2> QED BY <2>1, <2>3, <2>4 DEF TimesInv
<1>5. ASSUME RwController \/ RwSet \/ UNCHANGED rwVars, ~RwDetach, ~(CleanFree /\ UNCHANGED mine)
      PROVE  UNCHANGED <<now, tree, lockTime, doomed, stray, timer, entry, pc, mx>>
  BY <1>5 DEF RwController, RwActivate, HookKprobe, RwActivated, Activated, RwDeactivate,
     UnhookKprobe, RwClean, Deactivated, RwSet, controllerSame, rwVars, vars, mine, hookVars, control
<1> QED BY <1>1, <1>2, <1>3, <1>4, <1>5

LEMMA TimesNext == RwTypeOK /\ RunInv /\ RwMemInv /\ TimesInv /\ [RwNext]_rwVars => TimesInv'
<1> SUFFICES ASSUME RwTypeOK, RunInv, RwMemInv, TimesInv, [RwNext]_rwVars PROVE TimesInv'
  OBVIOUS
<1>1. ASSUME NEW t \in Tasks, Writer(t) PROVE TimesInv'
  BY <1>1, TimesDown, TimesUp DEF Writer, DownStep, UpStep
<1> QED BY <1>1, TimesRest DEF RwNext

LEMMA TimesAlways == RwSpec => []TimesInv
<1>1. RwInit => TimesInv
  BY TasksAssumption DEF RwInit, Init, TimesInv, TimerKept, NoTime, Live, InTree
<1>2. RwTypeOK /\ RunInv /\ RwMemInv /\ TimesInv /\ [RwNext]_rwVars => TimesInv'
  BY TimesNext
<1> QED BY RwInvariants, <1>1, <1>2, PTL DEF RwSpec

\* The descriptor that the tree has for a semaphore carries the time that was stored last
\* by a writer that worked on it, whichever writers ran through the probe at once, and
\* whichever of them made the descriptor or lost the one it made.
THEOREM TimerAlwaysKept == RwSpec => []TimerKept
<1>1. TimesInv => TimerKept
  BY DEF TimesInv
<1> QED BY TimesAlways, <1>1, PTL

\* A writer whose time was not overwritten is reported exactly if it called down_write
\* longer ago than the threshold, provided that no threshold overflows an int when it
\* is converted to nanoseconds.
THEOREM OwnCallsAlwaysReported ==
  ASSUME \A th \in Thresholds : th * NsPerMs <= IntMax
  PROVE  RwSpec => OwnCallsReported
<1> DEFINE Exact == \A t \in Tasks : Judge(t) /\ entry[t] # 0 /\ timer[mx[t]].by = t =>
                      (Reports(t) <=> now - entry[t] > threshold * NsPerMs)
<1>1. RwTypeOK /\ RwMemInv /\ TimesInv => Exact
  <2> SUFFICES ASSUME RwTypeOK, RwMemInv, TimesInv,
                      NEW t \in Tasks, Judge(t), entry[t] # 0, timer[mx[t]].by = t
               PROVE  Reports(t) <=> now - entry[t] > threshold * NsPerMs
    OBVIOUS
  <2>1. now \in Nat /\ threshold \in Nat /\ entry[t] \in Nat /\ threshold \in Thresholds
    BY NumbersAssumption DEF RwTypeOK
  <2>2. pc[t] = "judge" /\ mx[t] \in Mutexes /\ ptr[t] = tree[mx[t]] /\ ptr[t] # None
    BY DEF Judge, RwMemInv, RwTypeOK
  <2>3. lockTime[ptr[t]] = entry[t] /\ entry[t] <= now
    BY <2>2 DEF TimesInv, TimerKept
  <2>4. threshold * NsPerMs \in Nat /\ Scaled(threshold) = threshold * NsPerMs
    BY <2>1, NumbersAssumption, ScaledIs
  <2> QED BY <2>1, <2>3, <2>4, NumbersAssumption DEF Reports, Timed, Exceeds, Delay
<1> QED BY RwInvariants, TimesAlways, <1>1, PTL DEF RwSpec, OwnCallsReported
=============================================================================
