----------------------------- MODULE ModuleLife -----------------------------
(***************************************************************************)
(* insmod and rmmod (entry.c, kern_entry.c, net_entry.c, mm_entry.c,       *)
(* fs_entry.c, chr_dev.c).  diagnosis_init brings the parts up one after   *)
(* another, and any of them may fail, after which what is up is taken down *)
(* again; diagnosis_exit takes all down.  Meanwhile processes enter system *)
(* calls, write to the controller file, open the device and call it, and   *)
(* CPUs come and go.                                                       *)
(*                                                                         *)
(* Parts that are empty in this tree (rcu, sys_loop, reqsk, bio, ...) are  *)
(* left out.  "alone" is a behaviour in which whoever loads or unloads the *)
(* module lets nobody else use the controller or the device meanwhile.     *)
(***************************************************************************)
EXTENDS Integers, Sequences, SequencesExt

CONSTANTS
  Watched,           \* the monitors that are activated and called
  Fallible,          \* the parts whose init can fail
  Callers, Users,    \* processes in system calls, processes with the device
  CPUs, None,
  MaxEvents          \* bound of the model on writes, opens and plugs

VARIABLES
  alone,
  phase,     \* "loading", "undoing", "refused", "loaded", "unloading", "out"
  todo,      \* what insmod or rmmod has still to call
  broken,    \* the part whose init failed
  up,        \* parts that have been initialised and not exited
  active,    \* monitors with their hooks in place
  flag,      \* sys_enter_hooked
  probed,    \* the probe of sys_enter is registered
  writer,    \* where a write of "syscall on" or "syscall off" is
  caller, user,
  online, armed, notifies, notified, missed,   \* CPUs, their timers, the notifier
  events
loader == <<phase, todo, broken, up>>
cpus == <<online, armed, notifies, notified, missed>>
vars == <<alone, loader, active, flag, probed, writer, caller, user, cpus, events>>

-----------------------------------------------------------------------------
(* The order things are called in *)

Do(op, parts) == [i \in DOMAIN parts |-> <<op, parts[i]>>]

\* What a subsystem's init calls, what it calls for what it has done when one of them
\* fails (from the label that belongs to the failure on), and what its exit calls.
diag_kernel == [
  inits |-> <<"irq_stats", "irq_delay", "sched_delay", "mutex", "load", "exit",
    "sys_cost", "sys_delay", "exec", "perf", "run_trace", "irq_trace", "kprobe",
    "utilization", "reboot", "uprobe", "sig_info", "task_monitor", "rw_sem",
    "throttle_delay">>,
  undo |-> <<"throttle_delay", "task_monitor", "sig_info", "uprobe", "reboot",
    "utilization", "kprobe", "irq_trace", "run_trace", "perf", "exec", "sys_delay",
    "sys_cost", "exit", "load", "mutex", "sched_delay", "irq_delay", "irq_stats">>,
  exits |-> <<"rw_sem", "task_monitor", "sig_info", "uprobe", "reboot", "utilization",
    "kprobe", "irq_trace", "run_trace", "perf", "exec", "sys_cost", "sys_delay", "exit",
    "load", "mutex", "sched_delay", "irq_delay", "irq_stats">>]
diag_net == [
  inits |-> <<"tcp_retrans", "drop_packet", "ping_delay", "ping_delay6",
    "net_bandwidth", "tcp_connect">>,
  undo |-> <<"net_bandwidth", "ping_delay6", "ping_delay", "drop_packet", "tcp_retrans">>,
  exits |-> <<"ping_delay6", "ping_delay", "tcp_retrans", "drop_packet",
    "net_bandwidth", "tcp_connect">>]
diag_mm == [
  inits |-> <<"alloc_page", "memory_leak", "alloc_top", "high_order", "rss_monitor",
    "memcg_stats">>,
  undo |-> <<"rss_monitor", "high_order", "alloc_top", "memory_leak", "alloc_page">>,
  exits |-> <<"memcg_stats", "rss_monitor", "high_order", "alloc_page", "memory_leak",
    "alloc_top">>]
\* Mutant: the exit of a subsystem forgets a part.
MutFs == [
  inits |-> <<"orphan", "rw_top", "shm", "cache">>,
  undo |-> <<"shm", "rw_top", "orphan">>,
  exits |-> <<"cache", "orphan", "rw_top">>]
diag_fs == [
  inits |-> <<"orphan", "rw_top", "shm", "cache">>,
  undo |-> <<"shm", "rw_top", "orphan">>,
  exits |-> <<"cache", "shm", "orphan", "rw_top">>]
\* The end of diag_kernel_init and the beginning of diag_kernel_exit.
timing == [
  inits |-> <<"timers", "notifier">>, undo |-> <<>>, exits |-> <<"notifier", "timers">>]
Single(part) == [inits |-> <<part>>, undo |-> <<>>, exits |-> <<part>>]

diagnosis == <<Single("symbols"), Single("context"), Single("controller"), diag_kernel,
  timing, diag_net, diag_mm, Single("pupil"), diag_fs, Single("pmu"), Single("test"),
  Single("dev")>>

Calls(field, subs) == FlattenSeq([i \in DOMAIN subs |-> subs[i][field]])
Loads == Do("init", Calls("inits", diagnosis))
Parts == Range(Calls("inits", diagnosis))

\* Monitors are neither the files they are reached by nor the timers; setting up the
\* timers and the notifier does not fail.
ASSUME PartsAssumption ==
  /\ Watched \subseteq Parts \ {"controller", "dev", "timers", "notifier"}
  /\ Fallible \cap {"timers", "notifier"} = {}
  /\ None \notin Parts \cup ({"probe", "flag"} \X BOOLEAN)

\* What the goto of a failed part calls: the calls below its label.  Mutant: a label
\* that is one too far up.
Label(sub, part) == SelectInSeq(Reverse(sub.inits), LAMBDA p : p = part)
MutBelow(sub, part) ==
  LET i == Label(sub, part)
  IN SubSeq(sub.undo, IF i > 1 THEN i - 1 ELSE 1, Len(sub.undo))
Below(sub, part) == SubSeq(sub.undo, Label(sub, part), Len(sub.undo))

\* The rest is diagnosis_init's own ladder, which calls the exits.
Undoes(part) ==
  LET s == CHOOSE i \in DOMAIN diagnosis : Contains(diagnosis[i].inits, part)
  IN Do("exit", Below(diagnosis[s], part)
                \o Calls("exits", Reverse(SubSeq(diagnosis, 1, s - 1))))

\* diagnosis_exit.  Mutants: the system calls in flight are not waited for; the probe
\* of sys_enter is not taken off.
Ends == <<<<"exit", "controller">>, <<"exit", "dev">>, <<"sync", "1">>>>
Rest == Do("exit", <<"test">> \o
                   Calls("exits", <<timing, diag_kernel, diag_net, diag_mm>>) \o <<"pupil">> \o
                   diag_fs.exits \o <<"pmu", "symbols">>)
        \o <<<<"sync", "2">>, <<"exit", "context">>>>
MutNoDrain == <<<<"unhook", "test">>, <<"unhook", "do">>>> \o Ends \o Rest
MutNoUnhook == Ends \o <<<<"drain", "1">>>> \o Rest
Unloads == <<<<"unhook", "test">>, <<"unhook", "do">>>> \o Ends \o <<<<"drain", "1">>>> \o Rest

-----------------------------------------------------------------------------
Init ==
  /\ alone \in BOOLEAN /\ notifies \in BOOLEAN
  /\ phase = "loading" /\ todo = Loads /\ broken = None /\ up = {}
  /\ active = {} /\ flag = FALSE /\ probed = FALSE /\ writer = None
  /\ caller = [c \in Callers |-> "idle"] /\ user = [u \in Users |-> "closed"]
  /\ online \in (SUBSET CPUs) \ {{}} /\ armed = [c \in CPUs |-> "no"]
  /\ notified = FALSE /\ missed = {} /\ events = 0

Call == Head(todo)
Is(op, part) == todo # <<>> /\ Call = <<op, part>>
Doing(op) == todo # <<>> /\ Call[1] = op
Counted == {c \in Callers : caller[c] \notin {"idle", "inside", "left"}}
outside == UNCHANGED <<alone, writer, caller, user, online, notifies, events>>
hooks == UNCHANGED <<flag, probed>>
timers == UNCHANGED <<armed, notified, missed>>
Went == todo' = Tail(todo)

(* insmod *)

\* A part comes up; the last ones are the timers of the CPUs that are online, then the
\* notifier, in kernels before 4.14.
InitPart ==
  /\ Doing("init") /\ Call[2] \notin {"timers", "notifier"}
  /\ Went /\ up' = up \cup {Call[2]}
  /\ phase' = IF Len(todo) = 1 THEN "loaded" ELSE phase
  /\ UNCHANGED <<broken, active>> /\ hooks /\ timers /\ outside

InitFails ==
  /\ Doing("init") /\ Call[2] \in Fallible
  /\ todo' = Undoes(Call[2]) /\ broken' = Call[2]
  /\ phase' = IF todo' = <<>> THEN "refused" ELSE "undoing"
  /\ UNCHANGED <<up, active>> /\ hooks /\ timers /\ outside

StartTimers ==
  /\ Is("init", "timers") /\ Went
  /\ armed' = [c \in CPUs |-> IF c \in online THEN "own" ELSE "no"]
  /\ UNCHANGED <<phase, broken, up, active, notified, missed>> /\ hooks /\ outside

Register ==
  /\ Is("init", "notifier") /\ Went /\ notified' = notifies
  /\ UNCHANGED <<phase, broken, up, active, armed, missed>> /\ hooks /\ outside

(* What is called to take parts down, by either *)

ExitPart ==
  /\ Doing("exit") /\ Call[2] \notin {"timers", "notifier"}
  /\ Is("exit", "controller") => writer = None     \* remove_proc_entry waits
  /\ Went /\ up' = up \ {Call[2]} /\ active' = active \ {Call[2]}
  /\ phase' = IF Len(todo) > 1 THEN phase ELSE IF phase = "undoing" THEN "refused" ELSE "out"
  /\ UNCHANGED broken /\ hooks /\ timers /\ outside

Unregister ==
  /\ Is("exit", "notifier") /\ Went /\ notified' = FALSE
  /\ UNCHANGED <<phase, broken, up, active, armed, missed>> /\ hooks /\ outside

\* hrtimer_cancel for every possible CPU.
CancelTimers ==
  /\ Is("exit", "timers") /\ Went /\ armed' = [c \in CPUs |-> "no"]
  /\ UNCHANGED <<phase, broken, up, active, notified, missed>> /\ hooks /\ outside

(* rmmod *)

\* An open device holds the module (diag_open: __module_get).
Rmmod ==
  /\ phase = "loaded" /\ \A u \in Users : user[u] = "closed"
  /\ alone => writer = None
  /\ phase' = "unloading" /\ todo' = Unloads
  /\ UNCHANGED <<broken, up, active>> /\ hooks /\ timers /\ outside

TestFlag ==
  /\ Is("unhook", "test")
  /\ todo' = IF flag THEN Tail(todo) ELSE Tail(Tail(todo))
  /\ UNCHANGED <<phase, broken, up, active>> /\ hooks /\ timers /\ outside
UnhookAtExit ==
  /\ Is("unhook", "do") /\ Went /\ probed' = FALSE /\ flag' = FALSE
  /\ UNCHANGED <<phase, broken, up, active>> /\ timers /\ outside

\* synchronize_sched: nobody is in the probe with preemption off.
Sync ==
  /\ Doing("sync") /\ \A c \in Callers : caller[c] \notin {"inside", "left"}
  /\ Went /\ UNCHANGED <<phase, broken, up, active>> /\ hooks /\ timers /\ outside
Drain ==
  /\ Doing("drain") /\ Counted = {}
  /\ Went /\ UNCHANGED <<phase, broken, up, active>> /\ hooks /\ timers /\ outside

Load == InitPart \/ InitFails \/ StartTimers \/ Register
        \/ ExitPart \/ Unregister \/ CancelTimers
        \/ TestFlag \/ UnhookAtExit \/ Sync \/ Drain

-----------------------------------------------------------------------------
(* The controller file *)

Event == events < MaxEvents /\ events' = events + 1
quiet == UNCHANGED <<alone, loader, user, cpus>>
Usable == "controller" \in up /\ (alone => phase = "loaded")
\* Nobody holds controller_sem.
SemFree == \A c \in Callers : caller[c] \in {"idle", "inside", "waiting", "left"}

Activate(m) ==
  /\ Event /\ Usable /\ SemFree /\ writer = None
  /\ active' = active \cup {m}
  /\ UNCHANGED <<flag, probed, writer, caller>> /\ quiet
Deactivate(m) ==
  /\ Event /\ Usable /\ SemFree /\ writer = None /\ m \in active
  /\ active' = active \ {m}
  /\ UNCHANGED <<flag, probed, writer, caller>> /\ quiet

\* diag_hook_sys_enter and diag_unhook_sys_enter: a test, the tracepoint, the flag.
Switch(to) ==
  /\ Event /\ Usable /\ writer = None /\ flag # to
  /\ writer' = <<"probe", to>>
  /\ UNCHANGED <<active, flag, probed, caller>> /\ quiet
SwitchProbe ==
  /\ writer # None /\ writer[1] = "probe"
  /\ probed' = writer[2] /\ writer' = <<"flag", writer[2]>>
  /\ UNCHANGED <<events, active, flag, caller>> /\ quiet
SwitchFlag ==
  /\ writer # None /\ writer[1] = "flag"
  /\ flag' = writer[2] /\ writer' = None
  /\ UNCHANGED <<events, active, probed, caller>> /\ quiet

Write ==
  \/ \E m \in Watched : Activate(m) \/ Deactivate(m)
  \/ \E to \in BOOLEAN : Switch(to)
  \/ SwitchProbe \/ SwitchFlag

-----------------------------------------------------------------------------
(* System calls and the device *)

Moves(c, from, to) == caller[c] = from /\ caller' = [caller EXCEPT ![c] = to]
still == UNCHANGED <<alone, loader, active, flag, probed, writer, user, cpus, events>>

Enter(c) == probed /\ Moves(c, "idle", "inside") /\ still
Count(c) == Moves(c, "inside", "waiting") /\ still
Handle(c, m) == SemFree /\ Moves(c, "waiting", m) /\ still
Uncount(c) == \E m \in Watched : Moves(c, m, "left") /\ still
Leave(c) == Moves(c, "left", "idle") /\ still

\* diag_cb_sys_enter
Called(c) == Count(c) \/ (\E m \in Watched : Handle(c, m)) \/ Uncount(c) \/ Leave(c)

Opens(u, from, to) ==
  /\ user[u] = from /\ user' = [user EXCEPT ![u] = to]
  /\ UNCHANGED <<alone, loader, active, flag, probed, writer, caller, cpus>>
\* The file operations have no owner: until the device is gone it can be opened,
\* and the module is held only from then on.
Open(u) ==
  Event /\ "dev" \in up /\ (alone => phase = "loaded") /\ Opens(u, "closed", "open")
Ioctl(u, m) == UNCHANGED events /\ Opens(u, "open", m)
IoctlEnds(u) == UNCHANGED events /\ \E m \in Watched : Opens(u, m, "open")
Close(u) == UNCHANGED events /\ Opens(u, "open", "closed")
Device(u) == Open(u) \/ (\E m \in Watched : Ioctl(u, m)) \/ IoctlEnds(u) \/ Close(u)

-----------------------------------------------------------------------------
(* CPUs *)

rest == UNCHANGED <<alone, loader, active, flag, probed, writer, caller, user>>

\* diag_cpu_notifier, CPU_ONLINE: start_timer, which leaves a started timer alone.
CpuUp(c) ==
  /\ Event /\ c \notin online /\ online' = online \cup {c}
  /\ armed' = [armed EXCEPT ![c] = IF notified /\ @ = "no" THEN "own" ELSE @]
  /\ missed' = IF ~ notified THEN missed \cup {c}
               ELSE IF armed[c] = "no" THEN missed \ {c} ELSE missed
  /\ UNCHANGED <<notifies, notified>> /\ rest
\* Mutant: timer_started stays set.
MutCpuDown(c) ==
  /\ Event /\ c \in online /\ online # {c} /\ online' = online \ {c}
  /\ armed' = [armed EXCEPT ![c] = IF @ = "no" THEN @ ELSE "away"]
  /\ missed' = IF notified THEN missed \ {c} ELSE missed \cup {c}
  /\ UNCHANGED <<notifies, notified>> /\ rest
\* CPU_DEAD; without the notifier the kernel moves the timer to another CPU.
CpuDown(c) ==
  /\ Event /\ c \in online /\ online # {c} /\ online' = online \ {c}
  /\ armed' = [armed EXCEPT ![c] = IF notified THEN "no" ELSE IF @ = "no" THEN @ ELSE "away"]
  /\ missed' = IF notified THEN missed \ {c} ELSE missed \cup {c}
  /\ UNCHANGED <<notifies, notified>> /\ rest

Next ==
  \/ Load \/ Rmmod \/ Write
  \/ \E c \in Callers : Enter(c) \/ Called(c)
  \/ \E u \in Users : Device(u)
  \/ \E c \in CPUs : CpuUp(c) \/ CpuDown(c)

\* Fairness: the process of insmod or rmmod goes on, and so does one in a system call
\* or a write; nobody has to call, write or open.
Spec == Init /\ [][Next]_vars
FairSpec ==
  /\ Spec /\ WF_vars(Load) /\ WF_vars(SwitchProbe \/ SwitchFlag)
  /\ \A c \in Callers : WF_vars(Called(c))

-----------------------------------------------------------------------------
TypeOK ==
  /\ phase \in {"loading", "undoing", "refused", "loaded", "unloading", "out"}
  /\ up \subseteq Parts /\ active \subseteq Watched /\ broken \in Fallible \cup {None}
  /\ caller \in [Callers -> Watched \cup {"idle", "inside", "waiting", "left"}]
  /\ user \in [Users -> Watched \cup {"closed", "open"}]
  /\ armed \in [CPUs -> {"no", "own", "away"}] /\ missed \subseteq CPUs
  /\ phase \in {"refused", "loaded", "out"} <=> todo = <<>>

\* The parts a timer looks into when it fires (hrtimer_handler).
TimerParts == {"context", "irq_delay", "sys_delay", "load", "perf", "utilization",
               "task_monitor"}

\* A timer, a system call of the tool or a call of the device never gets to a part that
\* is not initialised, or already torn down, as long as the controller and the device
\* are left alone while the module is loaded and unloaded.
UsesOnlyWhatIsUp ==
  /\ \A c \in CPUs : armed[c] # "no" => TimerParts \subseteq up
  /\ alone =>
       /\ \A c \in Callers : caller[c] \in Watched => caller[c] \in up
       /\ \A u \in Users : user[u] # "closed" => "dev" \in up
       /\ \A u \in Users : user[u] \in Watched => user[u] \in up

\* An exit function is called for a part that was initialised, and once: whichever
\* init failed, the ladder starts at the right label.  throttle_delay's is called when
\* its own init failed; it is empty.
ExitsOnlyWhatIsUp ==
  \A p \in Parts \ {"timers", "notifier"} :
    Is("exit", p) /\ p # "throttle_delay" => p \in up

\* When rmmod or a failed insmod returns, and the module's memory goes, nothing points
\* into it: no part is left, no timer armed, no monitor active, no probe registered.
\* But diag_kernel_exit forgets throttle_delay, and its own ladder forgets rw_sem when
\* throttle_delay fails; the controller file used meanwhile can leave the probe, and
\* hooks when the ladder has passed their monitor.
LeavesNothing ==
  phase \in {"refused", "out"} =>
    /\ up \subseteq IF broken = "throttle_delay" THEN {"rw_sem"} ELSE {"throttle_delay"}
    /\ \A c \in CPUs : armed[c] = "no"
    /\ phase = "out" \/ alone => active \subseteq {"throttle_delay"}
    /\ alone => ~ probed /\ (\A c \in Callers : caller[c] = "idle")
                /\ (\A u \in Users : user[u] = "closed")

\* A CPU that is online has its own timer while the module is loaded, unless it came or
\* went when nobody was notified: between on_each_cpu and the registration, or at any
\* time in kernels from 4.14 on.
SamplesEveryCpu ==
  phase = "loaded" => \A c \in online \ missed : armed[c] = "own"

\* rmmod comes to its end: the calls in flight leave, and no new ones enter.
UnloadEnds == (alone /\ phase = "unloading") ~> (phase = "out")
=============================================================================
