---------------------------- MODULE MonitorLife ----------------------------
(***************************************************************************)
(* The life of a monitor inside the module: activation hooks its handlers  *)
(* into the kernel, deactivation takes them out, waits for those that are  *)
(* still running and disposes of what they recorded, module exit does the  *)
(* same and gives back the buffer and the text.  Every monitor writes that *)
(* sequence out for itself, in an order of its own: Life holds one row for *)
(* each, and the actions below say what every kind of step does while      *)
(* handlers run on other CPUs, a report is being made and settings are     *)
(* changed.  The kernel is not preemptible: what runs between two places   *)
(* where it may sleep is what a grace period waits for.                    *)
(***************************************************************************)
EXTENDS Integers, Sequences, FiniteSets

CONSTANTS
  Monitors,     \* the monitors under check, names of rows of Life
  Flows,        \* flows of execution that run into handlers
  Descs,        \* memory for what a handler records
  None,         \* no descriptor
  Sleepers,     \* monitors whose msleep is taken to outlast every handler
  OneOperator,  \* SET is never issued while another request is under way
  MaxSessions   \* bound on the number of activations

-----------------------------------------------------------------------------
(* One row for each monitor.                                               *)
(*   hooks   kinds of handlers: "probe" runs from a tracepoint, "counted"  *)
(*           counts itself in diag_nr_running after it was entered and may *)
(*           sleep, "guarded" is a kprobe, uprobe or notifier whose        *)
(*           removal waits for it, "timer" is called by the per-CPU timer  *)
(*           while the monitor is activated, "own" a timer or work item of *)
(*           the monitor's,                                                *)
(*           "ticker" by the per-CPU timer whether activated or not,       *)
(*           "reaper" takes out what an exiting task, freed memory or a    *)
(*           removed cgroup leaves and frees it, "asked" is a uprobe that  *)
(*           a command hooks, "command" a request that works on what the   *)
(*           handlers record, these two whether activated or not.          *)
(*   styled  the kinds that are hooked only with style 1.                  *)
(*   data    "none", or handlers record into descriptors of a tree, which  *)
(*           they use under its lock ("locked") or without it ("kept").    *)
(*   inserts the kinds that add descriptors, the others only look them up. *)
(*   reaps   the kinds that take descriptors out and free them at once.    *)
(*   on, off, exit, dump   what is done, in the order of the code.         *)
(* Steps: "hook" and "unhook" (tracepoints, patches), "unprobe", "start"   *)
(* and "stop" (own timers, waits for them), "sync" (synchronize_sched),    *)
(* "msleep", "drain" (until diag_nr_running is 0), "detach" (out of the    *)
(* tree, onto a list), "free" (kfree of the list), "defer" (call_rcu),     *)
(* "clean" (out of the tree and kfree), "forget" (the tree is initialised  *)
(* as it is), "clear" (activated = 0), "close" (no more commands),         *)
(* "destroy" (of the record buffer); "cancel" (of the per-CPU timers) and  *)
(* a last "sync" begin and end the exit of the module.                     *)

Kinds ==
  {"probe", "counted", "guarded", "reaper", "timer", "ticker", "own", "asked", "command"}
Deferred == <<"detach", "defer">>
DrainEnd == <<"sync", "msleep", "drain">>

Plain == [hooks |-> {"probe"}, styled |-> {}, data |-> "none",
          inserts |-> Kinds, reaps |-> {"reaper"}, on |-> <<"hook">>, off |-> <<"unhook">> \o DrainEnd,
          exit |-> <<"off", "destroy">>, dump |-> <<>>]

\* With style 1 the arguments of processes are kept in a tree: execve inserts
\* them, and the other handlers read them.
Chained == [Plain EXCEPT !.styled = {"counted", "reaper"}, !.data = "kept",
                         !.inserts = {"counted"}]

\* kernel/
mutex_monitor == [Plain EXCEPT !.hooks = {"counted"}, !.styled = {"counted", "reaper"},
  !.data = "kept",
  !.off = <<"unhook", "detach", "sync", "free", "sync", "msleep", "drain">>]
rw_sem == [Plain EXCEPT !.hooks = {"guarded"}, !.styled = {"counted", "reaper"}, !.data = "kept",
  !.off = <<"unhook", "unprobe", "detach", "sync", "free", "sync", "msleep", "drain">>]
sys_delay == [Chained EXCEPT !.hooks = {"probe", "counted", "guarded", "timer"},
  !.on = Deferred \o <<"msleep", "hook">>,
  !.off = <<"msleep", "unhook", "unprobe">> \o DrainEnd \o Deferred]
sched_delay == [Plain EXCEPT !.data = "kept",
  !.on = <<"forget", "hook">>, !.off = <<"unhook", "msleep", "drain">>,
  !.exit = <<"off", "clean", "destroy">>]
irq_delay == [Plain EXCEPT !.hooks = {"timer"}, !.off = <<"sync">>]
irq_stats == [Plain EXCEPT !.data = "kept", !.on = <<"forget", "hook">>,
  !.off = <<"unhook", "sync", "msleep", "clean">>]
irq_trace == [Plain EXCEPT !.off = <<"unhook", "sync">>]
sys_cost == [Plain EXCEPT !.off = <<"unhook", "sync">>, !.exit = <<"off", "msleep", "destroy">>]
sig_info == [Plain EXCEPT !.off = <<"unhook", "sync", "msleep">>]
throttle_delay == [Plain EXCEPT !.hooks = {"probe", "counted"},
  !.off = <<"unhook", "msleep", "drain">>, !.exit = <<>>]
\* A command starts and stops the tracing of a task, clears what is asked of it, or
\* hooks uprobes that do.
run_trace == [Plain EXCEPT !.hooks = {"probe", "reaper", "own", "asked", "command"},
  !.data = "kept", !.inserts = {"probe", "asked", "command"}, !.reaps = {"reaper", "command"},
  !.on = <<"msleep", "hook", "start">>,
  !.off = <<"stop", "msleep", "unprobe", "unhook">> \o DrainEnd \o <<"clean">>,
  !.exit = <<"unprobe", "close", "off", "destroy">>]
\* Mutant: the trees are emptied before execve is unhooked.
MutExec == [Chained EXCEPT !.hooks = {"counted", "reaper"}, !.styled = {},
  !.on = Deferred \o <<"hook">>, !.off = Deferred \o <<"unhook">> \o DrainEnd]
exec_monitor == [Chained EXCEPT !.hooks = {"counted", "reaper"}, !.styled = {},
  !.on = Deferred \o <<"hook">>, !.off = <<"unhook">> \o DrainEnd \o Deferred]
exit_monitor == [Plain EXCEPT !.hooks = {"counted"}]
utilization == [Chained EXCEPT !.hooks = {"probe", "ticker"}, !.inserts = Kinds,
  !.on = <<"forget", "clean", "hook">>, !.off = <<"unhook">> \o DrainEnd \o <<"clean">>]
perf == [Chained EXCEPT !.hooks = {"timer"}, !.on = Deferred \o <<"hook">>,
  !.off = <<"unhook">> \o DrainEnd \o Deferred, !.exit = <<"off", "msleep", "sync", "destroy">>]
reboot == [Plain EXCEPT !.hooks = {"guarded"}, !.off = <<"unprobe">> \o DrainEnd,
  !.exit = <<"off", "msleep", "sync">>]
kprobe == [Plain EXCEPT !.hooks = {"guarded"}, !.off = <<"unprobe">> \o DrainEnd,
  !.exit = <<"off", "msleep", "sync", "destroy">>]
uprobe == kprobe
task_monitor == [Plain EXCEPT !.hooks = {"timer", "own"}, !.on = <<"start">>,
  !.off = <<"clear", "sync", "stop", "msleep", "drain">>]
\* net/
ping_delay == [Plain EXCEPT !.hooks = {"probe", "guarded", "counted"}, !.data = "kept",
  !.on = Deferred \o <<"hook">>,
  !.off = <<"unhook", "unprobe", "unhook", "msleep", "drain">> \o Deferred,
  !.exit = <<"destroy", "off">>, !.dump = Deferred]
ping_delay6 == ping_delay
\* Mutant: the buffer is destroyed first, as ping_delay does.
MutDropPacket == [ping_delay EXCEPT
  !.off = <<"unhook", "unprobe">> \o DrainEnd \o Deferred]
drop_packet == [ping_delay EXCEPT
  !.off = <<"unhook", "unprobe">> \o DrainEnd \o Deferred, !.exit = <<"off", "destroy">>]
net_bandwidth == [drop_packet EXCEPT !.hooks = {"probe", "guarded"}]
tcp_retrans == [Plain EXCEPT !.data = "locked", !.hooks = {"counted", "guarded"}, !.on = <<"clean", "hook">>,
  !.off = <<"unhook", "unprobe">> \o DrainEnd \o <<"clean">>, !.dump = <<"detach", "sync", "free">>]
tcp_connect == [Plain EXCEPT !.hooks = {"guarded"}, !.off = <<"unprobe">> \o DrainEnd]
\* mm/
alloc_top == [Plain EXCEPT !.hooks = {"probe", "reaper"}, !.data = "kept",
  !.exit = <<"off", "msleep", "clean", "destroy">>, !.dump = <<"detach", "free">>]
high_order == [Plain EXCEPT !.exit = <<"off", "msleep", "destroy">>]
memory_leak == [Plain EXCEPT !.hooks = {"probe", "reaper"}, !.data = "kept",
  !.off = <<"unhook">> \o DrainEnd \o <<"clean">>,
  !.exit = <<"off", "clean", "destroy">>, !.dump = <<"detach", "free">>]
rss_monitor == [Plain EXCEPT !.data = "locked", !.hooks = {"guarded"}, !.reaps = {"guarded"},
  !.off = <<"unprobe">> \o DrainEnd \o <<"clean">>,
  !.exit = <<"off", "msleep", "sync", "clean", "destroy">>, !.dump = <<"detach", "free">>]
memcg_stats == [Plain EXCEPT !.hooks = {}, !.on = <<>>, !.off = DrainEnd]
\* fs/
rw_top == [Plain EXCEPT !.hooks = {"guarded", "counted"}, !.data = "kept",
  !.off = <<"unprobe", "unhook">> \o DrainEnd,
  !.exit = <<"off", "msleep", "destroy", "msleep", "clean">>, !.dump = <<"detach", "free">>]
fs_cache == memcg_stats
fs_orphan == memcg_stats
fs_shm == memcg_stats
\* pmu/
pmu == [Plain EXCEPT !.hooks = {"probe", "reaper"}, !.data = "kept",
  !.off = <<"unhook", "sync", "msleep", "clean">>]

Life == [mutex_monitor |-> mutex_monitor, rw_sem |-> rw_sem, sys_delay |-> sys_delay,
  sched_delay |-> sched_delay, irq_delay |-> irq_delay, irq_stats |-> irq_stats,
  irq_trace |-> irq_trace, sys_cost |-> sys_cost, sig_info |-> sig_info,
  throttle_delay |-> throttle_delay, run_trace |-> run_trace, exec_monitor |-> exec_monitor,
  exit_monitor |-> exit_monitor, utilization |-> utilization, perf |-> perf, reboot |-> reboot,
  kprobe |-> kprobe, uprobe |-> uprobe, task_monitor |-> task_monitor,
  ping_delay |-> ping_delay, ping_delay6 |-> ping_delay6, drop_packet |-> drop_packet,
  net_bandwidth |-> net_bandwidth, tcp_retrans |-> tcp_retrans, tcp_connect |-> tcp_connect,
  alloc_top |-> alloc_top, high_order |-> high_order, memory_leak |-> memory_leak,
  rss_monitor |-> rss_monitor, memcg_stats |-> memcg_stats, rw_top |-> rw_top,
  fs_cache |-> fs_cache, fs_orphan |-> fs_orphan, fs_shm |-> fs_shm, pmu |-> pmu]

ASSUME LifeAssumption ==
  /\ Monitors \subseteq DOMAIN Life /\ IsFiniteSet(Flows)
  /\ None \notin Descs /\ OneOperator \in BOOLEAN /\ MaxSessions \in Nat

-----------------------------------------------------------------------------
VARIABLES
  mon,        \* the monitor
  style,      \* settings.style is 1
  activated,  \* settings.activated
  hooks,      \* the kinds that are hooked
  timers,     \* the per-CPU timers run
  running,    \* diag_nr_running of the monitor
  buffer,     \* the record buffer: "none", "up" or "gone"
  where,      \* per descriptor: "free", "in" the tree, on a list ("ctl" or
              \* "dump"), left to RCU, freed by the monitor ("dead") or by a
              \* reaper ("reaped"), "lost", or a "stray" that never got into
              \* the tree
  waits,      \* per descriptor left to RCU: the flows its callback waits for
  pc, kind,   \* per flow: where it is, and in which kind of handler
  ptr,        \* per flow: the descriptor it uses
  phase,      \* what the controller is doing
  todo,       \* the steps the controller and the report have yet to do
  gp,         \* the flows these two wait for
  spc,        \* where the SET request is
  sessions    \* number of activations

flowVars == <<running, pc, kind, ptr>>
dataVars == <<where, waits>>
monVars == <<mon, style, activated, hooks, timers, buffer>>
reqVars == <<phase, todo, spc, sessions>>
vars == <<flowVars, dataVars, monVars, reqVars, gp>>

Row == Life[mon]
Atomic == {"entry", "work", "held", "emit", "done"}
InAtomic(ks) == {f \in Flows : pc[f] \in Atomic /\ kind[f] \in ks}
Tree == {d \in Descs : where[d] = "in"}
Idle == phase = "idle"

\* settings.style is of no consequence where nothing is hooked by it.
Styles == IF Row.styled = {} THEN {FALSE} ELSE BOOLEAN

Init ==
  /\ mon \in {CHOOSE m \in Monitors : Life[m] = r : r \in {Life[m] : m \in Monitors}}
  /\ style \in Styles /\ activated = FALSE /\ timers = TRUE
  /\ hooks = Life[mon].hooks \cap {"command"}
  /\ running = 0 /\ buffer = "none"
  /\ where = [d \in Descs |-> "free"] /\ waits = [d \in Descs |-> {}]
  /\ pc = [f \in Flows |-> "out"] /\ kind = [f \in Flows |-> "probe"]
  /\ ptr = [f \in Flows |-> None]
  /\ phase = "idle" /\ todo = [p \in {"ctl", "dump"} |-> <<>>]
  /\ gp = [p \in {"ctl", "dump"} |-> {}]
  /\ spc = "idle" /\ sessions = 0

-----------------------------------------------------------------------------
(* Handlers.                                                               *)

\* A flow that leaves its atomic section ends its part in every grace period.
Goto(f, p) ==
  /\ pc' = [pc EXCEPT ![f] = p]
  /\ IF p \in Atomic
       THEN UNCHANGED <<gp, waits>>
       ELSE /\ gp' = [q \in DOMAIN gp |-> gp[q] \ {f}]
            /\ waits' = [d \in Descs |-> waits[d] \ {f}]

\* Which handlers the kernel may call.
Callable ==
  (hooks \ {"timer", "ticker"})
    \cup (IF timers THEN Row.hooks \cap (IF activated THEN {"timer", "ticker"} ELSE {"ticker"})
                    ELSE {})

Enter(f) ==
  /\ pc[f] = "out"
  /\ \E k \in Callable :
       /\ kind' = [kind EXCEPT ![f] = k]
       /\ Goto(f, IF k = "counted" THEN "entry" ELSE "work")
  /\ UNCHANGED <<running, ptr, where, monVars, reqVars>>

Count(f) ==
  /\ pc[f] = "entry"
  /\ running' = running + 1
  /\ Goto(f, "work")
  /\ UNCHANGED <<kind, ptr, where, monVars, reqVars>>

\* Only what is counted may sleep.
Sleep(f) ==
  /\ pc[f] = "work" /\ kind[f] = "counted"
  /\ Goto(f, "asleep")
  /\ UNCHANGED <<running, kind, ptr, where, monVars, reqVars>>

Wake(f) ==
  /\ pc[f] = "asleep"
  /\ Goto(f, "work")
  /\ UNCHANGED <<running, kind, ptr, where, monVars, reqVars>>

\* A descriptor is found, or a new one inserted under the tree's lock.  Nobody looks
\* at what radix_tree_insert returns: without memory for the tree the new one is used
\* all the same, and is in no tree.
FindDesc(f) ==
  /\ pc[f] = "work" /\ kind[f] # "reaper" /\ Row.data # "none"
  /\ \E d \in Descs, at \in {"in", "stray"} :
       /\ \/ where[d] = "in" /\ at = "in"
          \/ where[d] = "free" /\ Tree = {} /\ kind[f] \in Row.inserts
       /\ where' = [where EXCEPT ![d] = at]
       /\ IF Row.data = "kept"
            THEN ptr' = [ptr EXCEPT ![f] = d] /\ Goto(f, "held")
            ELSE ptr' = ptr /\ Goto(f, "done")
  /\ UNCHANGED <<running, kind, monVars, reqVars>>

\* One that is no longer wanted is taken out under the lock and freed: by a reaper when
\* nobody else works for its task any more, by the others at any time.
Reap(f) ==
  /\ pc[f] = "work" /\ kind[f] \in Row.reaps
  /\ \E d \in Tree :
       where' = [where EXCEPT ![d] = IF kind[f] = "reaper" THEN "reaped" ELSE "dead"]
  /\ Goto(f, "done")
  /\ UNCHANGED <<running, kind, ptr, monVars, reqVars>>

\* diag_variant_buffer_reserve finds no buffer before the first activation and
\* after its destruction, and the record is dropped.
Emit(f) ==
  /\ pc[f] \in {"work", "held"}
  /\ Goto(f, IF buffer = "up" THEN "emit" ELSE "done")
  /\ UNCHANGED <<running, kind, ptr, where, monVars, reqVars>>

CountedOut(f) == IF kind[f] = "counted" THEN running - 1 ELSE running

Leave(f) ==
  /\ pc[f] \in {"work", "held", "emit", "done"}
  /\ running' = CountedOut(f)
  /\ ptr' = [ptr EXCEPT ![f] = None]
  /\ Goto(f, "out")
  /\ UNCHANGED <<kind, where, monVars, reqVars>>

\* The callback of call_rcu.
Callback(d) ==
  /\ where[d] = "rcu" /\ waits[d] = {}
  /\ where' = [where EXCEPT ![d] = "dead"]
  /\ UNCHANGED <<waits, flowVars, monVars, reqVars, gp>>

-----------------------------------------------------------------------------
(* Requests.                                                               *)

Begin(p, steps) == todo' = [todo EXCEPT ![p] = steps]

\* The record buffer is allocated by the first activation.
Activate ==
  /\ Idle /\ ~activated /\ sessions < MaxSessions
  /\ OneOperator => spc = "idle"
  /\ Begin("ctl", Row.on) /\ phase' = "on" /\ sessions' = sessions + 1
  /\ buffer' = IF buffer = "none" THEN "up" ELSE buffer
  /\ UNCHANGED <<flowVars, dataVars, mon, style, activated, hooks, timers, spc, gp>>

Deactivate ==
  /\ Idle /\ activated
  /\ OneOperator => spc = "idle"
  /\ Begin("ctl", Row.off) /\ phase' = "off"
  /\ UNCHANGED <<flowVars, dataVars, monVars, spc, sessions, gp>>

\* The device is gone and nobody is inside a system call of the module when its
\* subsystems are shut down, the per-CPU timers first.
\* The last step stands for the synchronize_sched of diagnosis_exit.
Exit ==
  /\ Idle /\ spc = "idle" /\ todo["dump"] = <<>>
  /\ Begin("ctl", <<"cancel">> \o Row.exit \o <<"sync">>) /\ phase' = "exit"
  /\ UNCHANGED <<flowVars, dataVars, monVars, spc, sessions, gp>>

Done ==
  /\ phase \in {"on", "off", "exit"} /\ todo["ctl"] = <<>>
  /\ phase' = IF phase = "exit" THEN "gone" ELSE "idle"
  /\ activated' = (phase = "on")
  /\ UNCHANGED <<flowVars, dataVars, mon, style, hooks, timers, buffer, todo, spc, sessions, gp>>

\* DUMP, through an ioctl that takes no semaphore.
Dump ==
  /\ phase \in {"idle", "on", "off"} /\ buffer = "up"
  /\ todo["dump"] = <<>> /\ Row.dump # <<>> /\ Tree # {}
  /\ Begin("dump", Row.dump)
  /\ UNCHANGED <<flowVars, dataVars, monVars, phase, spc, sessions, gp>>

\* SET tests activated, sleeps in copy_from_user and assigns the structure.
SetTest ==
  /\ phase \in {"idle", "on", "off"} /\ spc = "idle" /\ ~activated
  /\ OneOperator => Idle
  /\ spc' = "copy"
  /\ UNCHANGED <<flowVars, dataVars, monVars, phase, todo, sessions, gp>>

SetAssign ==
  /\ spc = "copy"
  /\ style' \in Styles /\ activated' = FALSE
  /\ spc' = "idle"
  /\ UNCHANGED <<flowVars, dataVars, mon, hooks, timers, buffer, phase, todo, sessions, gp>>

\* The UPROBE command takes the uprobes out, which waits for their handlers, and puts
\* new ones in if it can.
AskUprobe ==
  /\ "asked" \in Row.hooks /\ phase \in {"idle", "on", "off"}
  /\ InAtomic({"asked"}) = {}
  /\ hooks' \in {hooks \cup {"asked"}, hooks \ {"asked"}}
  /\ UNCHANGED <<flowVars, dataVars, mon, style, activated, timers, buffer, reqVars, gp>>

-----------------------------------------------------------------------------
(* The steps of the controller and of a report, p is one of them.          *)

Next1(p, step) == todo[p] # <<>> /\ Head(todo[p]) = step
Pop(p) == todo' = [todo EXCEPT ![p] = Tail(@)]
\* The step is replaced by waiting until these flows have left.
WaitFor(p, fs) ==
  /\ todo' = [todo EXCEPT ![p] = <<"wait">> \o Tail(@)]
  /\ gp' = [gp EXCEPT ![p] = fs]
Others == <<flowVars, mon, style, phase, spc, sessions>>

Hooked == Row.hooks \cup (IF style THEN Row.styled ELSE {})

Hook ==
  /\ Next1("ctl", "hook")
  /\ hooks' = hooks \cup (Hooked \ {"timer", "ticker", "own", "asked", "command"})
  /\ Pop("ctl") /\ UNCHANGED <<Others, dataVars, activated, timers, buffer, gp>>

\* Mutant: deactivation does not unhook what style 1 has hooked.
MutUnhooked == Row.hooks
Unhooked == Hooked

Unhook ==
  /\ Next1("ctl", "unhook")
  /\ hooks' = hooks \ (Unhooked \ {"guarded", "own", "asked", "command"})
  /\ Pop("ctl") /\ UNCHANGED <<Others, dataVars, activated, timers, buffer, gp>>

\* Unregistering a kprobe, a uprobe or a notifier waits for its handlers.
Unprobe ==
  /\ Next1("ctl", "unprobe")
  /\ hooks' = hooks \ {"guarded", "asked"} /\ WaitFor("ctl", InAtomic({"guarded", "asked"}))
  /\ UNCHANGED <<Others, dataVars, activated, timers, buffer>>

Start ==
  /\ Next1("ctl", "start")
  /\ hooks' = hooks \cup {"own"}
  /\ Pop("ctl") /\ UNCHANGED <<Others, dataVars, activated, timers, buffer, gp>>

\* hrtimer_cancel and flush_work wait.
Stop ==
  /\ Next1("ctl", "stop")
  /\ hooks' = hooks \ {"own"} /\ WaitFor("ctl", InAtomic({"own"}))
  /\ UNCHANGED <<Others, dataVars, activated, timers, buffer>>

Cancel ==
  /\ Next1("ctl", "cancel")
  /\ timers' = FALSE /\ WaitFor("ctl", InAtomic({"timer", "ticker"}))
  /\ UNCHANGED <<Others, dataVars, activated, hooks, buffer>>

SyncSet == InAtomic(Kinds)

Sync(p) ==
  /\ Next1(p, "sync") /\ WaitFor(p, SyncSet)
  /\ UNCHANGED <<Others, dataVars, activated, hooks, timers, buffer>>

\* msleep orders nothing: it is a wait only where it is taken to outlast the
\* handlers that were running when it began.
Msleep(p) ==
  /\ Next1(p, "msleep")
  /\ IF mon \in Sleepers THEN WaitFor(p, InAtomic(Kinds)) ELSE Pop(p) /\ UNCHANGED gp
  /\ UNCHANGED <<Others, dataVars, activated, hooks, timers, buffer>>

Wait(p) ==
  /\ Next1(p, "wait") /\ gp[p] = {}
  /\ Pop(p) /\ UNCHANGED <<Others, dataVars, activated, hooks, timers, buffer, gp>>

\* Mutant: deactivation does not wait for diag_nr_running.
MutDrained == TRUE
\* Mutant: the test of the loop that waits is inverted.
MutInverted == running > 0
Drained == running = 0

Drain ==
  /\ Next1("ctl", "drain") /\ Drained
  /\ Pop("ctl") /\ UNCHANGED <<Others, dataVars, activated, hooks, timers, buffer, gp>>

Move(from, to) == where' = [d \in Descs |-> IF where[d] = from THEN to ELSE where[d]]

Detach(p) ==
  /\ Next1(p, "detach") /\ Move("in", p)
  /\ Pop(p) /\ UNCHANGED <<Others, waits, activated, hooks, timers, buffer, gp>>

Free(p) ==
  /\ Next1(p, "free") /\ Move(p, "dead")
  /\ Pop(p) /\ UNCHANGED <<Others, waits, activated, hooks, timers, buffer, gp>>

\* Mutant: the list is freed with kfree.
MutDeferred(p) == Move(p, "dead") /\ UNCHANGED waits
DeferredFree(p) ==
  /\ Move(p, "rcu")
  /\ waits' = [d \in Descs |-> IF where[d] = p THEN InAtomic(Kinds) ELSE waits[d]]

Defer(p) ==
  /\ Next1(p, "defer") /\ DeferredFree(p)
  /\ Pop(p) /\ UNCHANGED <<Others, activated, hooks, timers, buffer, gp>>

Clean ==
  /\ Next1("ctl", "clean") /\ Move("in", "dead")
  /\ Pop("ctl") /\ UNCHANGED <<Others, waits, activated, hooks, timers, buffer, gp>>

Forget ==
  /\ Next1("ctl", "forget") /\ Move("in", "lost")
  /\ Pop("ctl") /\ UNCHANGED <<Others, waits, activated, hooks, timers, buffer, gp>>

Clear ==
  /\ Next1("ctl", "clear") /\ activated' = FALSE
  /\ Pop("ctl") /\ UNCHANGED <<Others, dataVars, hooks, timers, buffer, gp>>

\* The deactivation a module exit contains, of a monitor that is activated.
Off ==
  /\ Next1("ctl", "off")
  /\ todo' = [todo EXCEPT !["ctl"] = (IF activated THEN Row.off ELSE <<>>) \o <<"clear">> \o Tail(@)]
  /\ UNCHANGED <<Others, dataVars, activated, hooks, timers, buffer, gp>>

\* remove_proc_entry waits for those who write into the settings file; the device is
\* closed by then.
Close ==
  /\ Next1("ctl", "close")
  /\ hooks' = hooks \ {"command"} /\ WaitFor("ctl", InAtomic({"command"}))
  /\ UNCHANGED <<Others, dataVars, activated, timers, buffer>>

Destroy ==
  /\ Next1("ctl", "destroy")
  /\ buffer' = IF buffer = "up" THEN "gone" ELSE buffer
  /\ Pop("ctl") /\ UNCHANGED <<Others, dataVars, activated, hooks, timers, gp>>

-----------------------------------------------------------------------------
Handler(f) ==
  \/ Count(f) \/ Wake(f) \/ FindDesc(f) \/ Reap(f) \/ Emit(f) \/ Leave(f)

Requester(p) ==
  \/ Sync(p) \/ Msleep(p) \/ Wait(p) \/ Detach(p) \/ Free(p) \/ Defer(p)

Controller ==
  \/ Requester("ctl") \/ Done
  \/ Hook \/ Unhook \/ Unprobe \/ Start \/ Stop \/ Cancel \/ Drain
  \/ Clean \/ Forget \/ Clear \/ Off \/ Close \/ Destroy

Next ==
  \/ \E f \in Flows : Enter(f) \/ Sleep(f) \/ Handler(f)
  \/ \E d \in Descs : Callback(d)
  \/ Controller \/ Requester("dump")
  \/ Activate \/ Deactivate \/ Exit \/ Dump \/ SetTest \/ SetAssign \/ AskUprobe

Spec == Init /\ [][Next]_vars

\* Handlers are straight-line code: each gets to its end however often it
\* sleeps, and sleepers are woken.  What the controller has begun goes on; a report
\* need not.
FairSpec ==
  /\ Spec
  /\ \A f \in Flows : WF_vars(Wake(f)) /\ WF_vars(Count(f)) /\ SF_vars(Leave(f))
  /\ WF_vars(Controller)

-----------------------------------------------------------------------------
(* Properties.                                                             *)

\* Every variable has its type: in particular diag_nr_running is never negative.
TypeOK ==
  /\ mon \in Monitors /\ style \in BOOLEAN /\ activated \in BOOLEAN
  /\ hooks \subseteq Kinds /\ timers \in BOOLEAN /\ running \in Nat
  /\ buffer \in {"none", "up", "gone"}
  /\ where \in [Descs -> {"free", "in", "ctl", "dump", "rcu", "dead", "reaped", "lost", "stray"}]
  /\ waits \in [Descs -> SUBSET Flows]
  /\ pc \in [Flows -> Atomic \cup {"out", "asleep"}] /\ kind \in [Flows -> Kinds]
  /\ ptr \in [Flows -> Descs \cup {None}]
  /\ phase \in {"idle", "on", "off", "exit", "gone"} /\ spc \in {"idle", "copy"}
  /\ gp \in [{"ctl", "dump"} -> SUBSET Flows] /\ sessions \in Nat

\* No handler uses a descriptor that a deactivation, a report or a command has freed,
\* although handlers look descriptors up and use them without a lock.
\* A descriptor freed by a task's exit hook is not meant here, see the README.
FreesInUse == {"alloc_top", "rw_top", "utilization", "memory_leak", "run_trace"}
NoUseAfterFree ==
  mon \notin FreesInUse =>
    \A f \in Flows : ptr[f] # None => where[ptr[f]] # "dead"

\* The record buffer is not given back while a record is written into it.
ExitsBackwards == {"ping_delay", "ping_delay6"}
BufferOutlivesHandlers ==
  mon \notin ExitsBackwards => \A f \in Flows : pc[f] = "emit" => buffer = "up"

\* When the module is gone no handler is left in its text, and none can be called.
NeverExits == {"throttle_delay"}
TextOutlivesHandlers ==
  phase = "gone" /\ mon \notin NeverExits =>
    Callable = {} /\ \A f \in Flows : pc[f] = "out"

\* The kinds that do not come and go with activations: the per-CPU timers, commands
\* and the uprobes hooked by command.
Lasting == {"timer", "ticker", "asked", "command"}

\* When a deactivation has returned, nothing but these is inside the monitor: not a
\* handler that had been entered and not counted yet, nor one asleep.
QuietOnceOff ==
  Idle /\ ~activated =>
    /\ hooks \subseteq Lasting
    /\ \A f \in Flows : pc[f] = "out" \/ kind[f] \in Lasting

\* When the module is gone everything its handlers recorded has been freed or is
\* left to RCU, but for what never got into the tree.
Leaks == {"mutex_monitor", "rw_sem", "sched_delay", "utilization", "run_trace"}
NothingLost ==
  phase = "gone" /\ mon \notin Leaks => \A d \in Descs : where[d] \notin {"in", "ctl", "dump", "lost"}

\* Every activation, deactivation and exit of the module ends, whatever the
\* handlers do and however long they sleep.
RequestsEnd == phase \in {"on", "off", "exit"} ~> phase \in {"idle", "gone"}
=============================================================================
