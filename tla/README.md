# TLA+ models of diagnose-tools

diagnose-tools is a Linux kernel module (`src/diagnose-tools/SOURCE/module`) with
some forty monitors, and a command line tool (`SOURCE/diagnose-tools`) that
configures them, switches them on and off and prints what they recorded.  This
directory holds TLA+ models of the module's core, of the life of its monitors and
of the tool's requests to them, the TLC configurations that check the models, and
TLAPS proofs about most of them.  Paths below are relative to
`src/diagnose-tools/SOURCE/module` unless they begin with another directory; the
manuals are in `src/工具使用说明`.

    tlc -workers 2 -config vb_one_report.cfg MCVariantBuffer.tla
    tlapm MutexMonitor_proof.tla

## 1. The system

### How the parts interact

The tool opens the character device and issues ioctls (`chr_dev.c`): SET stores a
settings structure, SETTINGS returns it, DUMP drains the monitor's buffer.  It
writes `activate <name>` and `deactivate <name>` to
`/proc/ali-linux/diagnose/controller` (`entry.c`), which calls the monitor's
`activate_*` and `deactivate_*` under `controller_sem`.  The ioctls are not under
that semaphore.  An old interface does both through invalid system call numbers,
from a probe on `sys_enter`, under the semaphore.

An active monitor has hooks in the kernel: tracepoints, kprobes, functions
replaced by a jump, and one per-CPU timer of ten milliseconds
(`kernel/kern_entry.c`) that calls each monitor's timer function.  Hooks run in
any context, interrupts included, on all CPUs at once; they look things up in
trees, judge a delay or a state, and emit a record: lock the buffer's spin lock,
reserve, write, seal, unlock.  A report copies the buffer out and walks it in
user space with `extract_variant_buffer` (`uapi/ali_diagnose.h`).

Every monitor is written out for itself.  There is no common code for the order in
which a monitor unhooks, waits and frees, for the locks and copies of its request
handlers, or for what the tool does with an answer; the same twenty or thirty lines
exist some thirty-five times, with small differences, and the differences are where
they can go wrong.  Three of the models are therefore tables with one row for each
monitor (or each handler of a packet) and one set of actions that gives the rows
their meaning.

### Components

| component | state | operations | what is hard | what makes it correct | models |
|---|---|---|---|---|---|
| record buffer, `pub/variant_buffer.c` | two halves with position and open header, toggle, product, spin lock, mutex | init, alloc, destroy, discard, reserve, write, seal, backup, copy to user | writers in interrupts against reports, halves changing places, three lengths that must agree | a report sees whole records, in order, the newest ones, each once | `VariantBuffer`, proved |
| report walker, `uapi/ali_diagnose.h` | position in the copy | walk | boundary of the copy | finds every whole record | with the buffer |
| mutex-monitor, `kernel/mutex.c` | patched functions, tree of descriptors, count of tasks inside, settings | the two replaced functions, activate, deactivate, clean_data, SET | memory freed under readers, tasks asleep in the hook, patching while mutexes are held | no use after free, drain, holds timed and reported right | `MutexMonitor`, proved |
| load-monitor, trend, `kernel/load.c` | ring, two timers, file | sample, show, begin, end | no common lock of timer and reader, timers against deactivation | the newest samples in order | `LoadTrend`, proved |
| load-monitor, alarm, `kernel/load.c` | flag, record, time of last record, thresholds | check on every CPU, SET, activate, deactivate | CPUs share a record without a lock, state that outlives sessions | alarms in time, with the right bad time | `LoadAlarm`, proved |
| the life of each monitor, `kernel/`, `net/`, `mm/`, `fs/`, `pmu/` | hooks, descriptors, count of handlers, buffer | activate, deactivate, exit, DUMP, SET; handlers | handlers that are running, asleep or not yet counted while their memory, buffer and text go | nothing runs or is used after it is gone, nothing is left behind, requests end | `MonitorLife`, proved |
| requests, `chr_dev.c`, the monitors' ioctl and system call handlers, the tool | settings, static copies, semaphore, mutexes, ret and arrays of the tool | SET and activation, SETTINGS, DUMP, log, switching of system calls | handlers that sleep half-way, requests on two paths, answers that never come | settings are what was asked for, records are shown once | `RequestRows`, `Requests`, proved |
| packets, `net/` | table of entries, packet, header pointer | every handler of a packet's way, DUMP | who owns the packet, headers that move, two CPUs at one entry | packets handed on once, read only while valid, no mark lost | `PacketHandlers`, `PacketPath`, proved |
| module life, `entry.c`, `chr_dev.c`, `*_entry.c` | parts that are up, hooks, device, per-CPU timers | insmod with its ladders, rmmod, controller, system calls, CPUs | handlers that are running at exit, failure half-way, CPUs that come and go | nothing used before it is up or after it is down, exit ends | `ModuleLife`, proved |
| rw-sem, `kernel/rw_sem.c` | three kprobes, tree of descriptors, settings | probes at the entry of down_write and up_write, activate, deactivate, clean_data, SET | several writers at one descriptor at once, probes that failed to register, waiters that overwrite the holder's time | nothing used after free, nothing left behind, a descriptor holds the time stored last | `RwSem`, proved |
| what each monitor measures (delays, sums, windows of run-trace) | per task, CPU or connection | | who resets a start time last | | not modelled but for mutex, rw-sem and load |
| process chains, `mm_tree.c` | tree of command lines | exec, exit, look up | RCU readers against kfree | | as descriptors of `MonitorLife` |
| memory pool, text buffer and proc file (`pub/`) | lists, text | | | | not modelled |
| stacks, symbols, cgroups, stubs, tests, pupil's dump | none over time | copies and look-ups | | | not modelled |
| symbols, ELF, unwinding, JSON and plots of the tool, Java agent | none over time | sequential text processing | | | not modelled |
| perf-tools, flame graphs, eBPF and Android variants | | | | | not modelled: third party, or copies |

`PROJECT.json` lists the components with their sources, and the hazards, each at
its line with the properties that cover it.

## 2. Plan

| step | modules | composes | abstract specification, runs, theorems |
|---|---|---|---|
| 1, done | `RecordLog`, `VariantBuffer` | | buffer refines the record log; proved |
| 2, done | `MutexMonitor` | | drain, memory and times over two sessions; proved |
| 3, done | `LoadTrend`, `LoadAlarm` | | ring against readers; alarms over sessions; proved |
| 4, done | `MonitorLife` | the buffer as up or gone, JUMP_* | 35 monitors: hooks, waits, frees, exit; proved; requests end |
| 5, done | `RequestRows`, `Requests` | the buffer's promise as a queue of records, controller and device | SET, SETTINGS, DUMP and log of 35 monitors; proved |
| 6, done | `PacketHandlers`, `PacketPath` | | packets and entries of the network monitors; proved |
| 7, done | `ModuleLife` | the subsystems' ladders, device, controller, timers | load and unload; proved |
| 8, done | `RwSem` | the descriptors of `MutexMonitor` | probes, memory and times over two activations; proved |
| 9, open | `SysDelay`, `RunTrace` | `RecordLog` | what these monitors measure: delays judged once and for the right task, events of one task together |
| 10, open | `MmTree`, `MemPool` | | command lines under RCU, boundaries of the pool |

Every invariant and every action property of the passing runs is proved; the theorems
still worth proving are those of the open steps.
Modules that are proved about have no RECURSIVE operators; numbers and sets are
CONSTANTS with named assumptions, and each operation is an action of its own.

## 3. The modules

### RecordLog, VariantBuffer (`pub/variant_buffer.c`, `uapi/ali_diagnose.h`)

`RecordLog` is the promise: records are numbered as they are sealed, the pending
ones form a window, a report takes all of it, and only the oldest may be
forgotten.  `VariantBuffer` is the code.  `buffers[i]` is half `i`: `pos` (the
code's pos), `head` (offset of the open header, or NoHead) and `recs`, the records
below `pos` with their offset, their header's length (0 until `seal` stores it),
and whether all of the payload was stored.  `toggle`, `product`, `size` (buf_size)
and `alloced` are the structure's fields; `spin` and `mutex` its locks.

| code | actions |
|---|---|
| `init_`, `alloc_`, `destroy_`, `discard_diag_variant_buffer` | `Init` and `InitBuffer`, `Alloc`, `Destroy`, `Discard` |
| `_spin_lock`, `_reserve`, `_write_nolock`, `_seal`, `_spin_unlock` | `Lock`, `Reserve`, `Write`, `Seal`, `Unlock` of a writer |
| `copy_to_user_variant_buffer`, `backup_diag_variant_buffer` | `DumpStart`, `DumpLock`, `Backup`, `DumpUnlock`, `DumpLength`, `DumpCopy` of a report |
| `extract_variant_buffer` | `Walk` |

`Backup` is one action because the spin lock is held throughout.  `DumpLength` and
`DumpCopy` are separate actions without a lock, as in the code.  The rounding of
`reserve` is the code's own (`(len + 8) & 7`, variant_buffer.c:159), which is less
than a word and not the rounded length; it is the reason why a record can be cut
at the end of a half, and a header can be all that is left of it.

Left out: a failing allocation (nothing changes), the early return for a half of
1 GB, a failing copy_to_user (the buffer is already emptied), bytes torn when one
report fills the product while another copies it (the two reports' records are
mixed by whole products instead).  `Alloc` runs with no writer in its critical
section, `Destroy` when nothing is in use, as activation and module exit ensure.

### MutexMonitor (`kernel/mutex.c`, JUMP_* of `internal.h`)

Tasks call `mutex_lock` and `mutex_unlock`; whether they reach the replacement is
decided at the call (`CallLock`, `CallUnlock`), and entering it, counting in
`diag_nr_running`, sleeping for the mutex, finding and inserting the descriptor,
storing the time, judging, clearing and leaving are steps of their own.  The
stretch up to the sleep, and the stretch after it, do not give up the CPU, which is
what `synchronize_sched` waits for: `gp` is the set of tasks a grace period is
still waiting for.  The controller's steps follow `activate_` and
`deactivate_mutex_monitor`, one patch at a time; `clean_data` is `CleanDetach`,
a grace period, `CleanFree`.  The controller is itself a task that takes
`text_mutex`, through the very hook it is installing.  `SetTest` and `SetAssign`
are the two halves of SET.  `owner`, `since` and `stamp` are history: who holds a
mutex, since when, and the time its own hook stored in the tree.

Nobody looks at what `radix_tree_insert` returns (mutex.c:261).  When the tree finds no
memory for a node the descriptor that was just allocated is used all the same, is in no
tree, and is never freed: `InsertLost` puts it into `stray`.  Such a hold is not timed,
as one for which the descriptor itself could not be allocated (`InsertFails`).

Left out: process chains and the exec and exit probes that feed them, DUMP (the
buffer is `VariantBuffer`) and TEST, kernels with preemption (there
`synchronize_sched` does not cover the hook, and `NoUseAfterFree` would not hold),
the instruction or two between leaving the count and returning to kernel text, for
which the code has its msleep.

### RwSem (`kernel/rw_sem.c`, `pub/kprobe.c`)

rw-sem times how long a semaphore is held for writing.  Its descriptors, their tree
and `clean_data` are those of mutex.c line for line, so `RwSem` extends
`MutexMonitor` and uses its `FindDesc`, `InsertDesc`, `InsertLost`, `InsertFails`,
`SeekDesc`, `Judge`, `ClearLockTime`, `CleanDetach`, `CleanFree` and `Deactivated`; `mine`
are the variables it adds.  What differs is where the code is hooked.  Three kprobes run at the
entry of `down_write`, `down_write_killable` and `up_write`:

| code | actions |
|---|---|
| `kprobe_down_write_pre`, `_killable_pre`, `hook_lock` | `CallDown`, `FindOrMake`, `ReadClock`, `StoreTime`, `ProbeReturns` |
| the kernel's semaphore | `Got`, `GiveUp` (a killed task), `TryDown`, `Downgrade`, `Up` |
| `kprobe_up_write_pre`, `hook_unlock` | `CallUp`, `SeekAndJudge`, `ClearTime`, `UpWrite` |
| `activate_rw_sem`, `hook_kprobe` | `RwActivate`, `HookKprobe` (which may fail unnoticed), `RwActivated` |
| `deactivate_rw_sem`, `unhook_kprobe`, `clean_data` | `RwDeactivate`, `UnhookKprobe`, `RwDetach`, `RwClean` |

Nobody counts himself in and nobody sleeps in a probe; `unregister_kprobe` waits for
the probes that run (`WaitsFor`, in `gp`) if the probe was registered.  `call`, `entry`
and `timer` are history: with which function a task takes the semaphore, the clock as
its probe read it, and whose time was stored last into the descriptor.

The time is taken when `down_write` is called.  So a task that waits for a semaphore
overwrites the time of the one that holds it, whose `up_write` then judges, and clears,
the time of the waiter: a hold that others wait for is judged by the wait of the last
of them, and the waiter's own hold by nobody.  A hold taken with
`down_write_trylock`, or ended with `downgrade_write`, is not seen at that end, and a
time that a killed waiter or a downgrade leaves in the descriptor is judged by the next
`up_write`.  `OwnCallsReported` is what is true: of a writer whose time was not
overwritten.  A time stored in a descriptor that the tree refused (rw_sem.c:166) is in no
tree, and the descriptor is leaked: `TimerKept` speaks of what is in the tree, and
`NothingLeft` excepts `stray`.  Left out: the exec and exit tracepoints of process chains (a
row of `MonitorLife`), DUMP, TEST, readers other than as what makes a writer wait, and
SET between the test and the assignment, which is mutex-monitor's.

### LoadTrend (`kernel/load.c`: 99-221, 422-490, 586-605)

The ring with the number of the sample in each slot; the sampling callback in
three steps (drop the oldest, store, advance), as readers on other CPUs see it; the
reader's start index, lock, rows; the duration timer's callback, which may be
delayed between being dequeued and cancelling the sampling; activation and
deactivation step by step, with the allocation that may fail at the end.
`hrtimer_cancel` waits for a running callback, `del_timer` does not,
`proc_remove` waits for readers inside the file.  A sample is taken every five
seconds, so at most `SamplesPerShow` are taken while one reader prints.

### LoadAlarm (`kernel/load.c`: 254-389 and the settings)

The clock is the kernel's update of the load, every five seconds; between two
updates every CPU runs `diag_load_timer`.  `Test`, `Mark` and `Note` are the code
on `load_flag` and `bad_time` (on every CPU, before any other test), `Gate` the
tests of the settings and of the loads, `Claim` the rate limit, `Emit` the record.
`Set`, `Activate`, `Deactivate` (thresholds and `last_dump` cleared) and
`Deactivated` follow one another, as requests of one operator do.  The other
thresholds (load.r, load.d, task.d) are one flag, `OtherAlarm`: they decide only
whether CPU 0 emits.  `LateTimers` says whether a timer may still be between its
tests while the thresholds are cleared: the grace period comes before, so nothing
in the code excludes it, but a timer that long is rare.  Left out: mass mode,
which switches the rate limit off, and the records of tasks and CPUs that follow
the first.

### MonitorLife (35 monitors: `kernel/`, `net/`, `mm/`, `fs/`, `pmu/`)

A row gives the kinds of handlers a monitor has (tracepoint, replaced function that
counts itself and may sleep, kprobe, per-CPU timer, timer of its own, hook that takes
out and frees, uprobe hooked by command, command),
whether and how they keep descriptors, which handlers insert and which take out, and the steps of its activation,
deactivation, exit function and DUMP in the order of the code.  The actions say what
a step does: `Hook`, `Unhook`, `Unprobe`, `Start`, `Stop`, `Sync`, `Msleep`, `Drain`,
`Detach`, `Free`, `Defer`, `Clean`, `Forget`, `Close`, `Destroy`.  A handler (`Enter`,
`Count`, `Sleep`, `Wake`, `FindDesc`, `Reap`, `Emit`, `Leave`) can be interrupted
between any two of its steps; it holds a grace period up while it has not slept or
left (`Atomic`).  `waits` gives each call_rcu its own grace period.  `FindDesc` may
insert in vain, as `radix_tree_insert` can fail wherever it is called and its result is
never looked at: the descriptor is then used outside of the tree (a "stray").

run_trace alone has requests besides DUMP that work on what its handlers record (START,
STOP, the thresholds of system calls, CLEAR_SYSCALL, UPROBE); they come by ioctl, system
call and through a file in /proc, whether the monitor is activated or not, so they are a
kind of handler of their own, "command", that is there until the exit function removes the
file (`Close`).  UPROBE hooks two uprobes at any time (`AskUprobe`), which a deactivation
and the exit take out.

`Msleep` orders nothing.  Only for `sched_delay`, `throttle_delay`, `ping_delay` and
`ping_delay6`, which have no grace period before their drain, is it taken to outlast
the handlers that were running (`Sleepers`); without that a probe that has been
entered and not yet counted is still there when the wait is over, and `QuietOnceOff`
fails for them.  `OneOperator` keeps SET away from a request under way: a SET that
tested `activated` before and assigns after clears the flag of an active monitor,
for nearly every monitor, as `mm_off` shows for one, and then the module exits with
hooks in place.

Four properties except the monitors of which they are not true (`FreesInUse`,
`ExitsBackwards`, `NeverExits`, `Leaks`):

| property | exception | why |
|---|---|---|
| `NoUseAfterFree` | alloc_top, rw_top, memory_leak, run_trace, utilization | DUMP (alloc_top, rw_top, memory_leak) frees what it took out of the tree with no grace period, while a handler uses it without a lock (memory_leak.c:313 against the allocation hook, which writes size and time after find_alloc_desc has given the lock back, 178-182); run_trace frees thresholds on CLEAR_SYSCALL and both trees in clean_data, while a system call's hook or a command uses what it looked up; utilization's deactivation leaves the per-CPU timer, which looks descriptors up whether it is activated or not |
| `BufferOutlivesHandlers` | ping_delay, ping_delay6 | the exit function destroys the buffer before it deactivates (ping_delay.c:2089) |
| `TextOutlivesHandlers` | throttle_delay | its exit function is empty and never called |
| `NothingLost` | mutex_monitor, rw_sem, run_trace, sched_delay, utilization | a task asleep in the hook inserts after clean_data (the first two); commands insert into run_trace's trees while it is off, and its exit empties them only if it is activated (run_trace.c:1469); the tree is initialised over what is in it |

A descriptor that an exiting task's hook frees (`mm_tree.c:313`) while another CPU
prints it is a use after free as well, in every monitor with process chains; the
model marks it "reaped" and `NoUseAfterFree` is about what requests free.  The
descriptors in a row stand for the monitor's own tree or for the process chains,
whichever it uses.  `NothingLost` is about what did get into a tree: a stray is lost in
every monitor that keeps descriptors.  `QuietOnceOff` leaves the per-CPU timers, the
commands and the uprobes hooked by command aside, which do not end with a deactivation.

Left out, or simplified: what a report itself does with a descriptor that a handler frees
meanwhile (memory_leak's and rss_monitor's do_dump read under rcu_read_lock what the hooks
on free and munmap kfree at once); two UPROBE commands at the same time; a command that
sleeps before it looks a descriptor up counts as not yet begun; run_trace's timer_started
is never reset, so that its timer need not be started again while `Start` always does;
tcp_retrans's red-black tree cannot refuse an entry, and is given the choice all the same;
pmu's activation attaches the cgroups there are, which its hooks do one by one here.

### RequestRows, Requests (the handlers of each monitor, `SOURCE/diagnose-tools/*.cc`)

Four rows for each monitor: its handlers in the kernel, its SET and SETTINGS in the
tool, its report, its log.  `Requests` lets several runs of the tool use them, by
ioctl and by system call: `Call`, `Down` (controller_sem, of system calls), `Handle`
(the monitor's own mutex), `SetTest`, `SetCopy`, `SetAssign`, `GetRead`, `GetShow`,
`Gather`, `Backup`, `CopyOut`, `Answer`; then the tool's `BackSet`, `Activate`,
`BackEnd`, `BackDump`, and `Wake` of a log that polls.  Every copy from or to the
tool may sleep, so each is a step.  A system call that is not hooked leaves the
tool's variables as they are.  `made`, `done`, `gone`, `crossed`, `asked` and `seen`
are history.

The exceptions, named sets in the module, are facts of the code:
`OneCopy` (SETTINGS and SET of the path go through one static structure),
`Unprepared` (the tool does not set ret before a system call that nobody may
answer), `Twice` (fs_shm decodes an ioctl's report twice), `OwnMutex` and `Roomy`, the
only ones whose DUMPs exclude one another and whose reports are never cut, and
`HalfMutex`: uprobe's ioctls take a mutex (uprobe.c:419), its system calls do not
(uprobe.c:361), so that one DUMP of each kind can overlap and show a record twice.  The
static copies of uprobe's settings are protected on both paths, by that mutex and by
controller_sem, so that uprobe needs no exception in `OneCopy`.  The rows are the
handlers of kernels that have the monitor (uprobe.c and tcp_connect.c have a second set
for old ones); memcg_stats and pmu answer system calls with -ENOSYS, which their tools
never use (`ways`).  Two further facts are visible and no
property is about them: high_order's DUMP by system call asks for 10 MB into an array
of one, and the tool prints "activated" also when the activation failed.

Left out: structures are copied at once, addresses given by the tool are good, a
record stands for a batch of at most half a buffer, a SETTINGS answered with
another length, the commands TEST, START, STOP, ISOLATE, DROP and SAMPLE.
net_bandwidth's and others' question whether the monitor is activated, before a
report, is part of `Start`.

### PacketHandlers, PacketPath (`net/ping_delay.c`, `ping_delay6.c`, `drop_packet.c`, `tcp_retrans.c`)

A row is one handler for one kernel version: what it does to the packet in order,
and what it does on failure.  `PacketPath` runs handlers on CPUs: a packet is the
handler's, or gone; `held` says whether a pointer to its header was taken and what
has moved the header since.  `Look`, `Add`, `Stamp` are `inspect_packet` and
`find_alloc_desc` on the radix tree (look-up without a lock, limit, allocation,
second look under the lock, and an insertion that may fail unnoticed), `Tally` the red-black tree of tcp_retrans; `move_to_list`,
`Report`, `Reclaim` are DUMP.  `late` counts the marks that come between the report
of an entry and the end of its grace period, which no report shows.

The result of `radix_tree_insert` is ignored here too (ping_delay.c:310,
ping_delay6.c:288, drop_packet.c:238), and `obj_in_tree` is incremented after it.  An
entry that the tree refused is marked once, by the packet that made it, is told by no
report and is never freed (`Unseen`); and it counts against the limit until the next DUMP
sets `obj_in_tree` to 0, so that after MAX_OBJ_COUNT failures the monitor makes no entries
although its table is empty.  `Tallied` names these marks, and `LimitKept` bounds the
counter from both sides.

The exceptions are sets of handlers, each of them needed (each handler in them has a
counterexample): `LooksTooLate` looks at a packet after it was handed on or freed,
`OldPointer` reads through a header pointer after the header may have moved, by what
moves it, `TakesAllForIp` does not ask for the protocol below the IP layer.

Not modelled: the delays and sums.  Read with the code: ping's entries are keyed by
echo id and sequence without addresses; drop_packet's key ignores the protocol;
arranged by peer, outgoing packets are keyed by the local end; the payload of a later
fragment is read as ports; ping_delay6 compares payload_len without converting its
byte order; tcp_retrans's report loses what is counted between atomic64_read and
atomic64_set (tcp_retrans.c:1230) and never resets diag_tcp_send_dupack.

### ModuleLife (`entry.c`, `chr_dev.c`, `kernel/kern_entry.c`, `net/net_entry.c`, `mm/mm_entry.c`, `fs/fs_entry.c`)

The order of all init calls, of the undo ladder of each subsystem, and of all exit
calls, as sequences; `Below` is what a `goto` to a label executes.  `InitPart`,
`InitFails`, `StartTimers`, `Register` load, `ExitPart`, `Unregister`, `CancelTimers`,
`Sync`, `Drain` take down.  Next to them: writes to the controller (`Activate`,
`Deactivate`, `Switch` with its test, tracepoint and flag as separate steps), system
calls (`Enter`, `Count`, `Handle`, `Uncount`, `Leave`), the device (`Open`, `Ioctl`,
`Close`), CPUs (`CpuUp`, `CpuDown`).  `alone` behaviours are those in which nobody
uses the controller or the device while the module is loaded or unloaded; what does
not hold otherwise says so.  `notifies` is false for kernels from 4.14 on, which have
no CPU notifier.

What the properties except: throttle_delay is never exited, rw_sem is not exited
when throttle_delay's init fails, a CPU that comes up between on_each_cpu and the
registration of the notifier (or at any time from 4.14 on) has no timer; when not
alone, a "syscall on" that races with rmmod leaves its probe in the kernel, and
a device opened while rmmod runs holds a module that goes.

## 4. What the runs check

| run | instance | shows |
|---|---|---|
| `vb_one_report` | 2 writers, 1 report, half of 13 units, 6 records | `HistoryKept`, `CutOnlyAtTheEnd`, `ReportIsOwnBackup`, `NoRepeat`, refinement of `RecordLog` |
| `mm_sessions` | 2 tasks and the controller, 3 descriptors, each allocated and inserted or not, 2 sessions, clock to 3 | `NoUseAfterFree`, `HolderIsTimed`, `OffMeansUnpatched`, `LongHoldsReported` |
| `rs_writers` | 2 writers, 2 semaphores, 2 descriptors, each allocated and inserted or not, 2 activations, each kprobe registered or not, clock to 2, thresholds 0 and 1 | `RwNoUseAfterFree`, `NothingLeft`, `TimerKept`, `OwnCallsReported` |
| `mm_off` | SET at any time | the functions stay patched: violation |
| `lt_ring` | 3 slots, 2 readers, 6 samples, 2 sessions, fair | `KeepsNewest`, `RowsInOrder`, `SamplingEnds` |
| `la_two_cpus` | 2 CPUs, another threshold set | `AlarmInTime`, `BadTimeIsLatestOnceArmed` |
| `ml_sessions` | 35 monitors, 2 flows, 2 sessions, fair | `NoUseAfterFree`, `BufferOutlivesHandlers`, `TextOutlivesHandlers`, `QuietOnceOff`, `NothingLost`, `RequestsEnd` |
| `rq_settings` | 35 monitors, SET and 2 SETTINGS, 2 values | `RunsAsAsked`, `GetsTheTruth` |
| `rq_reports` | 35 monitors, a report and a log, 2 records | `DecodesOnlyReports`, `EachRecordOnce` |
| `rq_log` | a log next to SETTINGS, fair | `LogsAll` |
| `pp_handlers` | every handler of 4 monitors on 2 CPUs, 3 flows, insertions that may fail, 1 DUMP | `ReadsOwnPacket`, `ReadsCurrentHeader`, `SeesOnlyIp`, `GivenOnce`, `Tallied`, `LimitKept` |
| `mo_load` | 37 inits that may fail, 1 caller, 1 user, 2 CPUs, fair | `UsesOnlyWhatIsUp`, `ExitsOnlyWhatIsUp`, `LeavesNothing`, `SamplesEveryCpu`, `UnloadEnds` |

The type invariants are theorems, and no run repeats them.  The violation run checks
a statement of a manual and is explained, with the lines and the quotation, under
"findings" in `PROJECT.json`.  `MonitorLife` and `Requests`
start from one representative of the monitors whose rows are equal in what the
instance can tell apart.

Further disagreements of code and manuals, found as counterexamples to stronger
forms of the properties above, and why the present form excludes them:

- Two DUMPs at once copy one product and deliver a record twice
  (variant_buffer.c:252); `NoRepeat` is checked for one report, `EachRecordOnce`
  speaks of `crossed` reports.
- unlock judges with whatever time the descriptor holds (mutex.c:287): a task whose
  own hold was not seen from its start is blamed for a stale one; `LongHoldsReported`
  and `HolderIsTimed` speak of holds that the hook has timed.
- The threshold in ns is an int (mutex.c:297): from 2148 ms on it overflows.
  `LongHoldsReported` is checked, and proved, for thresholds that fit.  rw_sem.c:202
  has the same product; `OwnCallsReported` is proved for thresholds that fit, too.
- A writer of a semaphore is judged by the time stored last, which may be a waiter's
  (rw_sem.c:226); `OwnCallsReported` speaks of times that were not overwritten.
- A failing allocation in an activation of load-monitor (load.c:430) does not stop
  the timers that were started; `AllocFails` is FALSE.
- `load_flag` is set by a threshold of 0 while the monitor is off (load.c:265), and
  the next session's first records show that time; `armed` excludes them.
- `RowsInOrder` excepts readers that open the file between its creation and the
  initialisation of the ring (load.c:589-590): they walk the ring of the session
  before, from its old front to the new rear, through old or empty slots.
- With `LateTimers`, a timer that has passed its tests when a deactivation clears
  `last_dump` (load.c:480) sets it again (load.c:325), and the next session prints
  nothing for ten seconds.
- An emission on CPU 0 while another CPU has set `load_flag` and not yet written
  `bad_time` (load.c:267-275) carries the time of the overload before.
- A reader reads `front` before it takes the lock (load.c:120): if the ring is full
  and a sample is stored in between, `rear` comes to stand where the reader starts,
  and it prints nothing.  A callback of the duration timer that was dequeued before
  `del_timer` (load.c:604) cancels the sampling of the session that is activated next.

### Bounds, and why they are enough

A half of 13 units with a header of 4, a word of 2 and payloads of 1, 4 and 1+3
holds two records, so six records fill both halves, exchange them, drop the older
one and let a report empty them at any point; one record is cut, and one is left
with its header only.  Two tasks, the controller and two mutexes (one of them
`text_mutex`) give every order of holders and waiters around patching and cleaning;
two sessions let anything left behind meet a new activation.  Three descriptors are one
for each mutex and one that is doomed, or that the tree refused, meanwhile; when none is
left the allocation fails, which is an action at any time.  In `RwSem` two writers meet at
one semaphore or use two; two descriptors are one in the tree for each semaphore, or one
in the tree and one that loses the race of two writers to insert, or that the tree
refused; delays of 0 and 1 lie on either side of the thresholds 0
and 1.  A ring of three slots is filled more than twice
by six samples.  Loads either side of one threshold, and a rate limit of two updates
(ten seconds of five), are all that the alarm's tests distinguish.

In `MonitorLife` handlers interact only through the count, the descriptor and the
grace periods: two flows put one before and one behind every step of a request, and
one descriptor is enough to be freed under a flow.  In `Requests` a handler races
with one other request at a time for each of its copies; two records let one be in
the product while the other is in the buffer.  In `PacketPath` the first call is any
handler, the calls after it are the monitor's simplest probe (`Plain`): what a second
handler does to its own packet does not touch the first, only the table is common.
A limit of one entry and three flows let two CPUs pass the check together.  In
`ModuleLife` two events (writes, opens, CPUs) fall anywhere into the loading and
unloading.

The bounds are in guards (`MaxRecords`, `MaxTime`, `MaxSessions`, `MaxSamples`,
`SamplesPerShow`, `MaxUpdates`, `MaxCalls`, `MaxDumps`, `MaxEvents`).
`CHECK_DEADLOCK FALSE` is set where behaviours end: the load trend when it is off and
its sessions are used up, a monitor and a module that are gone, packets when the
calls are used up.

### Fairness

`LoadTrend`: a pending timer fires and a callback that runs ends.  `MonitorLife`: a
handler is straight-line code and leaves, sleepers are woken, an activation,
deactivation or exit that was begun goes on; nobody has to call anything, and a
report need not go on.  A flow may sleep any number of times,
hence strong fairness of leaving.  `Requests`: tasks run, down() and mutex_lock serve
their waiters (strong fairness: the lock may be taken in between by others), and a
log's sleep of ten seconds ends.  `ModuleLife`: the process of insmod or rmmod, one
in a system call and one in a write go on.  Nothing else is assumed; deactivation
and the release of the device, in particular, are not.

## 5. What is proved

### VariantBuffer_proof

For all sets of writers and reports, all sizes and all payloads that the assumptions
of `VariantBuffer` allow: `TypeOK`, `HalvesTiled`, `OpenOnlyUnderLock`,
`ProductTiled`, `Fits`, `HistoryKept`, `CutOnlyAtTheEnd`, each as `Spec => []P`, and
that the buffer implements `RecordLog`; for one report at a time (the hypothesis
`OneReport`: there is at most one dumper) also `ReportIsOwnBackup` and `NoRepeat`,
which two overlapping reports violate.  The assumptions are
that a half holds more than a header and a word, that payload lengths are natural
numbers, that the write calls of a record add up to at most what it reserved and
some record is the longest (`CallersAssumption`), and that the holder of a free lock
is nobody's name.  They hold for every caller: buffers are 5 to 50 MB, each monitor
reserves the size of the structures it writes, of which there are finitely many,
and run_trace.c:345-351, the record of two calls, reserves the sum.

None of these is inductive alone.  That a length stored by `seal` is not negative
needs the open header below `pos`; that a report finds no open record needs that one
exists only while its writer holds the spin lock, and that needs the correspondence
of the lock with the writers' places; that `reserve` finds its half in order needs
all halves tiled.  The inductive invariant `LInv` is the conjunction:

- `TypeOK`;
- `HalfOK` of each half: typed, tiled, the open header (if any) last;
- `OpenInv`: a half has no open record, or is the active half of an allocated buffer
  whose writer is between reserve and seal; and that writer does have one;
- `LockInv`: a writer is in its critical section exactly when it holds `spin`;
- `SizeInv`: sizes and positions when allocated, empty halves when not;
- `ProductTiled` and `HistoryKept`.

The proof has a lemma for what each operation does to one half (`ReserveHereOK`,
`ReserveAnewOK`, `WriteOK`, `ClosedOK`, `CollectOK`), a lemma per action
(`ReserveStep`, `WriteStep`, ...), and `LInvInit`, `LInvStep`, `Inductive` put them
together.

What records the buffer holds, on top of `LInv`:

- the refinement needs the numbers: `IdInv`, sealed records bear numbers up to `seq`,
  an open one the next.  Under the mapping (`Ids(Pending)`, the sealed records of the
  older half, then of the active one) a step either leaves the sealed records alone,
  adds a header, seals the last record, reuses the other half (the window loses a
  prefix) or empties both into the product (`StepIds`); each is a step of `RecordLog`
  or a stutter (`RefinesRecordLog`);
- `ReportIsOwnBackup` rests on `RepInv`: from its backup until it has walked, the
  single report finds in the product what it took, and the headers there lie apart;
- `NoRepeat` rests on `FreshInv`: the numbers held by the halves, by an undelivered
  product and by what is delivered are apart, and none exceeds `seq`;
- `CutOnlyAtTheEnd` rests on `CutInv`: what a writer still has to write adds up to at
  most what is left of its reservation, so that a record that does not fit had a
  longest record run over the end of its half.

### MutexMonitor_proof

For any finite set of tasks, any mutexes, descriptors and thresholds: `TypeOK`,
`NoUseAfterFree`, `HolderIsTimed` and, if no threshold in ns exceeds an int,
`LongHoldsReported`.  That `running` never falls below 0 needs that it is the number
of tasks at the places that count (`Counting`), by the cardinality theorems.
`MemInv` is the argument for the memory: doomed descriptors exist only while the
clean-up's grace period lasts, the tree gives each descriptor to one mutex, and a
descriptor a hook works with is in the tree under the hook's mutex, or a stray, or
doomed while the grace period still waits for that very task.  `HoldInv` adds that a task between
lock and unlock owns its mutex and that the time its hook stored in the tree is still
there: another task can write there only after it has acquired the mutex.  With
`OneOperator`, that no SET is under way next to another request, `OffMeansUnpatched`
follows from what is patched at each step of the controller (`PatchInv`): the race that
`mm_off` shows is all there is.

The same module has the proofs about `RwSem`, for any writers, semaphores, descriptors
and thresholds, and whichever kprobes fail to register: `RwTypeOK`,
`RwNoUseAfterFree`, `NothingLeft`, `TimerKept` and, under the same condition on the
thresholds, `OwnCallsReported`.  `RunInv` takes the place of the count: whoever is in a
probe is in one that is registered, or `unregister_kprobe` is waiting for it, and the
probes go one after the other, so that nobody is inside once the last has returned
(`NobodyLeft`).  Nothing is in the tree then but what `clean_data` takes out, and what
it frees nobody has (`RwMemInv`), but for the strays, which nobody looks for; no descriptor needs the grace period that
`synchronize_sched` gives.  `TimesInv` is the argument for the times: a descriptor not in
use carries none, the one in use carries what was stored last, and this is the writer's
own as long as nobody else has stored.

### LoadTrend_proof

For any capacity, readers and timing: `TypeOK`; if no allocation fails,
`KeepsNewest`; and `RowsInOrder` if, besides, at most two samples begin while a reader
is inside the file (`SamplesPerShow`).  With three a reader can be overtaken and skips
a row.  Readers that opened the file before the ring was initialised are
excepted in the property.  `StoppedInv`: nothing samples between a deactivation and the next arming.
`RingInv`: the filled part is the last samples, with room for the one being added,
by the arithmetic of indices modulo the capacity.  `WindowInv`: a sample that was
dropped stays in its slot until the next one is stored there, so a reader that is not
further behind than the slots between rear and front still reads what it should.
`FileInv` says that the file has readers only while it exists, and which of them came
before the ring was initialised, and `RowInv`
that a reader's rows are in a row up to its index, and how far the timer has gone on
since (`Going`).

### LoadAlarm_proof

For any CPUs, loads, thresholds and period: `TypeOK`, `BadTimeIsLatestOnceArmed`,
and, if no timer is overtaken by a deactivation (`~LateTimers`), `AlarmInTime` and
`NotTooOften` (two records of an activation are a period apart).  `FlagInv` says what
the shared flag tells about the timers that have looked since the load changed,
`DumpInv` that only CPU 0 of an active monitor is past the rate limit and that
`last_dump` is the time of the last record of this activation or 0.

### MonitorLife_proof

For all 35 rows, both styles, any finite number of flows, any descriptors and any
number of activations: `TypeOK`, which includes that `diag_nr_running` is never
negative, and, under the two conditions that the run has too, all other invariants of
the run: `QuietOnceOff`, `TextOutlivesHandlers`, `BufferOutlivesHandlers`,
`NoUseAfterFree`, `NothingLost`.  The conditions are that msleep outlasts the handlers
of the four monitors that have no grace period (`Hurried`), and `OneOperator`; with a
SET that overtakes a deactivation the properties are false.

What the proof uses of a row are three lemmas with a case per monitor: `RowOK`, its
deactivation unhooks, then waits, then drains, as far as its kinds of handlers need it
(`Ends`), before anything that is only safe when nobody is left (`Disposals`), and
frees what it detaches, after a wait (`FreedLate`); `RowWary`, a monitor that keeps
descriptors frees none where it does not wait; `RowSweeps`, one that leaks nothing
empties its tree in each deactivation or at the exit.

`QuietOnceOff` itself says nothing of a deactivation under way, so the
inductive invariant `LifeInv` says what is left of it: for every kind still hooked the
remaining steps unhook it and outwait it (`HookInv`), and for every handler that
still runs they hold a wait, or the controller is in that wait for this very handler,
or a drain that counts it (`FlowInv`), up to each disposal and to the end.  A handler
that was entered and has not counted itself needs both, the wait before the drain: this
is where the order matters.  `Rest` says what is left of a sequence of steps when the
first is done, `CountInv` that the count is the number of the handlers that have
counted themselves, `TimerInv` that handlers of the per-CPU timers end at the exit.
`AskInv` does the same for commands and for the uprobes they hook, which only the exit
has steps against: each of them can still be called, or still runs, only while the step
that ends it, or the controller's wait for this very handler, is to come.
`TextOutlivesHandlers` follows as well.

`DataLifeInv` rests on it: what is on the list of a request is still to be
freed by that request (`ListInv`), the buffer is destroyed when nobody is left
(`BufferInv`), a descriptor in use is not freed, and if it is out of the tree whoever
frees it waits for the handler that uses it: an RCU callback has it in `waits`, a
request's list has a wait before its free (`GuardInv`), and the tree that is not
empty will be emptied before the end, after the last handler that could insert
(`SweepInv`).

### Requests_proof

For all 35 rows, any number of runs of the tool, any settings, and any records:
`TypeOK`, `RunsAsAsked`, `GetsTheTruth`, `DecodesOnlyReports` and `EachRecordOnce`, with
the exceptions that the properties name, and with no assumption but that of the module
on its constants.
What the proof uses of the rows is `Fine`, a lemma with a case per monitor
(`RowsAreFine`): the tool prepares its return value, and a static copy of the settings
is either used by system calls, or by ioctls under a mutex of which both SET and
SETTINGS are users.  `LockInv` says who holds the semaphore and the mutex, `Alone`
concludes that nobody else is between filling a shared copy and using it, `SeenInv`
that a request's copy is what it was given or what it saw, and `SettingInv` that a
SET whose answer the tool has not yet acted on is the last one.

For the records the rows have a second lemma with a case per monitor, `RowsReport`: what
the tool puts into ret before it asks, which
kinds are decoded once, which monitors dump and log under a mutex of their own, on which
paths, and
which tools ask for all that two halves of the buffer hold.  `AnswerInv` and
`DumpInv` follow a request from the backup to the tool, `StoreInv` says that a record is
in the buffer, in the backup, with one tool, or done, and in one of them only (`Held`,
`Apart`, `Mine`), `CrossInv` that two DUMPs are on the backup together only when one
comes by ioctl and the monitor has no mutex of its own, or one that only ioctls take and
the other comes by system call, `RoomInv` that nothing is cut
off where there is room for all, and `OnceInv` counts.  `Places`, the number that the
property is about, is taken apart into its five parts by the lemmas on cardinality.

### PacketPath_proof

For any handlers, CPUs, flows and limit: `LimitKept`, and `TableInv`, that the table is
sound.  The assumptions are that CPUs and flows are finite, that handlers consist of
steps, and that none whose table has a limit counts under the table's lock (only
tcp_retrans does, which has no limit).  The inductive invariant counts the CPUs that
passed the test of the limit and have not yet added their entry as if they had
(`LimitInv`), entries that the tree refused included; `TableInv` gives a new entry to one CPU alone, so that the loser of the
second look frees nobody else's.

`Tallied`, no mark is lost but those on entries that the tree refused, compares a sum with a number of events.  The model states
the sum as the size of a set: `Marks` are the pairs of an entry that is `Due`, in the
table or on the list of a report, and a number up to its count; which makes it a matter
of cardinality and not of induction over a fold.  By `TableInv` these are the pairs of
`ToTell`, a function of `info` alone, and `TallyInv` says that an entry somebody has made
and not yet inserted has a count of 0.  A step adds one pair (`OneMoreMark`), or none
(`SameMarks`), or takes those of one entry away while `told` grows by as many
(`MarksTold`).

For the handlers of the four monitors as `PacketHandlers` has them (`Tables =
Handlers`; in the run only CPUs and flows are few): `ReadsOwnPacket`,
`ReadsCurrentHeader`, `SeesOnlyIp` and `GivenOnce`.  `RowOK` is what the steps of a row
must have of order, on success and on failure: after the packet is given away nothing
is asked of it, between a step that may move the header and a read a pointer is taken
anew, each path gives the packet away, the failure path does not read
through a pointer from before; the named exceptions are in it as they are in the
properties.  `HandlersOK` proves it row by row.  `Follows` is the same of a
handler that is under way, for the steps that it still has before it and for what has
become of its packet, and `PathInv`, that every CPU's handler follows its row, is
inductive.

### ModuleLife_proof

For any monitors, failing parts, processes and CPUs, and with no bound on events:
`TypeOK`, `ExitsOnlyWhatIsUp`, `UsesOnlyWhatIsUp`, `LeavesNothing` and
`SamplesEveryCpu`.  `PartsAssumption` says that monitors are parts other than the
controller, the device, the timers and the notifier, and that setting up the timers
does not fail.

The sequences of calls are data of the code, and long; the proof turns them into sets
with an order.  `Tidy` is a list without repetition that keeps an order; `TailTidy`,
`Concat` and `Flattened` say what becomes of such lists when the first element goes,
when two are joined, and when up to twelve are.  `KernelIs`, `NetIs`, `MmIs`,
`FsIs`, `TimingIs` and `SingleIs` compare the inits, undos and exits of each subsystem:
they name the same parts, but for throttle_delay and rw_sem.  From these follow `LoadsIs`
(insmod initialises every part, in the order of `Rank`), `UndoesIs` (when part p
fails the ladder exits the parts before p, and the timers before what they look into),
and `UnloadsIs` (rmmod calls the exits of all parts but throttle_delay, in the order
of `Stage`).

`LadderInv` then says, without sequences, that what is up is what has been called, or
what is left to be called.  `TimerInv`: timers are armed, and the notifier is
registered, only while their exits are to come, so that what a timer looks into is up.
`SampleInv`: a CPU that comes or goes while it is heard of keeps its timer.
`QuietInv`: if the controller and the device are left alone, each call of rmmod leaves
its part behind (`Behind`): no probe, then nobody on the way in, then nobody counted,
then nobody on the way out.  `ActiveInv`: a monitor activated while rmmod runs, which is
possible as long as the controller's exit is to come, has its own exit to come too.

### Model-checked only

All liveness, `RequestsEnd`, `LogsAll`, `SamplingEnds` and `UnloadEnds`: temporal
reasoning under fairness needs ENABLED, which is out of the prover's reach.  How many samples fall into one print is an
assumption of `RowsInOrder`'s theorem, not a result.

## 6. What the models show about the code

The layout of the record buffer is sound for any sequence of records and any
interleaving, and reports lose nothing but the oldest records as long as one report
runs at a time; two at once repeat records and lose others.  mutex-monitor's memory
management, drain and times are sound on kernels without preemption for holds it saw
from the start.  rw-sem leaves nothing behind, and reports a writer by its own time only
where nobody waited.  The load trend keeps the right samples, but its file can be empty or
show old slots at the wrong moment.  The load alarm keeps its rate and its promptness
over sessions unless a timer overlaps the clearing of the settings.

Of the 35 monitors, most unhook, wait and free in an order that is safe; the
exceptions are the ones tabulated above.  All of them share one weakness: SET is not
under the semaphore that activation is under.  Loading and unloading the module is
safe at every point of failure but one, as long as nobody uses its files meanwhile;
throttle_delay, which the exit leaves out, is the exception in unloading.  Where a radix
tree has no memory for a node nobody notices: what was to be inserted is leaked, with the
time, the packet or the limit's unit it stands for, but nothing in use is freed by it.
The network monitors hand every packet on exactly once, but a good third of their
handlers look at a packet, or through a header pointer, that may no longer be theirs.

## 7. Not modelled

What the monitors measure, apart from mutex-monitor, rw-sem and load-monitor: the next step
of the plan.  Text formatting, symbols, stacks, ELF and JSON: sequential look-ups in
data.  The memory pool and the text buffer: lists under one lock.  Waiting cycles with
locks outside of the module (mutex.c:484, load.c:385), sleeping in atomic context
(run_trace.c:342) and a user buffer unmapped during copy_to_user (variant_buffer.c:256)
are hazards that these models have no state for.  Vendored scripts, the eBPF variant
and the Android port are no part of the implementation.
