--------------------------- MODULE Requests_proof ---------------------------
(***************************************************************************)
(* Proofs about Requests, for all monitors, and for any number of runs of  *)
(* the tool and any settings: an active monitor has the settings it was    *)
(* asked to have, SETTINGS shows the truth, the tool decodes only what the *)
(* present request brought, and each record is in one place.               *)
(***************************************************************************)
EXTENDS Requests, FiniteSetTheorems, TLAPS

-----------------------------------------------------------------------------
(* What the rows have in common.                                           *)

\* A copy of the settings that requests share is protected: system calls by the
\* semaphore, ioctls by a mutex that both SET and SETTINGS hold.
Guarded(k) ==
  \A p \in k.shared :
    p = "ioctl" => p \in k.locked /\ "get" \in k.locks /\ ("set" \in k.locks \/ k.late)

\* The monitors whose SETTINGS, and those whose SET, can be relied on.
TrueGet(m) == m \notin OneCopy \cup (Unprepared \ {"exec_monitor"})
TrueSet(m) == m \notin OneCopy \cup Unprepared

\* What their rows have to say for it.
Fine(m) ==
  /\ Rows[m].k.shared \subseteq Paths /\ Rows[m].s.ways \subseteq Paths
  /\ TrueGet(m) => Guarded(Rows[m].k) /\ Rows[m].s.get = "nosys"
  /\ TrueSet(m) => TrueGet(m) /\ Rows[m].s.set = "nosys"

\* Each row, from its definitions.
LEMMA RowsAreFine == \A m \in DOMAIN Rows : Fine(m)
<1> USE DEF Rows, Fine, TrueGet, TrueSet, Guarded, OneCopy, Unprepared, Handler, Asks, Paths
<1>1. Fine("mutex_monitor")
  BY DEF mutex_monitor_kernel, mutex_monitor_set
<1>2. Fine("rw_sem")
  BY DEF rw_sem_kernel, rw_sem_set
<1>3. Fine("sys_delay")
  BY DEF sys_delay_kernel, sys_delay_set
<1>4. Fine("sched_delay")
  BY DEF sched_delay_kernel, sched_delay_set
<1>5. Fine("irq_delay")
  BY DEF irq_delay_kernel, irq_delay_set
<1>6. Fine("irq_stats")
  BY ZenonT(30) DEF irq_stats_kernel, irq_stats_set
<1>7. Fine("irq_trace")
  BY DEF irq_trace_kernel, irq_trace_set
<1>8. Fine("sys_cost")
  BY DEF sys_cost_kernel, sys_cost_set
<1>9. Fine("sig_info")
  BY ZenonT(30) DEF sig_info_kernel, sig_info_set
<1>10. Fine("throttle_delay")
  BY DEF throttle_delay_kernel, throttle_delay_set
<1>11. Fine("run_trace")
  BY ZenonT(30) DEF run_trace_kernel, run_trace_set
<1>12. Fine("exec_monitor")
  BY DEF exec_monitor_kernel, exec_monitor_set
<1>13. Fine("exit_monitor")
  BY DEF exit_monitor_kernel, exit_monitor_set
<1>14. Fine("utilization")
  BY ZenonT(30) DEF utilization_kernel, utilization_set
<1>15. Fine("perf")
  BY DEF perf_kernel, perf_set
<1>16. Fine("kprobe")
  BY DEF kprobe_kernel, kprobe_set
<1>17. Fine("uprobe")
  <2>1. /\ uprobe_kernel.shared = Paths /\ uprobe_kernel.locked = {"ioctl"} /\ uprobe_kernel.late
        /\ uprobe_kernel.locks = {"get", "dump", "log"}
    BY DEF uprobe_kernel
  <2>2. Guarded(uprobe_kernel)
    BY <2>1
  <2>3. Rows["uprobe"].k = uprobe_kernel /\ Rows["uprobe"].s = uprobe_set
    OBVIOUS
  <2> HIDE DEF Rows, Guarded
  <2> QED BY <2>1, <2>2, <2>3 DEF uprobe_set
<1>18. Fine("task_monitor")
  BY DEF task_monitor_kernel, task_monitor_set
<1>19. Fine("load_monitor")
  BY DEF load_monitor_kernel, load_monitor_set
<1>20. Fine("ping_delay")
  BY DEF ping_delay_kernel, ping_delay_set
<1>21. Fine("ping_delay6")
  BY DEF ping_delay6_kernel, ping_delay6_set
<1>22. Fine("drop_packet")
  BY ZenonT(30) DEF drop_packet_kernel, drop_packet_set
<1>23. Fine("net_bandwidth")
  BY DEF net_bandwidth_kernel, net_bandwidth_set
<1>24. Fine("tcp_retrans")
  BY DEF tcp_retrans_kernel, tcp_retrans_set
<1>25. Fine("tcp_connect")
  BY DEF tcp_connect_kernel, tcp_connect_set
<1>26. Fine("alloc_top")
  BY DEF alloc_top_kernel, alloc_top_set
<1>27. Fine("high_order")
  BY DEF high_order_kernel, high_order_set
<1>28. Fine("mm_leak")
  BY ZenonT(30) DEF mm_leak_kernel, mm_leak_set
<1>29. Fine("rss_monitor")
  BY ZenonT(30) DEF rss_monitor_kernel, rss_monitor_set
<1>30. Fine("memcg_stats")
  BY ZenonT(30) DEF memcg_stats_kernel, memcg_stats_set
<1>31. Fine("rw_top")
  BY ZenonT(30) DEF rw_top_kernel, rw_top_set
<1>32. Fine("fs_cache")
  BY ZenonT(30) DEF fs_cache_kernel, fs_cache_set
<1>33. Fine("fs_orphan")
  BY DEF fs_orphan_kernel, fs_orphan_set
<1>34. Fine("fs_shm")
  BY DEF fs_shm_kernel, fs_shm_set
<1>35. Fine("pmu")
  BY DEF pmu_kernel, pmu_set
<1>36. DOMAIN Rows = {
      "mutex_monitor", "rw_sem", "sys_delay", "sched_delay", "irq_delay",
      "irq_stats", "irq_trace", "sys_cost", "sig_info", "throttle_delay",
      "run_trace", "exec_monitor", "exit_monitor", "utilization", "perf", "kprobe",
      "uprobe", "task_monitor", "load_monitor", "ping_delay", "ping_delay6",
      "drop_packet", "net_bandwidth", "tcp_retrans", "tcp_connect", "alloc_top",
      "high_order", "mm_leak", "rss_monitor", "memcg_stats", "rw_top", "fs_cache",
      "fs_orphan", "fs_shm", "pmu"}
  OBVIOUS
<1> HIDE DEF Rows, Fine
<1> QED BY <1>1, <1>2, <1>3, <1>4, <1>5, <1>6, <1>7, <1>8, <1>9, <1>10, <1>11, <1>12,
           <1>13, <1>14, <1>15, <1>16, <1>17, <1>18, <1>19, <1>20, <1>21, <1>22,
           <1>23, <1>24, <1>25, <1>26, <1>27, <1>28, <1>29, <1>30, <1>31, <1>32,
           <1>33, <1>34, <1>35, <1>36

\* The row of the monitor in use.
LEMMA RowIsFine == ASSUME mon \in Monitors PROVE Fine(mon)
BY RowsAreFine, RequestsAssumption

-----------------------------------------------------------------------------
(* What the rows say of reports.                                           *)

\* The monitors that decode only what a request has brought.
TrueDump(m) == m # "fs_orphan"

\* What a program may set ret to before it asks.
Prepared == {"ok", "one", "nosys", "any"}

\* The tool asks for as much as two halves hold, and shows every kind.
Room(k, text, form) ==
  /\ text.kinds \subseteq form.kinds
  /\ \A p \in Paths : form.room[p] \in Nat /\ 2 * k.half <= form.room[p]

\* What the tool prepares; which reports are decoded once, answered under a mutex, and
\* never cut.
Reports(m) ==
  LET r == Rows[m] IN
  /\ r.s.set \in Prepared /\ r.s.get \in Prepared
  /\ r.text.ret \in Prepared /\ r.log.ret \in Prepared
  /\ TrueDump(m) =>
       /\ r.text.ret \in {"nosys", "one"}
       /\ r.text.again => r.text.ret = "nosys"
  /\ m \notin Twice => r.text.twice = {} /\ r.log.twice = {}
  /\ m \in OwnMutex \cup HalfMutex =>
       "dump" \in r.k.locks /\ "log" \in r.k.locks /\ "ioctl" \in r.k.locked
  /\ m \in OwnMutex => "syscall" \in r.k.locked
  /\ m \in Roomy =>
       /\ r.k.half \in Nat /\ r.k.extra = {} /\ Room(r.k, r.text, r.text)
       /\ r.log.kinds # {} => Room(r.k, r.text, r.log)

\* A program that declares ret as "not answered", field by field.
LEMMA ReportIs ==
  \A kinds, i, s :
    Report(kinds, i, s) = [kinds |-> kinds, room |-> [ioctl |-> i, syscall |-> s],
      ret |-> "nosys", len |-> FALSE, again |-> FALSE, probes |-> FALSE, twice |-> {}]
BY DEF Report

\* A log command, field by field.
LEMMA LogIs ==
  \A kinds, i, s :
    Log(kinds, i, s) = [kinds |-> kinds, room |-> [ioctl |-> i, syscall |-> s],
      ret |-> "one", len |-> TRUE, again |-> TRUE, probes |-> FALSE, twice |-> {}]
<1> TAKE kinds, i, s
<1> DEFINE p == Report(kinds, i, s)
           a == Log(kinds, i, s)
           b == [kinds |-> kinds, room |-> [ioctl |-> i, syscall |-> s], ret |-> "one",
                 len |-> TRUE, again |-> TRUE, probes |-> FALSE, twice |-> {}]
<1>1. p = [kinds |-> kinds, room |-> [ioctl |-> i, syscall |-> s],
           ret |-> "nosys", len |-> FALSE, again |-> FALSE, probes |-> FALSE, twice |-> {}]
  BY ReportIs
<1>2. a = [p EXCEPT !.ret = "one", !.len = TRUE, !.again = TRUE]
  BY DEF Log
<1>3. DOMAIN a = DOMAIN b
  BY DEF Log, Report
<1>4. a = [x \in DOMAIN a |-> a[x]]
  BY <1>2
<1>5. b = [x \in DOMAIN b |-> b[x]]
  OBVIOUS
<1> HIDE DEF p, a
<1>6. \A x \in DOMAIN b : a[x] = b[x]
  <2>1. a.kinds = b.kinds
    BY <1>1, <1>2
  <2>2. a.room = b.room
    BY <1>1, <1>2
  <2>3. a.ret = b.ret
    BY <1>1, <1>2
  <2>4. a.len = b.len
    BY <1>1, <1>2
  <2>5. a.again = b.again
    BY <1>1, <1>2
  <2>6. a.probes = b.probes
    BY <1>1, <1>2
  <2>7. a.twice = b.twice
    BY <1>1, <1>2
  <2>8. DOMAIN b = {"kinds", "room", "ret", "len", "again", "probes", "twice"}
    OBVIOUS
  <2> QED BY <2>1, <2>2, <2>3, <2>4, <2>5, <2>6, <2>7, <2>8
<1> QED BY <1>3, <1>4, <1>5, <1>6 DEF a

\* Each row, from the two definitions it is made of in the kernel and in the tool.
LEMMA RowsReport == \A m \in DOMAIN Rows : Reports(m)
<1>1. Reports("mutex_monitor")
  <2>1. LET r == Rows["mutex_monitor"] IN
         /\ r.k = mutex_monitor_kernel /\ r.s = mutex_monitor_set
         /\ r.text = mutex_monitor_text /\ r.log = mutex_monitor_log
    BY DEF Rows
  <2>2. mutex_monitor_set.set = "nosys" /\ mutex_monitor_set.get = "nosys"
    BY DEF mutex_monitor_set, Asks
  <2>3. mutex_monitor_text.ret = "nosys"
    BY ReportIs DEF mutex_monitor_text
  <2>4. mutex_monitor_text.again = FALSE
    BY ReportIs DEF mutex_monitor_text
  <2>5. mutex_monitor_text.twice = {}
    BY ReportIs DEF mutex_monitor_text
  <2>6. mutex_monitor_log.ret = "one"
    BY LogIs DEF mutex_monitor_log
  <2>7. mutex_monitor_log.twice = {}
    BY LogIs DEF mutex_monitor_log
  <2> QED BY <2>1, <2>2, <2>3, <2>4, <2>5, <2>6, <2>7
         DEF Reports, Prepared, TrueDump, OwnMutex, HalfMutex, Roomy
<1>2. Reports("rw_sem")
  <2>1. LET r == Rows["rw_sem"] IN
         /\ r.k = rw_sem_kernel /\ r.s = rw_sem_set
         /\ r.text = rw_sem_text /\ r.log = rw_sem_log
    BY DEF Rows
  <2>2. rw_sem_set.set = "nosys" /\ rw_sem_set.get = "nosys"
    BY DEF rw_sem_set, Asks
  <2>3. rw_sem_text.ret = "nosys"
    BY ReportIs DEF rw_sem_text
  <2>4. rw_sem_text.again = FALSE
    BY ReportIs DEF rw_sem_text
  <2>5. rw_sem_text.twice = {}
    BY ReportIs DEF rw_sem_text
  <2>6. rw_sem_log.ret = "one"
    BY LogIs DEF rw_sem_log
  <2>7. rw_sem_log.twice = {}
    BY LogIs DEF rw_sem_log
  <2> QED BY <2>1, <2>2, <2>3, <2>4, <2>5, <2>6, <2>7
         DEF Reports, Prepared, TrueDump, OwnMutex, HalfMutex, Roomy
<1>3. Reports("sys_delay")
  <2>1. LET r == Rows["sys_delay"] IN
         /\ r.k = sys_delay_kernel /\ r.s = sys_delay_set
         /\ r.text = sys_delay_text /\ r.log = sys_delay_log
    BY DEF Rows
  <2>2. sys_delay_set.set = "nosys" /\ sys_delay_set.get = "nosys"
    BY DEF sys_delay_set, Asks
  <2>3. sys_delay_text.ret = "nosys"
    BY ReportIs DEF sys_delay_text
  <2>4. sys_delay_text.again = FALSE
    BY ReportIs DEF sys_delay_text
  <2>5. sys_delay_text.twice = {}
    BY ReportIs DEF sys_delay_text
  <2>6. sys_delay_log.ret = "nosys"
    BY LogIs DEF sys_delay_log
  <2>7. sys_delay_log.twice = {}
    BY LogIs DEF sys_delay_log
  <2> QED BY <2>1, <2>2, <2>3, <2>4, <2>5, <2>6, <2>7
         DEF Reports, Prepared, TrueDump, OwnMutex, HalfMutex, Roomy
<1>4. Reports("sched_delay")
  <2>1. LET r == Rows["sched_delay"] IN
         /\ r.k = sched_delay_kernel /\ r.s = sched_delay_set
         /\ r.text = sched_delay_text /\ r.log = sched_delay_log
    BY DEF Rows
  <2>2. sched_delay_set.set = "nosys" /\ sched_delay_set.get = "nosys"
    BY DEF sched_delay_set, Asks
  <2>3. sched_delay_text.ret = "nosys"
    BY ReportIs DEF sched_delay_text
  <2>4. sched_delay_text.again = FALSE
    BY ReportIs DEF sched_delay_text
  <2>5. sched_delay_text.twice = {}
    BY ReportIs DEF sched_delay_text
  <2>6. sched_delay_log.ret = "nosys"
    BY LogIs DEF sched_delay_log
  <2>7. sched_delay_log.twice = {}
    BY LogIs DEF sched_delay_log
  <2> QED BY <2>1, <2>2, <2>3, <2>4, <2>5, <2>6, <2>7
         DEF Reports, Prepared, TrueDump, OwnMutex, HalfMutex, Roomy
<1>5. Reports("irq_delay")
  <2>1. LET r == Rows["irq_delay"] IN
         /\ r.k = irq_delay_kernel /\ r.s = irq_delay_set
         /\ r.text = irq_delay_text /\ r.log = irq_delay_log
    BY DEF Rows
  <2>2. irq_delay_set.set = "nosys" /\ irq_delay_set.get = "nosys"
    BY DEF irq_delay_set, Asks
  <2>3. irq_delay_text.ret = "nosys"
    BY ReportIs DEF irq_delay_text
  <2>4. irq_delay_text.again = FALSE
    BY ReportIs DEF irq_delay_text
  <2>5. irq_delay_text.twice = {}
    BY ReportIs DEF irq_delay_text
  <2>6. irq_delay_log.ret = "nosys"
    BY LogIs DEF irq_delay_log
  <2>7. irq_delay_log.twice = {}
    BY LogIs DEF irq_delay_log
  <2> QED BY <2>1, <2>2, <2>3, <2>4, <2>5, <2>6, <2>7
         DEF Reports, Prepared, TrueDump, OwnMutex, HalfMutex, Roomy
<1>6. Reports("irq_stats")
  <2>1. LET r == Rows["irq_stats"] IN
         /\ r.k = irq_stats_kernel /\ r.s = irq_stats_set
         /\ r.text = irq_stats_text /\ r.log = irq_stats_log
    BY DEF Rows
  <2>2. irq_stats_set.set = "nosys" /\ irq_stats_set.get = "nosys"
    BY DEF irq_stats_set, Asks
  <2>3. irq_stats_text.ret = "nosys"
    BY ReportIs DEF irq_stats_text
  <2>4. irq_stats_text.again = FALSE
    BY ReportIs DEF irq_stats_text
  <2>5. irq_stats_text.twice = {}
    BY ReportIs DEF irq_stats_text
  <2>6. irq_stats_log.ret = "one"
    BY LogIs DEF irq_stats_log
  <2>7. irq_stats_log.twice = {}
    BY LogIs DEF irq_stats_log
  <2>8. "dump" \in irq_stats_kernel.locks /\ "log" \in irq_stats_kernel.locks
        /\ "ioctl" \in irq_stats_kernel.locked /\ "syscall" \in irq_stats_kernel.locked
    BY DEF irq_stats_kernel, Handler, Paths
  <2> QED BY <2>1, <2>2, <2>3, <2>4, <2>5, <2>6, <2>7, <2>8
         DEF Reports, Prepared, TrueDump, OwnMutex, HalfMutex, Roomy
<1>7. Reports("irq_trace")
  <2>1. LET r == Rows["irq_trace"] IN
         /\ r.k = irq_trace_kernel /\ r.s = irq_trace_set
         /\ r.text = irq_trace_text /\ r.log = irq_trace_log
    BY DEF Rows
  <2>2. irq_trace_set.set = "nosys" /\ irq_trace_set.get = "nosys"
    BY DEF irq_trace_set, Asks
  <2>3. irq_trace_text.ret = "nosys"
    BY ReportIs DEF irq_trace_text
  <2>4. irq_trace_text.again = FALSE
    BY ReportIs DEF irq_trace_text
  <2>5. irq_trace_text.twice = {}
    BY ReportIs DEF irq_trace_text
  <2>6. irq_trace_log.ret = "one"
    BY LogIs DEF irq_trace_log
  <2>7. irq_trace_log.twice = {}
    BY LogIs DEF irq_trace_log
  <2> QED BY <2>1, <2>2, <2>3, <2>4, <2>5, <2>6, <2>7
         DEF Reports, Prepared, TrueDump, OwnMutex, HalfMutex, Roomy
<1>8. Reports("sys_cost")
  <2>1. LET r == Rows["sys_cost"] IN
         /\ r.k = sys_cost_kernel /\ r.s = sys_cost_set
         /\ r.text = sys_cost_text /\ r.log = sys_cost_log
    BY DEF Rows
  <2>2. sys_cost_set.set = "nosys" /\ sys_cost_set.get = "nosys"
    BY DEF sys_cost_set, Asks
  <2>3. sys_cost_text.ret = "nosys"
    BY ReportIs DEF sys_cost_text
  <2>4. sys_cost_text.again = FALSE
    BY ReportIs DEF sys_cost_text
  <2>5. sys_cost_text.twice = {}
    BY ReportIs DEF sys_cost_text
  <2>6. sys_cost_log.ret = "one"
    BY LogIs DEF sys_cost_log
  <2>7. sys_cost_log.twice = {}
    BY LogIs DEF sys_cost_log
  <2> QED BY <2>1, <2>2, <2>3, <2>4, <2>5, <2>6, <2>7
         DEF Reports, Prepared, TrueDump, OwnMutex, HalfMutex, Roomy
<1>9. Reports("sig_info")
  <2>1. LET r == Rows["sig_info"] IN
         /\ r.k = sig_info_kernel /\ r.s = sig_info_set
         /\ r.text = sig_info_text /\ r.log = sig_info_log
    BY DEF Rows
  <2>2. sig_info_set.set = "nosys" /\ sig_info_set.get = "nosys"
    BY DEF sig_info_set, Asks
  <2>3. sig_info_text.ret = "nosys"
    BY ReportIs DEF sig_info_text
  <2>4. sig_info_text.again = FALSE
    BY ReportIs DEF sig_info_text
  <2>5. sig_info_text.twice = {}
    BY ReportIs DEF sig_info_text
  <2>6. sig_info_log.ret = "one"
    BY LogIs DEF sig_info_log
  <2>7. sig_info_log.twice = {}
    BY LogIs DEF sig_info_log
  <2> QED BY <2>1, <2>2, <2>3, <2>4, <2>5, <2>6, <2>7
         DEF Reports, Prepared, TrueDump, OwnMutex, HalfMutex, Roomy
<1>10. Reports("throttle_delay")
  <2>1. LET r == Rows["throttle_delay"] IN
         /\ r.k = throttle_delay_kernel /\ r.s = throttle_delay_set
         /\ r.text = throttle_delay_text /\ r.log = throttle_delay_log
    BY DEF Rows
  <2>2. throttle_delay_set.set = "nosys" /\ throttle_delay_set.get = "nosys"
    BY DEF throttle_delay_set, Asks
  <2>3. throttle_delay_text.ret = "nosys"
    BY ReportIs DEF throttle_delay_text
  <2>4. throttle_delay_text.again = FALSE
    BY ReportIs DEF throttle_delay_text
  <2>5. throttle_delay_text.twice = {}
    BY ReportIs DEF throttle_delay_text
  <2>6. throttle_delay_log.ret = "nosys"
    BY LogIs DEF throttle_delay_log
  <2>7. throttle_delay_log.twice = {}
    BY LogIs DEF throttle_delay_log
  <2> QED BY <2>1, <2>2, <2>3, <2>4, <2>5, <2>6, <2>7
         DEF Reports, Prepared, TrueDump, OwnMutex, HalfMutex, Roomy
<1>11. Reports("run_trace")
  <2>1. LET r == Rows["run_trace"] IN
         /\ r.k = run_trace_kernel /\ r.s = run_trace_set
         /\ r.text = run_trace_text /\ r.log = run_trace_log
    BY DEF Rows
  <2>2. run_trace_set.set = "nosys" /\ run_trace_set.get = "nosys"
    BY DEF run_trace_set, Asks
  <2>3. run_trace_text.ret = "nosys"
    BY ReportIs DEF run_trace_text
  <2>4. run_trace_text.again = FALSE
    BY ReportIs DEF run_trace_text
  <2>5. run_trace_text.twice = {}
    BY ReportIs DEF run_trace_text
  <2>6. run_trace_log.ret = "nosys"
    BY LogIs DEF run_trace_log
  <2>7. run_trace_log.twice = {}
    BY LogIs DEF run_trace_log
  <2> QED BY <2>1, <2>2, <2>3, <2>4, <2>5, <2>6, <2>7
         DEF Reports, Prepared, TrueDump, OwnMutex, HalfMutex, Roomy
<1>12. Reports("exec_monitor")
  <2>1. LET r == Rows["exec_monitor"] IN
         /\ r.k = exec_monitor_kernel /\ r.s = exec_monitor_set
         /\ r.text = exec_monitor_text /\ r.log = exec_monitor_log
    BY DEF Rows
  <2>2. exec_monitor_set.set = "ok" /\ exec_monitor_set.get = "nosys"
    BY DEF exec_monitor_set, Asks
  <2>3. exec_monitor_text.ret = "nosys"
    BY ReportIs DEF exec_monitor_text
  <2>4. exec_monitor_text.again = FALSE
    BY ReportIs DEF exec_monitor_text
  <2>5. exec_monitor_text.twice = {}
    BY ReportIs DEF exec_monitor_text
  <2>6. exec_monitor_log.ret = "one"
    BY LogIs DEF exec_monitor_log
  <2>7. exec_monitor_log.twice = {}
    BY LogIs DEF exec_monitor_log
  <2> QED BY <2>1, <2>2, <2>3, <2>4, <2>5, <2>6, <2>7
         DEF Reports, Prepared, TrueDump, OwnMutex, HalfMutex, Roomy
<1>13. Reports("exit_monitor")
  <2>1. LET r == Rows["exit_monitor"] IN
         /\ r.k = exit_monitor_kernel /\ r.s = exit_monitor_set
         /\ r.text = exit_monitor_text /\ r.log = exit_monitor_log
    BY DEF Rows
  <2>2. exit_monitor_set.set = "nosys" /\ exit_monitor_set.get = "nosys"
    BY DEF exit_monitor_set, Asks
  <2>3. exit_monitor_text.ret = "nosys"
    BY ReportIs DEF exit_monitor_text
  <2>4. exit_monitor_text.again = FALSE
    BY ReportIs DEF exit_monitor_text
  <2>5. exit_monitor_text.twice = {}
    BY ReportIs DEF exit_monitor_text
  <2>6. exit_monitor_log.ret = "one"
    BY LogIs DEF exit_monitor_log
  <2>7. exit_monitor_log.twice = {}
    BY LogIs DEF exit_monitor_log
  <2> QED BY <2>1, <2>2, <2>3, <2>4, <2>5, <2>6, <2>7
         DEF Reports, Prepared, TrueDump, OwnMutex, HalfMutex, Roomy
<1>14. Reports("utilization")
  <2>1. LET r == Rows["utilization"] IN
         /\ r.k = utilization_kernel /\ r.s = utilization_set
         /\ r.text = utilization_text /\ r.log = utilization_log
    BY DEF Rows
  <2>2. utilization_set.set = "nosys" /\ utilization_set.get = "nosys"
    BY DEF utilization_set, Asks
  <2>3. utilization_text.ret = "nosys"
    BY ReportIs DEF utilization_text
  <2>4. utilization_text.again = FALSE
    BY ReportIs DEF utilization_text
  <2>5. utilization_text.twice = {}
    BY ReportIs DEF utilization_text
  <2>6. utilization_log.ret = "nosys"
    BY LogIs DEF utilization_log
  <2>7. utilization_log.twice = {}
    BY LogIs DEF utilization_log
  <2> QED BY <2>1, <2>2, <2>3, <2>4, <2>5, <2>6, <2>7
         DEF Reports, Prepared, TrueDump, OwnMutex, HalfMutex, Roomy
<1>15. Reports("perf")
  <2>1. LET r == Rows["perf"] IN
         /\ r.k = perf_kernel /\ r.s = perf_set
         /\ r.text = perf_text /\ r.log = perf_log
    BY DEF Rows
  <2>2. perf_set.set = "nosys" /\ perf_set.get = "nosys"
    BY DEF perf_set, Asks
  <2>3. perf_text.ret = "nosys"
    BY ReportIs DEF perf_text
  <2>4. perf_text.again = FALSE
    BY ReportIs DEF perf_text
  <2>5. perf_text.twice = {}
    BY ReportIs DEF perf_text
  <2>6. perf_log.ret = "nosys"
    BY LogIs DEF perf_log
  <2>7. perf_log.twice = {}
    BY LogIs DEF perf_log
  <2> QED BY <2>1, <2>2, <2>3, <2>4, <2>5, <2>6, <2>7
         DEF Reports, Prepared, TrueDump, OwnMutex, HalfMutex, Roomy
<1>16. Reports("kprobe")
  <2>1. LET r == Rows["kprobe"] IN
         /\ r.k = kprobe_kernel /\ r.s = kprobe_set
         /\ r.text = kprobe_text /\ r.log = kprobe_log
    BY DEF Rows
  <2>2. kprobe_set.set = "nosys" /\ kprobe_set.get = "nosys"
    BY DEF kprobe_set, Asks
  <2>3. kprobe_text.ret = "nosys"
    BY ReportIs DEF kprobe_text
  <2>4. kprobe_text.again = FALSE
    BY ReportIs DEF kprobe_text
  <2>5. kprobe_text.twice = {}
    BY ReportIs DEF kprobe_text
  <2>6. kprobe_log.ret = "one"
    BY LogIs DEF kprobe_log
  <2>7. kprobe_log.twice = {}
    BY LogIs DEF kprobe_log
  <2>8. kprobe_kernel.half = 10
    BY DEF kprobe_kernel, Handler
  <2>9. kprobe_kernel.extra = {}
    BY DEF kprobe_kernel, Handler
  <2>10. \A p \in Paths : kprobe_text.room[p] = 40
    BY ReportIs DEF kprobe_text, Paths
  <2>11. kprobe_log.kinds = kprobe_text.kinds
    BY LogIs, ReportIs DEF kprobe_log, kprobe_text
  <2>12. \A p \in Paths : kprobe_log.room[p] = 40
    BY LogIs DEF kprobe_log, Paths
  <2> QED BY <2>1, <2>2, <2>3, <2>4, <2>5, <2>6, <2>7, <2>8, <2>9, <2>10, <2>11, <2>12
         DEF Reports, Prepared, TrueDump, OwnMutex, HalfMutex, Roomy, Room
<1>17. Reports("uprobe")
  <2>1. LET r == Rows["uprobe"] IN
         /\ r.k = uprobe_kernel /\ r.s = uprobe_set
         /\ r.text = uprobe_text /\ r.log = uprobe_log
    BY DEF Rows
  <2>2. uprobe_set.set = "nosys" /\ uprobe_set.get = "nosys"
    BY DEF uprobe_set, Asks
  <2>3. uprobe_text.ret = "nosys"
    BY ReportIs DEF uprobe_text
  <2>4. uprobe_text.again = FALSE
    BY ReportIs DEF uprobe_text
  <2>5. uprobe_text.twice = {}
    BY ReportIs DEF uprobe_text
  <2>6. uprobe_log.ret = "one"
    BY LogIs DEF uprobe_log
  <2>7. uprobe_log.twice = {}
    BY LogIs DEF uprobe_log
  <2>8. "dump" \in uprobe_kernel.locks /\ "log" \in uprobe_kernel.locks
        /\ "ioctl" \in uprobe_kernel.locked
    BY DEF uprobe_kernel, Handler
  <2>9. uprobe_kernel.half = 10
    BY DEF uprobe_kernel, Handler
  <2>10. uprobe_kernel.extra = {}
    BY DEF uprobe_kernel, Handler
  <2>11. \A p \in Paths : uprobe_text.room[p] = 40
    BY ReportIs DEF uprobe_text, Paths
  <2>12. uprobe_log.kinds = uprobe_text.kinds
    BY LogIs, ReportIs DEF uprobe_log, uprobe_text
  <2>13. \A p \in Paths : uprobe_log.room[p] = 40
    BY LogIs DEF uprobe_log, Paths
  <2> QED BY <2>1, <2>2, <2>3, <2>4, <2>5, <2>6, <2>7, <2>8, <2>9, <2>10, <2>11, <2>12, <2>13
         DEF Reports, Prepared, TrueDump, OwnMutex, HalfMutex, Roomy, Room
<1>18. Reports("task_monitor")
  <2>1. LET r == Rows["task_monitor"] IN
         /\ r.k = task_monitor_kernel /\ r.s = task_monitor_set
         /\ r.text = task_monitor_text /\ r.log = task_monitor_log
    BY DEF Rows
  <2>2. task_monitor_set.set = "nosys" /\ task_monitor_set.get = "nosys"
    BY DEF task_monitor_set, Asks
  <2>3. task_monitor_text.ret = "nosys"
    BY ReportIs DEF task_monitor_text
  <2>4. task_monitor_text.again = FALSE
    BY ReportIs DEF task_monitor_text
  <2>5. task_monitor_text.twice = {}
    BY ReportIs DEF task_monitor_text
  <2>6. task_monitor_log.ret = "nosys"
    BY LogIs DEF task_monitor_log
  <2>7. task_monitor_log.twice = {}
    BY LogIs DEF task_monitor_log
  <2> QED BY <2>1, <2>2, <2>3, <2>4, <2>5, <2>6, <2>7
         DEF Reports, Prepared, TrueDump, OwnMutex, HalfMutex, Roomy
<1>19. Reports("load_monitor")
  <2>1. LET r == Rows["load_monitor"] IN
         /\ r.k = load_monitor_kernel /\ r.s = load_monitor_set
         /\ r.text = load_monitor_text /\ r.log = load_monitor_log
    BY DEF Rows
  <2>2. load_monitor_set.set = "nosys" /\ load_monitor_set.get = "nosys"
    BY DEF load_monitor_set, Asks
  <2>3. load_monitor_text.ret = "nosys"
    BY ReportIs DEF load_monitor_text
  <2>4. load_monitor_text.again = FALSE
    BY ReportIs DEF load_monitor_text
  <2>5. load_monitor_text.twice = {}
    BY ReportIs DEF load_monitor_text
  <2>6. load_monitor_log.ret = "nosys"
    BY LogIs DEF load_monitor_log
  <2>7. load_monitor_log.twice = {}
    BY LogIs DEF load_monitor_log
  <2> QED BY <2>1, <2>2, <2>3, <2>4, <2>5, <2>6, <2>7
         DEF Reports, Prepared, TrueDump, OwnMutex, HalfMutex, Roomy
<1>20. Reports("ping_delay")
  <2>1. LET r == Rows["ping_delay"] IN
         /\ r.k = ping_delay_kernel /\ r.s = ping_delay_set
         /\ r.text = ping_delay_text /\ r.log = ping_delay_log
    BY DEF Rows
  <2>2. ping_delay_set.set = "nosys" /\ ping_delay_set.get = "nosys"
    BY DEF ping_delay_set, Asks
  <2>3. ping_delay_text.ret = "nosys"
    BY ReportIs DEF ping_delay_text
  <2>4. ping_delay_text.again = FALSE
    BY ReportIs DEF ping_delay_text
  <2>5. ping_delay_text.twice = {}
    BY ReportIs DEF ping_delay_text
  <2>6. ping_delay_log.ret = "one"
    BY LogIs DEF ping_delay_log
  <2>7. ping_delay_log.twice = {}
    BY LogIs DEF ping_delay_log
  <2> QED BY <2>1, <2>2, <2>3, <2>4, <2>5, <2>6, <2>7
         DEF Reports, Prepared, TrueDump, OwnMutex, HalfMutex, Roomy
<1>21. Reports("ping_delay6")
  <2>1. LET r == Rows["ping_delay6"] IN
         /\ r.k = ping_delay6_kernel /\ r.s = ping_delay6_set
         /\ r.text = ping_delay6_text /\ r.log = ping_delay6_log
    BY DEF Rows
  <2>2. ping_delay6_set.set = "nosys" /\ ping_delay6_set.get = "nosys"
    BY DEF ping_delay6_set, Asks
  <2>3. ping_delay6_text.ret = "nosys"
    BY ReportIs DEF ping_delay6_text
  <2>4. ping_delay6_text.again = FALSE
    BY ReportIs DEF ping_delay6_text
  <2>5. ping_delay6_text.twice = {}
    BY ReportIs DEF ping_delay6_text
  <2>6. ping_delay6_log.ret = "one"
    BY LogIs DEF ping_delay6_log
  <2>7. ping_delay6_log.twice = {}
    BY LogIs DEF ping_delay6_log
  <2> QED BY <2>1, <2>2, <2>3, <2>4, <2>5, <2>6, <2>7
         DEF Reports, Prepared, TrueDump, OwnMutex, HalfMutex, Roomy
<1>22. Reports("drop_packet")
  <2>1. LET r == Rows["drop_packet"] IN
         /\ r.k = drop_packet_kernel /\ r.s = drop_packet_set
         /\ r.text = drop_packet_text /\ r.log = drop_packet_log
    BY DEF Rows
  <2>2. drop_packet_set.set = "nosys" /\ drop_packet_set.get = "nosys"
    BY DEF drop_packet_set, Asks
  <2>3. drop_packet_text.ret = "nosys"
    BY ReportIs DEF drop_packet_text
  <2>4. drop_packet_text.again = FALSE
    BY ReportIs DEF drop_packet_text
  <2>5. drop_packet_text.twice = {}
    BY ReportIs DEF drop_packet_text
  <2>6. drop_packet_log.ret = "one"
    BY LogIs DEF drop_packet_log
  <2>7. drop_packet_log.twice = {}
    BY LogIs DEF drop_packet_log
  <2> QED BY <2>1, <2>2, <2>3, <2>4, <2>5, <2>6, <2>7
         DEF Reports, Prepared, TrueDump, OwnMutex, HalfMutex, Roomy
<1>23. Reports("net_bandwidth")
  <2>1. LET r == Rows["net_bandwidth"] IN
         /\ r.k = net_bandwidth_kernel /\ r.s = net_bandwidth_set
         /\ r.text = net_bandwidth_text /\ r.log = NoLog
    BY DEF Rows
  <2>2. net_bandwidth_set.set = "ok" /\ net_bandwidth_set.get = "any"
    BY DEF net_bandwidth_set, Asks
  <2>3. net_bandwidth_text.ret = "one"
    BY ReportIs DEF net_bandwidth_text
  <2>4. net_bandwidth_text.again = FALSE
    BY ReportIs DEF net_bandwidth_text
  <2>5. net_bandwidth_text.twice = {}
    BY ReportIs DEF net_bandwidth_text
  <2>6. NoLog.ret = "one"
    BY LogIs DEF NoLog
  <2>7. NoLog.twice = {}
    BY LogIs DEF NoLog
  <2> QED BY <2>1, <2>2, <2>3, <2>4, <2>5, <2>6, <2>7
         DEF Reports, Prepared, TrueDump, OwnMutex, HalfMutex, Roomy
<1>24. Reports("tcp_retrans")
  <2>1. LET r == Rows["tcp_retrans"] IN
         /\ r.k = tcp_retrans_kernel /\ r.s = tcp_retrans_set
         /\ r.text = tcp_retrans_text /\ r.log = tcp_retrans_log
    BY DEF Rows
  <2>2. tcp_retrans_set.set = "nosys" /\ tcp_retrans_set.get = "nosys"
    BY DEF tcp_retrans_set, Asks
  <2>3. tcp_retrans_text.ret = "nosys"
    BY ReportIs DEF tcp_retrans_text
  <2>4. tcp_retrans_text.again = FALSE
    BY ReportIs DEF tcp_retrans_text
  <2>5. tcp_retrans_text.twice = {}
    BY ReportIs DEF tcp_retrans_text
  <2>6. tcp_retrans_log.ret = "one"
    BY LogIs DEF tcp_retrans_log
  <2>7. tcp_retrans_log.twice = {}
    BY LogIs DEF tcp_retrans_log
  <2> QED BY <2>1, <2>2, <2>3, <2>4, <2>5, <2>6, <2>7
         DEF Reports, Prepared, TrueDump, OwnMutex, HalfMutex, Roomy
<1>25. Reports("tcp_connect")
  <2>1. LET r == Rows["tcp_connect"] IN
         /\ r.k = tcp_connect_kernel /\ r.s = tcp_connect_set
         /\ r.text = tcp_connect_text /\ r.log = tcp_connect_log
    BY DEF Rows
  <2>2. tcp_connect_set.set = "nosys" /\ tcp_connect_set.get = "nosys"
    BY DEF tcp_connect_set, Asks
  <2>3. tcp_connect_text.ret = "nosys"
    BY ReportIs DEF tcp_connect_text
  <2>4. tcp_connect_text.again = FALSE
    BY ReportIs DEF tcp_connect_text
  <2>5. tcp_connect_text.twice = {}
    BY ReportIs DEF tcp_connect_text
  <2>6. tcp_connect_log.ret = "one"
    BY LogIs DEF tcp_connect_log
  <2>7. tcp_connect_log.twice = {}
    BY LogIs DEF tcp_connect_log
  <2> QED BY <2>1, <2>2, <2>3, <2>4, <2>5, <2>6, <2>7
         DEF Reports, Prepared, TrueDump, OwnMutex, HalfMutex, Roomy
<1>26. Reports("alloc_top")
  <2>1. LET r == Rows["alloc_top"] IN
         /\ r.k = alloc_top_kernel /\ r.s = alloc_top_set
         /\ r.text = alloc_top_text /\ r.log = alloc_top_log
    BY DEF Rows
  <2>2. alloc_top_set.set = "nosys" /\ alloc_top_set.get = "nosys"
    BY DEF alloc_top_set, Asks
  <2>3. alloc_top_text.ret = "nosys"
    BY ReportIs DEF alloc_top_text
  <2>4. alloc_top_text.again = FALSE
    BY ReportIs DEF alloc_top_text
  <2>5. alloc_top_text.twice = {}
    BY ReportIs DEF alloc_top_text
  <2>6. alloc_top_log.ret = "one"
    BY LogIs DEF alloc_top_log
  <2>7. alloc_top_log.twice = {}
    BY LogIs DEF alloc_top_log
  <2> QED BY <2>1, <2>2, <2>3, <2>4, <2>5, <2>6, <2>7
         DEF Reports, Prepared, TrueDump, OwnMutex, HalfMutex, Roomy
<1>27. Reports("high_order")
  <2>1. LET r == Rows["high_order"] IN
         /\ r.k = high_order_kernel /\ r.s = high_order_set
         /\ r.text = high_order_text /\ r.log = high_order_log
    BY DEF Rows
  <2>2. high_order_set.set = "nosys" /\ high_order_set.get = "nosys"
    BY DEF high_order_set, Asks
  <2>3. high_order_text.ret = "nosys"
    BY ReportIs DEF high_order_text
  <2>4. high_order_text.again = FALSE
    BY ReportIs DEF high_order_text
  <2>5. high_order_text.twice = {}
    BY ReportIs DEF high_order_text
  <2>6. high_order_log.ret = "one"
    BY LogIs DEF high_order_log
  <2>7. high_order_log.twice = {}
    BY LogIs DEF high_order_log
  <2> QED BY <2>1, <2>2, <2>3, <2>4, <2>5, <2>6, <2>7
         DEF Reports, Prepared, TrueDump, OwnMutex, HalfMutex, Roomy
<1>28. Reports("mm_leak")
  <2>1. LET r == Rows["mm_leak"] IN
         /\ r.k = mm_leak_kernel /\ r.s = mm_leak_set
         /\ r.text = mm_leak_text /\ r.log = NoLog
    BY DEF Rows
  <2>2. mm_leak_set.set = "nosys" /\ mm_leak_set.get = "nosys"
    BY DEF mm_leak_set, Asks
  <2>3. mm_leak_text.ret = "nosys"
    BY ReportIs DEF mm_leak_text
  <2>4. mm_leak_text.again = TRUE
    BY ReportIs DEF mm_leak_text
  <2>5. mm_leak_text.twice = {}
    BY ReportIs DEF mm_leak_text
  <2>6. NoLog.ret = "one"
    BY LogIs DEF NoLog
  <2>7. NoLog.twice = {}
    BY LogIs DEF NoLog
  <2> QED BY <2>1, <2>2, <2>3, <2>4, <2>5, <2>6, <2>7
         DEF Reports, Prepared, TrueDump, OwnMutex, HalfMutex, Roomy
<1>29. Reports("rss_monitor")
  <2>1. LET r == Rows["rss_monitor"] IN
         /\ r.k = rss_monitor_kernel /\ r.s = rss_monitor_set
         /\ r.text = rss_monitor_text /\ r.log = NoLog
    BY DEF Rows
  <2>2. rss_monitor_set.set = "nosys" /\ rss_monitor_set.get = "nosys"
    BY DEF rss_monitor_set, Asks
  <2>3. rss_monitor_text.ret = "nosys"
    BY ReportIs DEF rss_monitor_text
  <2>4. rss_monitor_text.again = TRUE
    BY ReportIs DEF rss_monitor_text
  <2>5. rss_monitor_text.twice = {}
    BY ReportIs DEF rss_monitor_text
  <2>6. NoLog.ret = "one"
    BY LogIs DEF NoLog
  <2>7. NoLog.twice = {}
    BY LogIs DEF NoLog
  <2>8. rss_monitor_kernel.half = 10
    BY DEF rss_monitor_kernel, Handler
  <2>9. rss_monitor_kernel.extra = {}
    BY DEF rss_monitor_kernel, Handler
  <2>10. \A p \in Paths : rss_monitor_text.room[p] = 40
    BY ReportIs DEF rss_monitor_text, Paths
  <2>11. NoLog.kinds = {}
    BY LogIs DEF NoLog
  <2> QED BY <2>1, <2>2, <2>3, <2>4, <2>5, <2>6, <2>7, <2>8, <2>9, <2>10, <2>11
         DEF Reports, Prepared, TrueDump, OwnMutex, HalfMutex, Roomy, Room
<1>30. Reports("memcg_stats")
  <2>1. LET r == Rows["memcg_stats"] IN
         /\ r.k = memcg_stats_kernel /\ r.s = memcg_stats_set
         /\ r.text = memcg_stats_text /\ r.log = memcg_stats_log
    BY DEF Rows
  <2>2. memcg_stats_set.set = "nosys" /\ memcg_stats_set.get = "nosys"
    BY DEF memcg_stats_set, Asks
  <2>3. memcg_stats_text.ret = "nosys"
    BY ReportIs DEF memcg_stats_text
  <2>4. memcg_stats_text.again = FALSE
    BY ReportIs DEF memcg_stats_text
  <2>5. memcg_stats_text.twice = {}
    BY ReportIs DEF memcg_stats_text
  <2>6. memcg_stats_log.ret = "nosys"
    BY LogIs DEF memcg_stats_log
  <2>7. memcg_stats_log.twice = {}
    BY LogIs DEF memcg_stats_log
  <2> QED BY <2>1, <2>2, <2>3, <2>4, <2>5, <2>6, <2>7
         DEF Reports, Prepared, TrueDump, OwnMutex, HalfMutex, Roomy
<1>31. Reports("rw_top")
  <2>1. LET r == Rows["rw_top"] IN
         /\ r.k = rw_top_kernel /\ r.s = rw_top_set
         /\ r.text = rw_top_text /\ r.log = rw_top_log
    BY DEF Rows
  <2>2. rw_top_set.set = "nosys" /\ rw_top_set.get = "nosys"
    BY DEF rw_top_set, Asks
  <2>3. rw_top_text.ret = "nosys"
    BY ReportIs DEF rw_top_text
  <2>4. rw_top_text.again = FALSE
    BY ReportIs DEF rw_top_text
  <2>5. rw_top_text.twice = {}
    BY ReportIs DEF rw_top_text
  <2>6. rw_top_log.ret = "one"
    BY LogIs DEF rw_top_log
  <2>7. rw_top_log.twice = {}
    BY LogIs DEF rw_top_log
  <2> QED BY <2>1, <2>2, <2>3, <2>4, <2>5, <2>6, <2>7
         DEF Reports, Prepared, TrueDump, OwnMutex, HalfMutex, Roomy
<1>32. Reports("fs_cache")
  <2>1. LET r == Rows["fs_cache"] IN
         /\ r.k = fs_cache_kernel /\ r.s = fs_cache_set
         /\ r.text = fs_cache_text /\ r.log = fs_cache_log
    BY DEF Rows
  <2>2. fs_cache_set.set = "nosys" /\ fs_cache_set.get = "nosys"
    BY DEF fs_cache_set, Asks
  <2>3. fs_cache_text.ret = "nosys"
    BY ReportIs DEF fs_cache_text
  <2>4. fs_cache_text.again = FALSE
    BY ReportIs DEF fs_cache_text
  <2>5. fs_cache_text.twice = {}
    BY ReportIs DEF fs_cache_text
  <2>6. fs_cache_log.ret = "one"
    BY LogIs DEF fs_cache_log
  <2>7. fs_cache_log.twice = {}
    BY LogIs DEF fs_cache_log
  <2> QED BY <2>1, <2>2, <2>3, <2>4, <2>5, <2>6, <2>7
         DEF Reports, Prepared, TrueDump, OwnMutex, HalfMutex, Roomy
<1>33. Reports("fs_orphan")
  <2>1. LET r == Rows["fs_orphan"] IN
         /\ r.k = fs_orphan_kernel /\ r.s = fs_orphan_set
         /\ r.text = fs_orphan_text /\ r.log = fs_orphan_log
    BY DEF Rows
  <2>2. fs_orphan_set.set = "ok" /\ fs_orphan_set.get = "any"
    BY DEF fs_orphan_set, Asks
  <2>3. fs_orphan_text.ret = "ok"
    BY ReportIs DEF fs_orphan_text
  <2>4. fs_orphan_text.again = FALSE
    BY ReportIs DEF fs_orphan_text
  <2>5. fs_orphan_text.twice = {}
    BY ReportIs DEF fs_orphan_text
  <2>6. fs_orphan_log.ret = "one"
    BY LogIs DEF fs_orphan_log
  <2>7. fs_orphan_log.twice = {}
    BY LogIs DEF fs_orphan_log
  <2> QED BY <2>1, <2>2, <2>3, <2>4, <2>5, <2>6, <2>7
         DEF Reports, Prepared, TrueDump, OwnMutex, HalfMutex, Roomy
<1>34. Reports("fs_shm")
  <2>1. LET r == Rows["fs_shm"] IN
         /\ r.k = fs_shm_kernel /\ r.s = fs_shm_set
         /\ r.text = fs_shm_text /\ r.log = fs_shm_log
    BY DEF Rows
  <2>2. fs_shm_set.set = "nosys" /\ fs_shm_set.get = "nosys"
    BY DEF fs_shm_set, Asks
  <2>3. fs_shm_text.ret = "nosys"
    BY ReportIs DEF fs_shm_text
  <2>4. fs_shm_text.again = FALSE
    BY ReportIs DEF fs_shm_text
  <2>5. fs_shm_text.twice = {"ioctl"}
    BY ReportIs DEF fs_shm_text
  <2>6. fs_shm_log.ret = "one"
    BY LogIs DEF fs_shm_log
  <2>7. fs_shm_log.twice = {}
    BY LogIs DEF fs_shm_log
  <2> QED BY <2>1, <2>2, <2>3, <2>4, <2>5, <2>6, <2>7
         DEF Reports, Prepared, TrueDump, OwnMutex, HalfMutex, Roomy, Twice
<1>35. Reports("pmu")
  <2>1. LET r == Rows["pmu"] IN
         /\ r.k = pmu_kernel /\ r.s = pmu_set
         /\ r.text = pmu_text /\ r.log = pmu_log
    BY DEF Rows
  <2>2. pmu_set.set = "nosys" /\ pmu_set.get = "nosys"
    BY DEF pmu_set, Asks
  <2>3. pmu_text.ret = "nosys"
    BY ReportIs DEF pmu_text
  <2>4. pmu_text.again = FALSE
    BY ReportIs DEF pmu_text
  <2>5. pmu_text.twice = {}
    BY ReportIs DEF pmu_text
  <2>6. pmu_log.ret = "one"
    BY LogIs DEF pmu_log
  <2>7. pmu_log.twice = {}
    BY LogIs DEF pmu_log
  <2> QED BY <2>1, <2>2, <2>3, <2>4, <2>5, <2>6, <2>7
         DEF Reports, Prepared, TrueDump, OwnMutex, HalfMutex, Roomy
<1>36. DOMAIN Rows = {
      "mutex_monitor", "rw_sem", "sys_delay", "sched_delay", "irq_delay",
      "irq_stats", "irq_trace", "sys_cost", "sig_info", "throttle_delay",
      "run_trace", "exec_monitor", "exit_monitor", "utilization", "perf", "kprobe",
      "uprobe", "task_monitor", "load_monitor", "ping_delay", "ping_delay6",
      "drop_packet", "net_bandwidth", "tcp_retrans", "tcp_connect", "alloc_top",
      "high_order", "mm_leak", "rss_monitor", "memcg_stats", "rw_top", "fs_cache",
      "fs_orphan", "fs_shm", "pmu"}
  BY DEF Rows
<1> QED BY <1>1, <1>2, <1>3, <1>4, <1>5, <1>6, <1>7, <1>8, <1>9, <1>10, <1>11, <1>12, <1>13, <1>14, <1>15, <1>16, <1>17, <1>18, <1>19, <1>20, <1>21, <1>22, <1>23, <1>24, <1>25, <1>26, <1>27, <1>28, <1>29, <1>30, <1>31, <1>32, <1>33, <1>34, <1>35, <1>36

USE RequestsAssumption
-----------------------------------------------------------------------------
(* Types, and which command is where.                                      *)

\* Where a client is while the module answers it.
Inside == {"handle", "test", "copy", "assign", "read", "show", "gather", "backup", "copyout"}

\* Types, and the requests that each label is for.
TypeInv ==
  /\ mon \in Monitors /\ setting \in Values /\ asked \in Values /\ active \in BOOLEAN
  /\ slot \in [Paths -> Values]
  /\ pc \in [Clients -> Inside \cup {"idle", "call", "down", "back", "activate", "asleep"}]
  /\ cmd \in [Clients -> {"set", "get", "dump", "log"}] /\ way \in [Clients -> Paths]
  /\ DOMAIN ret = Clients /\ val \in [Clients -> Values]
  /\ seen \in [Clients -> SUBSET Values] /\ fresh \in [Clients -> BOOLEAN]
  /\ sem \in Clients \cup {None} /\ own \in Clients \cup {None}
  /\ \A c \in Clients :
       /\ pc[c] \in {"test", "copy", "assign", "activate"} => cmd[c] = "set"
       /\ pc[c] \in {"read", "show"} => cmd[c] = "get"
       /\ pc[c] \in {"gather", "backup", "copyout", "asleep"} => cmd[c] \in {"dump", "log"}
       /\ cmd[c] = "set" => c = Operator

LEMMA TypeInit == Init => TypeInv
<1> SUFFICES ASSUME Init PROVE TypeInv
  OBVIOUS
<1>1. mon \in Monitors
  BY DEF Init
<1> QED BY <1>1 DEF Init, TypeInv, Paths, Inside

LEMMA TypeNext == TypeInv /\ [Next]_vars => TypeInv'
<1> SUFFICES ASSUME TypeInv, [Next]_vars PROVE TypeInv'
  OBVIOUS
<1> USE DEF TypeInv, Goto, Inside, Paths, clientVars, lockVars, settingVars, recordVars
<1>1. ASSUME NEW c \in Clients, Start(c) \/ Down(c) \/ Serve(c) \/ Activate(c) \/ Wake(c) \/ Kill(c)
      PROVE  TypeInv'
  <2>1. CASE Start(c)
    BY <2>1, RowIsFine DEF Start, AnyOf, Fine, Row, K
  <2>2. CASE Call(c)
    BY <2>2 DEF Call
  <2>3. CASE Down(c)
    BY <2>3 DEF Down
  <2>5. CASE Handle(c)
    BY <2>5 DEF Handle, Take
  <2>6. CASE SetTest(c)
    BY <2>6 DEF SetTest, Take
  <2>7. CASE SetBusy(c)
    BY <2>7 DEF SetBusy, Answer
  <2>8. CASE SetCopy(c)
    BY <2>8 DEF SetCopy, Copy
  <2>9. CASE SetAssign(c)
    BY <2>9 DEF SetAssign, Answer, Copied
  <2>10. CASE GetRead(c)
    BY <2>10 DEF GetRead, Copy
  <2>11. CASE GetShow(c)
    BY <2>11 DEF GetShow, Answer, Copied
  <2>12. CASE Gather(c)
    BY <2>12 DEF Gather
  <2>13. CASE GatherInvalid(c)
    BY <2>13 DEF GatherInvalid, Answer
  <2>14. CASE Backup(c)
    BY <2>14 DEF Backup
  <2>15. CASE CopyOut(c)
    BY <2>15 DEF CopyOut, Answer
  <2>16. CASE BackSet(c)
    BY <2>16 DEF BackSet
  <2>17. CASE BackEnd(c)
    BY <2>17 DEF BackEnd, End
  <2>18. CASE BackDump(c)
    <3>1. End(c) \/ (UNCHANGED <<cmd, way, ret, val, seen, fresh>>
                     /\ (Goto(c, "asleep") \/ Goto(c, "call")))
      BY <2>18 DEF BackDump
    <3>2. IsDump(c) /\ UNCHANGED <<lockVars, settingVars>>
      BY <2>18 DEF BackDump
    <3>3. CASE End(c)
      BY <3>2, <3>3 DEF End
    <3>4. CASE Goto(c, "asleep") \/ Goto(c, "call")
      BY <3>1, <3>2, <3>4 DEF End, IsDump
    <3> QED BY <3>1, <3>3, <3>4
  <2>19. CASE Activate(c)
    BY <2>19 DEF Activate, End
  <2>20. CASE Wake(c)
    BY <2>20 DEF Wake
  <2>21. CASE Kill(c)
    BY <2>21 DEF Kill, End
  <2> QED BY <1>1, <2>1, <2>2, <2>3, <2>5, <2>6, <2>7, <2>8, <2>9, <2>10, <2>11,
            <2>12, <2>13, <2>14, <2>15, <2>16, <2>17, <2>18, <2>19, <2>20, <2>21
         DEF Serve
<1>2. CASE Deactivate \/ Switch \/ Emit
  BY <1>2 DEF Deactivate, Switch, Emit
<1>3. CASE UNCHANGED vars
  BY <1>3 DEF vars
<1> QED BY <1>1, <1>2, <1>3 DEF Next

-----------------------------------------------------------------------------
(* Who holds which lock.                                                   *)

\* Who holds what: system calls the semaphore, handlers their mutex.
LockInv ==
  \A c \in Clients :
    /\ pc[c] \in Inside /\ way[c] = "syscall" => sem = c
    /\ pc[c] \in Inside \ {"handle"} /\ way[c] \in K.locked /\ cmd[c] \in K.locks => own = c
    /\ pc[c] \in {"copy", "assign"} /\ way[c] \in K.locked /\ K.late => own = c

LEMMA LockInit == Init => LockInv
BY DEF Init, LockInv, Inside

LEMMA LockNext == TypeInv /\ LockInv /\ [Next]_vars => LockInv'
<1> SUFFICES ASSUME TypeInv, LockInv, [Next]_vars PROVE LockInv'
  OBVIOUS
<1> USE DEF TypeInv, LockInv, Goto, Inside, Paths, clientVars, lockVars, settingVars, recordVars, K, Row
<1>1. ASSUME NEW c \in Clients, Start(c) \/ Down(c) \/ Serve(c) \/ Activate(c) \/ Wake(c) \/ Kill(c)
      PROVE  LockInv'
  <2>1. CASE Start(c)
    BY <2>1 DEF Start
  <2>2. CASE Call(c)
    BY <2>2 DEF Call
  <2>3. CASE Down(c)
    BY <2>3 DEF Down
  <2>5. CASE Handle(c)
    BY <2>5 DEF Handle, Take
  <2>6. CASE SetTest(c)
    BY <2>6 DEF SetTest, Take
  <2>7. CASE SetBusy(c)
    BY <2>7 DEF SetBusy, Answer
  <2>8. CASE SetCopy(c)
    BY <2>8 DEF SetCopy, Copy
  <2>9. CASE SetAssign(c)
    BY <2>9 DEF SetAssign, Answer, Copied
  <2>10. CASE GetRead(c)
    BY <2>10 DEF GetRead, Copy
  <2>11. CASE GetShow(c)
    BY <2>11 DEF GetShow, Answer, Copied
  <2>12. CASE Gather(c)
    BY <2>12 DEF Gather
  <2>13. CASE GatherInvalid(c)
    BY <2>13 DEF GatherInvalid, Answer
  <2>14. CASE Backup(c)
    BY <2>14 DEF Backup
  <2>15. CASE CopyOut(c)
    BY <2>15 DEF CopyOut, Answer
  <2>16. CASE BackSet(c)
    BY <2>16 DEF BackSet
  <2>17. CASE BackEnd(c)
    BY <2>17 DEF BackEnd, End
  <2>18. CASE BackDump(c)
    <3>1. End(c) \/ (UNCHANGED <<cmd, way, ret, val, seen, fresh>>
                     /\ (Goto(c, "asleep") \/ Goto(c, "call")))
      BY <2>18 DEF BackDump
    <3>2. pc[c] = "back" /\ IsDump(c) /\ UNCHANGED <<lockVars, settingVars>>
      BY <2>18 DEF BackDump
    <3>3. CASE End(c)
      BY <3>2, <3>3 DEF End
    <3>4. CASE Goto(c, "asleep") \/ Goto(c, "call")
      BY <3>1, <3>2, <3>4 DEF End, IsDump
    <3> QED BY <3>1, <3>3, <3>4
  <2>19. CASE Activate(c)
    BY <2>19 DEF Activate, End
  <2>20. CASE Wake(c)
    BY <2>20 DEF Wake
  <2>21. CASE Kill(c)
    BY <2>21 DEF Kill, End
  <2> QED BY <1>1, <2>1, <2>2, <2>3, <2>5, <2>6, <2>7, <2>8, <2>9, <2>10, <2>11,
            <2>12, <2>13, <2>14, <2>15, <2>16, <2>17, <2>18, <2>19, <2>20, <2>21
         DEF Serve
<1>2. CASE Deactivate \/ Switch \/ Emit
  BY <1>2 DEF Deactivate, Switch, Emit
<1>3. CASE UNCHANGED vars
  BY <1>3 DEF vars
<1> QED BY <1>1, <1>2, <1>3 DEF Next

\* Nobody else uses a copy of the settings that is shared.
LEMMA Alone ==
  ASSUME TypeInv, LockInv, TrueGet(mon), NEW c \in Clients, NEW d \in Clients,
         pc[c] \in {"copy", "assign", "read", "show"},
         pc[d] \in {"copy", "assign", "read", "show"},
         way[c] = way[d], way[c] \in K.shared
  PROVE  c = d
<1> USE DEF TypeInv, Inside, Paths
<1>1. CASE way[c] = "syscall"
  BY <1>1 DEF LockInv
<1>2. CASE way[c] = "ioctl"
  <2>1. "ioctl" \in K.locked /\ "get" \in K.locks /\ ("set" \in K.locks \/ K.late)
    BY <1>2, RowIsFine DEF Fine, Guarded, Row, K
  <2>2. ASSUME NEW e \in Clients, pc[e] \in {"copy", "assign", "read", "show"}, way[e] = "ioctl"
        PROVE  own = e
    BY <2>1, <2>2 DEF LockInv
  <2> QED BY <1>2, <2>2
<1> QED BY <1>1, <1>2

-----------------------------------------------------------------------------
(* What a request for the settings has seen.                               *)

\* A copy that is read was made while the client held its place.
SeenInv ==
  TrueGet(mon) =>
    \A c \in Clients :
      /\ pc[c] \in Inside \cup {"down"} => setting \in seen[c]
      /\ pc[c] = "assign" => Copied(c) = val[c]
      /\ pc[c] = "show" => Copied(c) \in seen[c]
      /\ cmd[c] = "get" /\ pc[c] \in {"call", "down", "handle", "read", "show"}
           => ret[c] = "nosys"
      /\ pc[c] = "back" /\ cmd[c] = "get" /\ ret[c] = "ok" => fresh[c] /\ val[c] \in seen[c]

LEMMA SeenInit == Init => SeenInv
BY DEF Init, SeenInv, Inside

LEMMA SeenNext == TypeInv /\ LockInv /\ SeenInv /\ [Next]_vars => SeenInv'
<1> SUFFICES ASSUME TypeInv, LockInv, SeenInv, [Next]_vars PROVE SeenInv'
  OBVIOUS
<1> USE DEF TypeInv, SeenInv, Goto, Inside, Paths, clientVars, lockVars, settingVars, recordVars, Copied, K, Row
<1>1. ASSUME NEW c \in Clients, Start(c) \/ Down(c) \/ Serve(c) \/ Activate(c) \/ Wake(c) \/ Kill(c)
      PROVE  SeenInv'
  <2>1. CASE Start(c)
    BY <2>1, RowIsFine DEF Start, AnyOf, First, Fine, Row
  <2>2. CASE Call(c)
    BY <2>2, RowIsFine DEF Call, First, Fine, Row
  <2>3. CASE Down(c)
    BY <2>3 DEF Down
  <2>5. CASE Handle(c)
    BY <2>5 DEF Handle, Take
  <2>6. CASE SetTest(c)
    BY <2>6 DEF SetTest, Take
  <2>7. CASE SetBusy(c)
    BY <2>7 DEF SetBusy, Answer
  <2>8. CASE SetCopy(c)
    BY <2>8, Alone DEF SetCopy, Copy
  <2>9. CASE SetAssign(c)
    BY <2>9 DEF SetAssign, Answer, Copied
  <2>10. CASE GetRead(c)
    BY <2>10, Alone DEF GetRead, Copy
  <2>11. CASE GetShow(c)
    BY <2>11 DEF GetShow, Answer, Copied
  <2>12. CASE Gather(c)
    BY <2>12 DEF Gather
  <2>13. CASE GatherInvalid(c)
    BY <2>13 DEF GatherInvalid, Answer
  <2>14. CASE Backup(c)
    BY <2>14 DEF Backup
  <2>15. CASE CopyOut(c)
    BY <2>15 DEF CopyOut, Answer
  <2>16. CASE BackSet(c)
    BY <2>16 DEF BackSet
  <2>17. CASE BackEnd(c)
    BY <2>17 DEF BackEnd, End
  <2>18. CASE BackDump(c)
    <3>1. End(c) \/ (UNCHANGED <<cmd, way, ret, val, seen, fresh>>
                     /\ (Goto(c, "asleep") \/ Goto(c, "call")))
      BY <2>18 DEF BackDump
    <3>2. pc[c] = "back" /\ IsDump(c) /\ UNCHANGED <<lockVars, settingVars>>
      BY <2>18 DEF BackDump
    <3>3. CASE End(c)
      BY <3>2, <3>3 DEF End
    <3>4. CASE Goto(c, "asleep") \/ Goto(c, "call")
      BY <3>1, <3>2, <3>4 DEF End, IsDump
    <3> QED BY <3>1, <3>3, <3>4
  <2>19. CASE Activate(c)
    BY <2>19 DEF Activate, End
  <2>20. CASE Wake(c)
    BY <2>20 DEF Wake
  <2>21. CASE Kill(c)
    BY <2>21 DEF Kill, End
  <2> QED BY <1>1, <2>1, <2>2, <2>3, <2>5, <2>6, <2>7, <2>8, <2>9, <2>10, <2>11,
            <2>12, <2>13, <2>14, <2>15, <2>16, <2>17, <2>18, <2>19, <2>20, <2>21
         DEF Serve
<1>2. CASE Deactivate \/ Switch \/ Emit
  BY <1>2 DEF Deactivate, Switch, Emit
<1>3. CASE UNCHANGED vars
  BY <1>3 DEF vars
<1> QED BY <1>1, <1>2, <1>3 DEF Next

-----------------------------------------------------------------------------
(* What an active monitor runs with.                                       *)

\* SET assigns while the monitor is off, and the tool activates after it.
SettingInv ==
  TrueSet(mon) =>
    /\ pc[Operator] \in {"copy", "assign"} => ~active
    /\ cmd[Operator] = "set" /\ pc[Operator] \in {"call", "down", "handle", "test", "copy", "assign"}
         => ret[Operator] = "nosys"
    /\ pc[Operator] = "back" /\ cmd[Operator] = "set" /\ ret[Operator] = "ok"
         => setting = val[Operator]
    /\ pc[Operator] = "activate" \/ active => setting = asked

LEMMA SettingInit == Init => SettingInv
BY DEF Init, SettingInv

LEMMA SettingNext == TypeInv /\ SeenInv /\ SettingInv /\ [Next]_vars => SettingInv'
<1> SUFFICES ASSUME TypeInv, SeenInv, SettingInv, [Next]_vars PROVE SettingInv'
  OBVIOUS
<1> USE DEF TypeInv, SettingInv, Goto, Inside, Paths, clientVars, lockVars, settingVars, recordVars, K, Row
<1>1. ASSUME NEW c \in Clients, Start(c) \/ Down(c) \/ Serve(c) \/ Activate(c) \/ Wake(c) \/ Kill(c)
      PROVE  SettingInv'
  <2>1. CASE Start(c)
    BY <2>1, RowIsFine DEF Start, AnyOf, First, Fine, Row
  <2>2. CASE Call(c)
    BY <2>2, RowIsFine DEF Call, First, Fine, Row
  <2>3. CASE Down(c)
    BY <2>3 DEF Down
  <2>5. CASE Handle(c)
    BY <2>5 DEF Handle, Take
  <2>6. CASE SetTest(c)
    BY <2>6 DEF SetTest, Take
  <2>7. CASE SetBusy(c)
    BY <2>7 DEF SetBusy, Answer
  <2>8. CASE SetCopy(c)
    BY <2>8 DEF SetCopy, Copy
  <2>9. CASE SetAssign(c)
    BY <2>9, RowIsFine DEF SetAssign, Answer, SeenInv, Fine
  <2>10. CASE GetRead(c)
    BY <2>10 DEF GetRead, Copy
  <2>11. CASE GetShow(c)
    BY <2>11 DEF GetShow, Answer, Copied
  <2>12. CASE Gather(c)
    BY <2>12 DEF Gather
  <2>13. CASE GatherInvalid(c)
    BY <2>13 DEF GatherInvalid, Answer
  <2>14. CASE Backup(c)
    BY <2>14 DEF Backup
  <2>15. CASE CopyOut(c)
    BY <2>15 DEF CopyOut, Answer
  <2>16. CASE BackSet(c)
    BY <2>16 DEF BackSet
  <2>17. CASE BackEnd(c)
    BY <2>17 DEF BackEnd, End
  <2>18. CASE BackDump(c)
    <3>1. End(c) \/ (UNCHANGED <<cmd, way, ret, val, seen, fresh>>
                     /\ (Goto(c, "asleep") \/ Goto(c, "call")))
      BY <2>18 DEF BackDump
    <3>2. pc[c] = "back" /\ IsDump(c) /\ UNCHANGED <<lockVars, settingVars>>
      BY <2>18 DEF BackDump
    <3>3. CASE End(c)
      BY <3>2, <3>3 DEF End
    <3>4. CASE Goto(c, "asleep") \/ Goto(c, "call")
      BY <3>1, <3>2, <3>4 DEF End, IsDump
    <3> QED BY <3>1, <3>3, <3>4
  <2>19. CASE Activate(c)
    BY <2>19 DEF Activate, End
  <2>20. CASE Wake(c)
    BY <2>20 DEF Wake
  <2>21. CASE Kill(c)
    BY <2>21 DEF Kill, End
  <2> QED BY <1>1, <2>1, <2>2, <2>3, <2>5, <2>6, <2>7, <2>8, <2>9, <2>10, <2>11,
            <2>12, <2>13, <2>14, <2>15, <2>16, <2>17, <2>18, <2>19, <2>20, <2>21
         DEF Serve
<1>2. CASE Deactivate \/ Switch \/ Emit
  BY <1>2 DEF Deactivate, Switch, Emit
<1>3. CASE UNCHANGED vars
  BY <1>3 DEF vars
<1> QED BY <1>1, <1>2, <1>3 DEF Next

-----------------------------------------------------------------------------
(* Types of the answers.                                                   *)

\* The row of the monitor at hand.
LEMMA RowReports == ASSUME mon \in Monitors PROVE Reports(mon)
BY RowsReport, RequestsAssumption

\* The answers there are, and that a log is asked of a monitor that has one.
AnswerInv ==
  /\ hooked \in BOOLEAN /\ alloced \in BOOLEAN
  /\ ret \in [Clients -> {"ok", "one", "nosys", "busy", "inval"}]
  /\ \A c \in Clients : /\ cmd[c] \in Commands[c] \cup {"get"}
                        /\ cmd[c] = "log" => Row.log.kinds # {}

LEMMA AnswerInit == Init => AnswerInv
BY DEF Init, AnswerInv

LEMMA AnswerNext == TypeInv /\ AnswerInv /\ [Next]_vars => AnswerInv'
<1> SUFFICES ASSUME TypeInv, AnswerInv, [Next]_vars PROVE AnswerInv'
  OBVIOUS
<1> USE DEF TypeInv, AnswerInv, Goto, Inside, Paths, clientVars, lockVars, settingVars, recordVars,
            Row
<1>1. ASSUME NEW c \in Clients, Start(c) \/ Down(c) \/ Serve(c) \/ Activate(c) \/ Wake(c) \/ Kill(c)
      PROVE  AnswerInv'
  <2>1. CASE Start(c)
    <3>1. PICK k \in Commands[c] :
            /\ k = "log" => Row.log.kinds # {}
            /\ cmd' = [cmd EXCEPT ![c] = k]
            /\ \E r \in AnyOf(First(k)) : ret' = [ret EXCEPT ![c] = r]
      BY <2>1 DEF Start
    <3>6. PICK r \in AnyOf(First(k)) : ret' = [ret EXCEPT ![c] = r]
      BY <3>1
    <3>2. k \in {"set", "get", "dump", "log"}
      BY <3>1
    <3>3. First(k) \in Prepared
      <4>1. CASE k = "set"
        BY <4>1, RowReports DEF First, Reports, Row
      <4>2. CASE k = "get"
        BY <4>2, RowReports DEF First, Reports, Row
      <4>3. CASE k = "dump"
        BY <4>3, RowReports DEF First, Reports, Row
      <4>4. CASE k = "log"
        BY <4>4, RowReports DEF First, Reports, Row
      <4> QED BY <3>2, <4>1, <4>2, <4>3, <4>4
    <3>4. r \in {"ok", "one", "nosys"}
      BY <3>3, <3>6 DEF AnyOf, Prepared
    <3>5. UNCHANGED <<hooked, alloced, mon>>
      BY <2>1 DEF Start
    <3> QED BY <3>1, <3>4, <3>5, <3>6
  <2>2. CASE Call(c)
    BY <2>2 DEF Call
  <2>3. CASE Down(c)
    BY <2>3 DEF Down
  <2>5. CASE Handle(c)
    BY <2>5 DEF Handle, Take
  <2>6. CASE SetTest(c)
    BY <2>6 DEF SetTest, Take
  <2>7. CASE SetBusy(c)
    BY <2>7 DEF SetBusy, Answer
  <2>8. CASE SetCopy(c)
    BY <2>8 DEF SetCopy, Copy
  <2>9. CASE SetAssign(c)
    BY <2>9 DEF SetAssign, Answer, Copied
  <2>10. CASE GetRead(c)
    BY <2>10 DEF GetRead, Copy
  <2>11. CASE GetShow(c)
    BY <2>11 DEF GetShow, Answer, Copied
  <2>12. CASE Gather(c)
    BY <2>12 DEF Gather
  <2>13. CASE GatherInvalid(c)
    BY <2>13 DEF GatherInvalid, Answer
  <2>14. CASE Backup(c)
    BY <2>14 DEF Backup
  <2>15. CASE CopyOut(c)
    BY <2>15 DEF CopyOut, Answer
  <2>16. CASE BackSet(c)
    BY <2>16 DEF BackSet
  <2>17. CASE BackEnd(c)
    BY <2>17 DEF BackEnd, End
  <2>18. CASE BackDump(c)
    <3>1. End(c) \/ UNCHANGED <<cmd, way, ret, val, seen, fresh>>
      BY <2>18 DEF BackDump
    <3>2. UNCHANGED <<lockVars, settingVars>>
      BY <2>18 DEF BackDump
    <3> QED BY <3>1, <3>2 DEF End
  <2>19. CASE Activate(c)
    BY <2>19 DEF Activate, End
  <2>20. CASE Wake(c)
    BY <2>20 DEF Wake
  <2>21. CASE Kill(c)
    BY <2>21 DEF Kill, End
  <2> QED BY <1>1, <2>1, <2>2, <2>3, <2>5, <2>6, <2>7, <2>8, <2>9, <2>10, <2>11,
            <2>12, <2>13, <2>14, <2>15, <2>16, <2>17, <2>18, <2>19, <2>20, <2>21
         DEF Serve
<1>2. CASE Deactivate \/ Switch \/ Emit
  BY <1>2 DEF Deactivate, Switch, Emit
<1>3. CASE UNCHANGED vars
  BY <1>3 DEF vars
<1> QED BY <1>1, <1>2, <1>3 DEF Next

-----------------------------------------------------------------------------
(* What the tool may decode.                                               *)

\* A request for a report has not filled the array before it is answered, and once it
\* has, its answer is good.  Until then ret is not, where the tool prepares it.
DumpInv ==
  /\ \A c \in Clients : IsDump(c) =>
       /\ pc[c] \in {"down"} \cup Inside => ~fresh[c]
       /\ pc[c] = "back" /\ fresh[c] => ret[c] = "ok"
       /\ pc[c] = "asleep" => cmd[c] = "log"
  /\ TrueDump(mon) => \A c \in Clients :
       /\ cmd[c] = "dump" /\ pc[c] \in {"down"} \cup Inside => ret[c] # "ok"
       /\ cmd[c] = "dump" /\ pc[c] = "call" /\ Row.text.ret # "nosys" => ret[c] # "ok"
       /\ cmd[c] = "log" /\ pc[c] \in {"down"} \cup Inside /\ Row.log.ret = "nosys"
            => ret[c] # "ok"
       /\ IsDump(c) /\ pc[c] = "back" /\ ret[c] = "ok"
            => fresh[c] \/ (way[c] = "syscall" /\ cmd[c] = "log" /\ Row.log.ret # "nosys")

LEMMA DumpInit == Init => DumpInv
BY DEF Init, DumpInv, Inside, IsDump

LEMMA DumpNext == TypeInv /\ AnswerInv /\ DumpInv /\ [Next]_vars => DumpInv'
<1> SUFFICES ASSUME TypeInv, AnswerInv, DumpInv, [Next]_vars PROVE DumpInv'
  OBVIOUS
<1> USE DEF TypeInv, DumpInv, Goto, Inside, Paths, clientVars, lockVars, settingVars, recordVars,
            Row, K, IsDump
<1>1. ASSUME NEW c \in Clients, Start(c) \/ Down(c) \/ Serve(c) \/ Activate(c) \/ Wake(c) \/ Kill(c)
      PROVE  DumpInv'
  <2> USE DEF AnswerInv
  <2>1. CASE Start(c)
    <3>1. PICK k \in Commands[c] :
            /\ cmd' = [cmd EXCEPT ![c] = k]
            /\ \E r \in AnyOf(First(k)) : ret' = [ret EXCEPT ![c] = r]
      BY <2>1 DEF Start
    <3>4. PICK r \in AnyOf(First(k)) : ret' = [ret EXCEPT ![c] = r]
      BY <3>1
    <3>2. TrueDump(mon) /\ k = "dump" /\ Row.text.ret # "nosys" => r # "ok"
      BY <3>4, RowReports DEF AnyOf, First, Reports
    <3>3. pc[c] = "idle" /\ Goto(c, "call") /\ UNCHANGED <<fresh, mon>>
          /\ DOMAIN way' = Clients /\ \A d \in Clients \ {c} : way'[d] = way[d]
      BY <2>1 DEF Start
    <3> QED BY <3>1, <3>2, <3>3, <3>4
  <2>2. CASE Call(c)
    <3>1. IsDump(c) => First(cmd[c]) = IF cmd[c] = "dump" THEN Row.text.ret ELSE Row.log.ret
      BY DEF First
    <3>2. TrueDump(mon) /\ cmd[c] = "dump" => Row.text.ret \in {"nosys", "one"}
      BY RowReports DEF Reports
    <3>3. ret' = IF First(cmd[c]) = "nosys" THEN [ret EXCEPT ![c] = "nosys"] ELSE ret
      BY <2>2 DEF Call
    <3>4. /\ pc[c] = "call" /\ fresh' = [fresh EXCEPT ![c] = FALSE] /\ UNCHANGED <<cmd, way, mon>>
          /\ Goto(c, IF way[c] = "ioctl" THEN "handle" ELSE IF hooked THEN "down" ELSE "back")
      BY <2>2 DEF Call
    <3> QED BY <3>1, <3>2, <3>3, <3>4
  <2>3. CASE Down(c)
    BY <2>3 DEF Down
  <2>5. CASE Handle(c)
    BY <2>5 DEF Handle, Take
  <2>6. CASE SetTest(c)
    BY <2>6 DEF SetTest, Take
  <2>7. CASE SetBusy(c)
    BY <2>7 DEF SetBusy, Answer
  <2>8. CASE SetCopy(c)
    BY <2>8 DEF SetCopy, Copy
  <2>9. CASE SetAssign(c)
    BY <2>9 DEF SetAssign, Answer, Copied
  <2>10. CASE GetRead(c)
    BY <2>10 DEF GetRead, Copy
  <2>11. CASE GetShow(c)
    BY <2>11 DEF GetShow, Answer, Copied
  <2>12. CASE Gather(c)
    BY <2>12 DEF Gather
  <2>13. CASE GatherInvalid(c)
    BY <2>13 DEF GatherInvalid, Answer
  <2>14. CASE Backup(c)
    BY <2>14 DEF Backup
  <2>15. CASE CopyOut(c)
    BY <2>15 DEF CopyOut, Answer
  <2>16. CASE BackSet(c)
    BY <2>16 DEF BackSet
  <2>17. CASE BackEnd(c)
    BY <2>17 DEF BackEnd, End
  <2>18. CASE BackDump(c)
    <3>1. pc[c] = "back" /\ IsDump(c) /\ UNCHANGED <<lockVars, settingVars>>
      BY <2>18 DEF BackDump
    <3>2. CASE End(c)
      BY <3>1, <3>2 DEF End
    <3>3. CASE ~End(c)
      <4>1. /\ Form(c).again /\ UNCHANGED <<cmd, way, ret, fresh>>
            /\ Goto(c, IF cmd[c] = "log" THEN "asleep" ELSE "call")
        BY <2>18, <3>3 DEF BackDump
      <4>2. TrueDump(mon) /\ cmd[c] = "dump" => Row.text.ret = "nosys"
        BY <4>1, RowReports DEF Form, Reports
      <4> QED BY <3>1, <4>1, <4>2
    <3> QED BY <3>2, <3>3
  <2>19. CASE Activate(c)
    BY <2>19 DEF Activate, End
  <2>20. CASE Wake(c)
    BY <2>20 DEF Wake
  <2>21. CASE Kill(c)
    BY <2>21 DEF Kill, End
  <2> QED BY <1>1, <2>1, <2>2, <2>3, <2>5, <2>6, <2>7, <2>8, <2>9, <2>10, <2>11,
            <2>12, <2>13, <2>14, <2>15, <2>16, <2>17, <2>18, <2>19, <2>20, <2>21
         DEF Serve
<1>2. CASE Deactivate \/ Switch \/ Emit
  BY <1>2 DEF Deactivate, Switch, Emit
<1>3. CASE UNCHANGED vars
  BY <1>3 DEF vars
<1> QED BY <1>1, <1>2, <1>3 DEF Next

-----------------------------------------------------------------------------
(* Where the records are.                                                  *)

\* A client that holds a report which it has not looked at yet.
Reporting(c) == IsDump(c) /\ fresh[c] /\ pc[c] = "back"
\* What a list holds, whether without repetition, what c holds, and what was shown.
Held(s) == {s[n] : n \in DOMAIN s}
Apart(s) == \A n, k \in DOMAIN s : s[n] = s[k] => n = k
Mine(c) == IF Reporting(c) THEN Held(out[c]) ELSE {}
Done == {i \in DOMAIN done : done[i] # 0}

\* Types of the records and of the lists of them; the buffer holds two.
StoreInv ==
  /\ made \in Seq(SUBSET Media) /\ Len(made) <= MaxRecords
  /\ buffer \in Seq(Records) /\ Len(buffer) <= 2
  /\ product \in Seq(Records) /\ Len(product) <= 2
  /\ gone \subseteq Records /\ crossed \subseteq Paths
  /\ done \in [1..MaxRecords -> Nat]
  /\ out \in [Clients -> Seq(Records)]

\* Nobody takes or gives records.
Quiet ==
  /\ UNCHANGED recordVars /\ Copying' = Copying /\ out' \in [Clients -> Seq(Records)]
  /\ \A d \in Clients : /\ Reporting(d)' <=> Reporting(d)
                        /\ Reporting(d) => out'[d] = out[d]

\* Only DUMP, the answer to it and the handlers of the monitor do.
LEMMA Quietly ==
  ASSUME TypeInv, DumpInv, StoreInv, [Next]_vars
  PROVE  \/ Quiet
         \/ \E c \in Clients : Gather(c) \/ Backup(c) \/ CopyOut(c) \/ BackDump(c)
         \/ Emit
<1> USE DEF Goto, clientVars, lockVars, settingVars, recordVars
<1>0. /\ pc \in [Clients -> Inside \cup {"idle", "call", "down", "back", "activate", "asleep"}]
      /\ DOMAIN cmd = Clients /\ DOMAIN fresh = Clients /\ out \in [Clients -> Seq(Records)]
      /\ <<>> \in Seq(Records)
      /\ \A c \in Clients :
           /\ pc[c] \in {"test", "copy", "assign", "activate"} => ~IsDump(c)
           /\ pc[c] \in {"read", "show"} => ~IsDump(c)
           /\ IsDump(c) /\ pc[c] \in {"down"} \cup Inside => ~fresh[c]
  BY DEF TypeInv, StoreInv, DumpInv, IsDump
<1>1. ASSUME NEW c \in Clients, Start(c) \/ Down(c) \/ Serve(c) \/ Activate(c) \/ Wake(c) \/ Kill(c),
             ~(Gather(c) \/ Backup(c) \/ CopyOut(c) \/ BackDump(c))
      PROVE  Quiet
  <2> USE <1>0 DEF Quiet, Reporting, Copying, IsDump, Inside
  <2>1. CASE Start(c)
    BY <2>1 DEF Start
  <2>2. CASE Call(c)
    <3>1. /\ UNCHANGED recordVars /\ cmd' = cmd /\ pc[c] = "call"
          /\ fresh' = [fresh EXCEPT ![c] = FALSE]
          /\ \E p \in {"handle", "down", "back"} : pc' = [pc EXCEPT ![c] = p]
      BY <2>2 DEF Call
    <3>2. out' = out \/ out' = [out EXCEPT ![c] = <<>>]
      BY <2>2 DEF Call
    <3>3. out' \in [Clients -> Seq(Records)] /\ \A d \in Clients \ {c} : out'[d] = out[d]
      BY ZenonT(30), <3>2
    <3>4. Copying' = Copying
      BY <3>1
    <3>5. ~Reporting(c) /\ ~Reporting(c)'
      BY <3>1
    <3>6. \A d \in Clients \ {c} : Reporting(d)' <=> Reporting(d)
      BY <3>1
    <3> QED BY <3>1, <3>3, <3>4, <3>5, <3>6
  <2>3. CASE Down(c)
    BY <2>3 DEF Down
  <2>5. CASE Handle(c)
    BY <2>5 DEF Handle, Take
  <2>6. CASE SetTest(c)
    BY <2>6 DEF SetTest, Take
  <2>7. CASE SetBusy(c)
    BY <2>7 DEF SetBusy, Answer
  <2>8. CASE SetCopy(c)
    BY <2>8 DEF SetCopy, Copy
  <2>9. CASE SetAssign(c)
    BY <2>9 DEF SetAssign, Answer, Copied
  <2>10. CASE GetRead(c)
    BY <2>10 DEF GetRead, Copy
  <2>11. CASE GetShow(c)
    BY <2>11 DEF GetShow, Answer, Copied
  <2>13. CASE GatherInvalid(c)
    BY <2>13 DEF GatherInvalid, Answer
  <2>16. CASE BackSet(c)
    BY <2>16 DEF BackSet
  <2>17. CASE BackEnd(c)
    BY <2>17 DEF BackEnd, End
  <2>19. CASE Activate(c)
    BY <2>19 DEF Activate, End
  <2>20. CASE Wake(c)
    BY <2>20 DEF Wake
  <2>21. CASE Kill(c)
    BY <2>21 DEF Kill, End
  <2> QED BY <1>1, <2>1, <2>2, <2>3, <2>5, <2>6, <2>7, <2>8, <2>9, <2>10, <2>11,
            <2>13, <2>16, <2>17, <2>19, <2>20, <2>21
         DEF Serve
<1>2. CASE Deactivate \/ Switch
  BY <1>0, <1>2 DEF Deactivate, Switch, Quiet, Reporting, Copying, IsDump
<1>3. CASE UNCHANGED vars
  BY <1>0, <1>3 DEF vars, Quiet, Reporting, Copying, IsDump
<1> QED BY <1>1, <1>2, <1>3 DEF Next

\* A record is added at the end of the buffer, with a number of its own.
LEMMA Written ==
  ASSUME StoreInv, NEW kind \in Kinds(Row), NEW m, m = Len(made) + 1, Write(m, kind)
  PROVE  /\ made' \in Seq(SUBSET Media) /\ Len(made') <= MaxRecords
         /\ Records' = Records \cup {m} /\ m \notin Records /\ m \in 1..MaxRecords
         /\ \A i \in Records : made'[i] = made[i]
         /\ made'[m] = kind
         /\ buffer' \in Seq(Records \cup {m}) /\ Len(buffer') <= 2
         /\ Held(buffer') = Held(buffer) \cup {m}
         /\ Apart(buffer) => Apart(buffer')
<1>1. /\ made' = Append(made, kind) /\ buffer' = Append(buffer, m)
      /\ Len(made) < MaxRecords /\ Len(buffer) < 2
  BY DEF Write
<1>2. kind \in SUBSET Media
  BY DEF Kinds, Shown
<1>3. /\ made' \in Seq(SUBSET Media) /\ Len(made') = m /\ Len(made) \in Nat /\ m \in 1..MaxRecords
      /\ \A i \in 1..Len(made) : made'[i] = made[i]
      /\ made'[m] = kind
  BY <1>1, <1>2 DEF StoreInv
<1>4. Records' = Records \cup {m} /\ m \notin Records
  BY <1>3 DEF Records
<1>5. PICK R : R = Records
  OBVIOUS
<1>6. buffer \in Seq(R)
  BY <1>5 DEF StoreInv
<1>7. buffer' \in Seq(R \cup {m}) /\ Len(buffer') <= 2
  BY <1>1, <1>6
<1>8. /\ DOMAIN buffer = 1..Len(buffer) /\ DOMAIN buffer' = 1..Len(buffer) + 1 /\ Len(buffer) \in Nat
      /\ \A n \in DOMAIN buffer : buffer'[n] = buffer[n] /\ buffer[n] \in R
      /\ buffer'[Len(buffer) + 1] = m
  BY <1>1, <1>6
<1>9. Held(buffer') = Held(buffer) \cup {m}
  <2>1. DOMAIN buffer' = DOMAIN buffer \cup {Len(buffer) + 1}
    BY <1>8
  <2> QED BY <1>8, <2>1 DEF Held
<1>10. Apart(buffer) => Apart(buffer')
  <2>1. DOMAIN buffer' = DOMAIN buffer \cup {Len(buffer) + 1} /\ m \notin R
    BY <1>4, <1>5, <1>8
  <2> QED BY <1>8, <2>1 DEF Apart
<1>11. buffer' \in Seq(Records \cup {m})
  BY <1>5, <1>7, Zenon
<1>12. made' \in Seq(SUBSET Media) /\ Len(made') <= MaxRecords
  BY <1>1, <1>3
<1>13. \A i \in Records : made'[i] = made[i]
  BY <1>3 DEF Records
<1> QED BY <1>3, <1>4, <1>7, <1>9, <1>10, <1>11, <1>12, <1>13

\* A list over a set is one over a larger set.
LEMMA SeqGrows == ASSUME NEW R, NEW S, R \subseteq S, NEW s \in Seq(R) PROVE s \in Seq(S)
OBVIOUS

\* The beginning of a list without repetition.
LEMMA Prefix ==
  ASSUME NEW R, NEW s \in Seq(R), NEW n \in 0..Len(s)
  PROVE  LET t == SubSeq(s, 1, n)
             u == {s[i] : i \in n + 1 .. Len(s)}
         IN /\ t \in Seq(R) /\ u \subseteq R /\ Held(s) = Held(t) \cup u
            /\ n = Len(s) => u = {}
            /\ Apart(s) => Apart(t) /\ Held(t) \cap u = {}
<1> DEFINE t == SubSeq(s, 1, n)
           u == {s[i] : i \in n + 1 .. Len(s)}
<1>1. /\ t \in Seq(R) /\ DOMAIN t = 1..n /\ DOMAIN s = 1..Len(s) /\ Len(s) \in Nat
      /\ \A i \in 1..n : t[i] = s[i] /\ i \in DOMAIN s
  OBVIOUS
<1>2. \A i \in DOMAIN s : s[i] \in R
  OBVIOUS
<1>8. PICK k \in Nat : k = Len(s)
  BY <1>1
<1>9. n \in 0..k => /\ n + 1 .. k \subseteq 1..k
                    /\ \A i \in 1..k : i \in 1..n \/ i \in n + 1 .. k
                    /\ \A i \in 1..n, j \in n + 1 .. k : i # j
                    /\ 1..n \subseteq 1..k
                    /\ n = k => n + 1 .. k = {}
  OBVIOUS
<1>3. /\ n + 1 .. Len(s) \subseteq DOMAIN s /\ (n = Len(s) => n + 1 .. Len(s) = {})
      /\ \A i \in DOMAIN s : i \in 1..n \/ i \in n + 1 .. Len(s)
      /\ \A i \in 1..n, j \in n + 1 .. Len(s) : i # j
  <2>1. n \in 0..k
    BY <1>8
  <2>2. DOMAIN s = 1..k
    BY <1>1, <1>8
  <2>3. n + 1 .. Len(s) = n + 1 .. k
    BY <1>8
  <2>4. n = Len(s) => n + 1 .. Len(s) = {}
    BY <1>8, <1>9, <2>1, <2>3
  <2>5. n + 1 .. k \subseteq 1..k
    BY <1>9, <2>1
  <2>6. \A i \in 1..k : i \in 1..n \/ i \in n + 1 .. k
    BY <1>9, <2>1
  <2>7. \A i \in 1..n, j \in n + 1 .. k : i # j
    BY <1>9, <2>1
  <2> QED BY <2>2, <2>3, <2>4, <2>5, <2>6, <2>7, Zenon
<1> HIDE DEF t
<1>4. u \subseteq R
  BY <1>2, <1>3
<1>5. Held(s) = Held(t) \cup u
  BY <1>1, <1>3 DEF Held
<1>6. n = Len(s) => u = {}
  BY <1>3
<1>7. Apart(s) => Apart(t) /\ Held(t) \cap u = {}
  <2> SUFFICES ASSUME Apart(s) PROVE Apart(t) /\ Held(t) \cap u = {}
    OBVIOUS
  <2>1. Apart(t)
    BY <1>1 DEF Apart
  <2>2. ASSUME NEW i \in 1..n, NEW j \in n + 1 .. Len(s) PROVE s[i] # s[j]
    <3>1. i \in DOMAIN s /\ j \in DOMAIN s /\ i # j
      BY <1>1, <1>3
    <3> QED BY <3>1 DEF Apart
  <2>3. Held(t) \cap u = {}
    BY <1>1, <2>2 DEF Held
  <2> QED BY <2>1, <2>3
<1> QED BY <1>1, <1>4, <1>5, <1>6, <1>7 DEF t

-----------------------------------------------------------------------------
(* What the actions on records do.                                         *)

\* The clients hold what they held.
Keeping ==
  /\ UNCHANGED out
  /\ \A d \in Clients : Reporting(d)' <=> Reporting(d)

\* A record is made, or not, and DUMP goes on to the backup.
LEMMA Adding ==
  ASSUME TypeInv, StoreInv, (\E c \in Clients : Gather(c)) \/ Emit
  PROVE  /\ \/ \E kind \in Kinds(Row) : Write(Len(made) + 1, kind)
            \/ UNCHANGED <<made, buffer>>
         /\ Keeping /\ Copying' = Copying /\ UNCHANGED <<product, done, gone, crossed, mon>>
<1> USE DEF Goto, clientVars, lockVars, settingVars, Keeping, Reporting, Copying, IsDump
<1>1. pc \in [Clients -> Inside \cup {"idle", "call", "down", "back", "activate", "asleep"}]
  BY DEF TypeInv
<1>2. ASSUME NEW c \in Clients, Gather(c)
      PROVE  Keeping /\ Copying' = Copying
  BY <1>1, <1>2 DEF Gather
<1>3. CASE Emit
  BY <1>3 DEF Emit
<1>4. CASE \E c \in Clients : Gather(c)
  BY <1>2, <1>4 DEF Gather
<1> QED BY <1>3, <1>4

\* The backup takes over the whole buffer; while another DUMP copies, their paths cross.
LEMMA BackupDoes ==
  ASSUME TypeInv, StoreInv, NEW c \in Clients, Backup(c)
  PROVE  /\ product' = buffer /\ buffer' = <<>> /\ Keeping /\ Copying' = Copying \cup {c}
         /\ c \notin Copying /\ UNCHANGED <<made, done, gone, mon>>
         /\ Copying = {} => crossed' = crossed
         /\ Copying # {} => crossed' = crossed \cup {way[d] : d \in Copying \cup {c}}
<1> USE DEF Goto, clientVars, lockVars, settingVars, Keeping, Reporting, Copying, IsDump
<1>1. pc \in [Clients -> Inside \cup {"idle", "call", "down", "back", "activate", "asleep"}]
  BY DEF TypeInv
<1>2. pc[c] = "backup" /\ Goto(c, "copyout") /\ UNCHANGED <<cmd, fresh, out>>
  BY DEF Backup
<1>3. Keeping /\ Copying' = Copying \cup {c} /\ c \notin Copying
  BY <1>1, <1>2
<1> QED BY <1>3 DEF Backup

\* The report that c gets, and the rest that is cut off.
LEMMA CopyOutDoes ==
  ASSUME TypeInv, StoreInv, NEW c \in Clients, CopyOut(c)
  PROVE  /\ \E n \in 0..Len(product) :
              /\ Fits(Form(c), way[c], Len(product)) => n = Len(product)
              /\ out' = [out EXCEPT ![c] = SubSeq(product, 1, n)]
              /\ gone' = gone \cup {product[i] : i \in n + 1 .. Len(product)}
         /\ c \in Copying /\ Copying' = Copying \ {c}
         /\ product' = IF Copying = {c} THEN <<>> ELSE product
         /\ ~Reporting(c) /\ Reporting(c)'
         /\ \A d \in Clients \ {c} : Reporting(d)' <=> Reporting(d)
         /\ UNCHANGED <<made, buffer, done, crossed, mon>>
<1> USE DEF Goto, clientVars, lockVars, settingVars, Reporting, Copying, IsDump
<1>1. pc \in [Clients -> Inside \cup {"idle", "call", "down", "back", "activate", "asleep"}]
      /\ fresh \in [Clients -> BOOLEAN]
      /\ (pc[c] = "copyout" => cmd[c] \in {"dump", "log"})
  BY DEF TypeInv
<1>2. pc[c] = "copyout" /\ Goto(c, "back") /\ fresh' = [fresh EXCEPT ![c] = TRUE]
      /\ UNCHANGED cmd
  BY DEF CopyOut, Answer
<1>3. /\ c \in Copying /\ Copying' = Copying \ {c}
      /\ ~Reporting(c) /\ Reporting(c)'
      /\ \A d \in Clients \ {c} : Reporting(d)' <=> Reporting(d)
  BY <1>1, <1>2
<1>4. UNCHANGED <<made, buffer, done, crossed, mon>>
      /\ product' = IF Copying = {c} THEN <<>> ELSE product
  BY DEF CopyOut
<1>5. \E n \in 0..Len(product) :
        /\ Fits(Form(c), way[c], Len(product)) => n = Len(product)
        /\ out' = [out EXCEPT ![c] = SubSeq(product, 1, n)]
        /\ gone' = gone \cup {product[i] : i \in n + 1 .. Len(product)}
  BY DEF CopyOut
<1> QED BY <1>3, <1>4, <1>5

\* What c shows of its report, and the rest that is not shown.
Shows(c) ==
  LET medium == IF cmd[c] = "log" THEN "log" ELSE "text"
  IN  IF Decodes(c) THEN {i \in Held(out[c]) : medium \in made[i]} ELSE {}

\* The client shows its report, and the rest of it is lost.
LEMMA BackDumpDoes ==
  ASSUME TypeInv, StoreInv, NEW c \in Clients, BackDump(c)
  PROVE  /\ \/ /\ Reporting(c)
               /\ done' = [i \in DOMAIN done |->
                             IF i \in Shows(c) THEN done[i] + Times(c) ELSE done[i]]
               /\ gone' = gone \cup (Held(out[c]) \ Shows(c))
            \/ ~Reporting(c) /\ UNCHANGED <<done, gone>>
         /\ ~Reporting(c)' /\ out' \in [Clients -> Seq(Records)]
         /\ \A d \in Clients \ {c} : (Reporting(d)' <=> Reporting(d)) /\ out'[d] = out[d]
         /\ Copying' = Copying /\ UNCHANGED <<made, buffer, product, crossed, mon>>
<1> USE DEF Goto, clientVars, lockVars, settingVars, Reporting, Copying, IsDump
<1>1. /\ pc \in [Clients -> Inside \cup {"idle", "call", "down", "back", "activate", "asleep"}]
      /\ DOMAIN cmd = Clients /\ DOMAIN fresh = Clients /\ out \in [Clients -> Seq(Records)]
      /\ <<>> \in Seq(Records)
  BY DEF TypeInv, StoreInv
<1>2. pc[c] = "back" /\ IsDump(c) /\ UNCHANGED <<made, buffer, product, crossed, mon>>
  BY DEF BackDump
<1>3. End(c) \/ (UNCHANGED <<cmd, fresh, out>> /\ (Goto(c, "asleep") \/ Goto(c, "call")))
  BY DEF BackDump
<1>4. CASE End(c)
  <2>1. /\ ~Reporting(c)' /\ out' \in [Clients -> Seq(Records)]
        /\ \A d \in Clients \ {c} : (Reporting(d)' <=> Reporting(d)) /\ out'[d] = out[d]
        /\ Copying' = Copying
    BY <1>1, <1>2, <1>4 DEF End
  <2> QED BY <1>2, <2>1 DEF BackDump, Shows, Held
<1>5. CASE UNCHANGED <<cmd, fresh, out>> /\ (Goto(c, "asleep") \/ Goto(c, "call"))
  <2>1. /\ ~Reporting(c)' /\ out' \in [Clients -> Seq(Records)]
        /\ \A d \in Clients \ {c} : (Reporting(d)' <=> Reporting(d)) /\ out'[d] = out[d]
        /\ Copying' = Copying
    BY <1>1, <1>2, <1>5
  <2> QED BY <1>2, <2>1 DEF BackDump, Shows, Held
<1> QED BY <1>3, <1>4, <1>5

-----------------------------------------------------------------------------
(* The types of what is kept.                                              *)

LEMMA StoreInit == Init => StoreInv
<1> SUFFICES ASSUME Init PROVE StoreInv
  OBVIOUS
<1>1. made = <<>> /\ buffer = <<>> /\ product = <<>> /\ gone = {} /\ crossed = {}
      /\ done = [i \in 1 .. MaxRecords |-> 0] /\ out = [c \in Clients |-> <<>>]
  BY DEF Init
<1>2. \A S : <<>> \in Seq(S)
  OBVIOUS
<1>3. Len(<<>>) = 0
  OBVIOUS
<1> QED BY <1>1, <1>2, <1>3 DEF StoreInv

LEMMA StoreNext == TypeInv /\ DumpInv /\ StoreInv /\ [Next]_vars => StoreInv'
<1> SUFFICES ASSUME TypeInv, DumpInv, StoreInv, [Next]_vars PROVE StoreInv'
  OBVIOUS
<1>0. /\ made \in Seq(SUBSET Media) /\ Len(made) <= MaxRecords
      /\ buffer \in Seq(Records) /\ Len(buffer) <= 2
      /\ product \in Seq(Records) /\ Len(product) <= 2
      /\ gone \subseteq Records /\ crossed \subseteq Paths
      /\ done \in [1..MaxRecords -> Nat]
      /\ out \in [Clients -> Seq(Records)]
      /\ <<>> \in Seq(Records) /\ Len(<<>>) <= 2
  BY DEF StoreInv
<1>1. CASE Quiet
  <2>1. Records' = Records
    BY <1>1 DEF Quiet, recordVars, Records
  <2> QED BY <1>0, <1>1, <2>1 DEF StoreInv, Quiet, recordVars
<1>2. CASE (\E c \in Clients : Gather(c)) \/ Emit
  <2>1. Keeping /\ UNCHANGED <<product, done, gone, crossed>>
    BY <1>2, Adding
  <2>2. CASE UNCHANGED <<made, buffer>>
    <3>1. Records' = Records
      BY <2>2 DEF Records
    <3> QED BY <1>0, <2>1, <2>2, <3>1 DEF StoreInv, Keeping
  <2>3. ASSUME NEW kind \in Kinds(Row), Write(Len(made) + 1, kind) PROVE StoreInv'
    <3>1. PICK m : m = Len(made) + 1
      OBVIOUS
    <3>2. /\ made' \in Seq(SUBSET Media) /\ Len(made') <= MaxRecords
          /\ Records' = Records \cup {m}
          /\ buffer' \in Seq(Records \cup {m}) /\ Len(buffer') <= 2
      BY <2>3, <3>1, Written
    <3>3. Records \subseteq Records \cup {m}
      OBVIOUS
    <3>4. \A s \in Seq(Records) : s \in Seq(Records \cup {m})
      BY <3>3, SeqGrows
    <3>5. out \in [Clients -> Seq(Records \cup {m})] /\ product \in Seq(Records \cup {m})
      BY <1>0, <3>4, Zenon
    <3> QED BY <1>0, <2>1, <3>2, <3>3, <3>5 DEF StoreInv, Keeping
  <2> QED BY <1>2, <2>2, <2>3, Adding
<1>3. ASSUME NEW c \in Clients, Backup(c) PROVE StoreInv'
  <2>1. product' = buffer /\ buffer' = <<>> /\ UNCHANGED <<made, done, gone, out>>
    BY <1>3, BackupDoes DEF Keeping
  <2>2. crossed' \subseteq Paths
    <3>1. \A d \in Copying \cup {c} : way[d] \in Paths
      BY DEF TypeInv, Copying
    <3>2. {way[d] : d \in Copying \cup {c}} \subseteq Paths
      BY <3>1
    <3>3. CASE Copying = {}
      BY <1>0, <1>3, <3>3, BackupDoes
    <3>4. CASE Copying # {}
      <4>1. crossed' = crossed \cup {way[d] : d \in Copying \cup {c}}
        BY <1>3, <3>4, BackupDoes
      <4> QED BY <1>0, <3>2, <4>1
    <3> QED BY <3>3, <3>4
  <2>3. Records' = Records
    BY <2>1 DEF Records
  <2> QED BY <1>0, <2>1, <2>2, <2>3 DEF StoreInv
<1>4. ASSUME NEW c \in Clients, CopyOut(c) PROVE StoreInv'
  <2>1. PICK n \in 0..Len(product) :
          /\ out' = [out EXCEPT ![c] = SubSeq(product, 1, n)]
          /\ gone' = gone \cup {product[i] : i \in n + 1 .. Len(product)}
    BY <1>4, CopyOutDoes
  <2>2. /\ UNCHANGED <<made, buffer, done, crossed>>
        /\ product' = IF Copying = {c} THEN <<>> ELSE product
    BY <1>4, CopyOutDoes
  <2>3. SubSeq(product, 1, n) \in Seq(Records) /\ {product[i] : i \in n + 1 .. Len(product)} \subseteq Records
    BY <1>0, Prefix
  <2>4. out' \in [Clients -> Seq(Records)] /\ gone' \subseteq Records
    BY <1>0, <2>1, <2>3, Zenon
  <2>5. Records' = Records
    BY <2>2 DEF Records
  <2> QED BY <1>0, <2>2, <2>4, <2>5 DEF StoreInv
<1>5. ASSUME NEW c \in Clients, BackDump(c) PROVE StoreInv'
  <2>1. UNCHANGED <<made, buffer, product, crossed>> /\ out' \in [Clients -> Seq(Records)]
    BY <1>5, BackDumpDoes
  <2>2. Times(c) \in Nat
    BY DEF Times
  <2>3. Held(out[c]) \subseteq Records
    BY <1>0 DEF Held
  <2>4. done' \in [1..MaxRecords -> Nat] /\ gone' \subseteq Records
    <3>1. CASE Reporting(c)
      <4>1. /\ done' = [i \in DOMAIN done |-> IF i \in Shows(c) THEN done[i] + Times(c) ELSE done[i]]
            /\ gone' = gone \cup (Held(out[c]) \ Shows(c))
        BY <1>5, <3>1, BackDumpDoes
      <4>2. gone' \subseteq Records
        BY <1>0, <2>3, <4>1
      <4>3. PICK P : P = Shows(c)
        OBVIOUS
      <4>4. done' \in [1..MaxRecords -> Nat]
        BY <1>0, <2>2, <4>1, <4>3
      <4> QED BY <4>2, <4>4
    <3>2. CASE ~Reporting(c)
      BY <1>0, <1>5, <3>2, BackDumpDoes
    <3> QED BY <3>1, <3>2
  <2>5. Records' = Records
    BY <2>1 DEF Records
  <2> QED BY <1>0, <2>1, <2>4, <2>5 DEF StoreInv
<1> QED BY <1>1, <1>2, <1>3, <1>4, <1>5, Quietly

-----------------------------------------------------------------------------
(* DUMPs that cross.                                                       *)

\* They hold neither the semaphore nor a mutex of the monitor, so one is an ioctl.
CrossInv ==
  crossed # {} =>
    "ioctl" \in crossed /\ mon \notin OwnMutex /\ (mon \in HalfMutex => crossed = Paths)

\* Requests are to one monitor.
LEMMA SameMonitor == [Next]_vars => mon' = mon
BY DEF Next, vars, lockVars, Start, Down, Serve, Activate, Wake, Kill, Deactivate, Switch, Emit,
       Call, Handle, SetTest, SetBusy, SetCopy, SetAssign, GetRead, GetShow, Gather,
       GatherInvalid, Backup, CopyOut, BackSet, BackEnd, BackDump

\* By the semaphore and the mutexes, as LockInv says.
LEMMA CrossNext ==
  TypeInv /\ LockInv /\ DumpInv /\ StoreInv /\ CrossInv /\ [Next]_vars => CrossInv'
<1> SUFFICES ASSUME TypeInv, LockInv, DumpInv, StoreInv, CrossInv, [Next]_vars
             PROVE  CrossInv'
  OBVIOUS
<1>1. CASE Quiet
  BY <1>1, SameMonitor DEF Quiet, recordVars, CrossInv
<1>2. CASE (\E c \in Clients : Gather(c)) \/ Emit
  BY <1>2, Adding DEF CrossInv
<1>3. ASSUME NEW c \in Clients, Backup(c) PROVE CrossInv'
  <2>1. CASE Copying = {}
    BY <1>3, <2>1, BackupDoes DEF CrossInv
  <2>2. CASE Copying # {}
    <3>1. PICK d \in Copying : TRUE
      BY <2>2
    <3>2. /\ crossed' = crossed \cup {way[e] : e \in Copying \cup {c}}
          /\ mon' = mon /\ c \notin Copying
      BY <1>3, <2>2, BackupDoes
    <3>3. /\ d \in Clients /\ d # c /\ pc[d] = "copyout" /\ pc[c] = "backup"
      BY <1>3, <3>1, <3>2 DEF Copying, Backup
    <3>4. "ioctl" \in {way[e] : e \in Copying \cup {c}}
      <4>1. way[c] \in Paths /\ way[d] \in Paths
        BY <3>3 DEF TypeInv
      <4>2. ~(way[c] = "syscall" /\ way[d] = "syscall")
        BY <3>3 DEF LockInv, Inside
      <4> QED BY <3>1, <4>1, <4>2 DEF Paths
    <3>5. /\ cmd[c] \in {"dump", "log"} /\ cmd[d] \in {"dump", "log"}
          /\ way[c] \in Paths /\ way[d] \in Paths
      BY <3>3 DEF TypeInv
    <3>6. ~(cmd[c] \in K.locks /\ way[c] \in K.locked /\ cmd[d] \in K.locks /\ way[d] \in K.locked)
      BY <3>3 DEF LockInv, Inside
    <3>7. /\ mon \in OwnMutex \cup HalfMutex =>
               "dump" \in K.locks /\ "log" \in K.locks /\ "ioctl" \in K.locked
          /\ mon \in OwnMutex => "syscall" \in K.locked
      BY RowReports DEF TypeInv, Reports, K, Row
    <3>8. mon \notin OwnMutex
      BY <3>5, <3>6, <3>7 DEF Paths
    <3>9. mon \in HalfMutex => crossed' = Paths
      <4>1. mon \in HalfMutex => way[c] = "syscall" \/ way[d] = "syscall"
        BY <3>5, <3>6, <3>7 DEF Paths
      <4>2. mon \in HalfMutex => "syscall" \in crossed'
        BY <3>1, <3>2, <4>1
      <4>3. {way[e] : e \in Copying \cup {c}} \subseteq Paths /\ crossed \subseteq Paths
        BY DEF TypeInv, StoreInv, Copying
      <4> QED BY <3>2, <3>4, <4>2, <4>3 DEF Paths
    <3> QED BY <3>2, <3>4, <3>8, <3>9 DEF CrossInv
  <2> QED BY <2>1, <2>2
<1>4. ASSUME NEW c \in Clients, CopyOut(c) PROVE CrossInv'
  BY <1>4, CopyOutDoes DEF CrossInv
<1>5. ASSUME NEW c \in Clients, BackDump(c) PROVE CrossInv'
  BY <1>5, BackDumpDoes DEF CrossInv
<1> QED BY <1>1, <1>2, <1>3, <1>4, <1>5, Quietly

-----------------------------------------------------------------------------
(* Reports that lose nothing.                                              *)

\* Each record is of a kind that the monitor writes; where the tool asks for all the
\* buffer holds, and shows every kind, none is lost.
RoomInv ==
  /\ \A i \in Records : made[i] \in Kinds(Row)
  /\ mon \in Roomy => gone = {}

\* How much room such a monitor's tool has, and what it shows.
LEMMA HasRoom ==
  ASSUME TypeInv, AnswerInv, mon \in Roomy, NEW c \in Clients, IsDump(c)
  PROVE  /\ \A n \in 0..2 : Fits(Form(c), way[c], n)
         /\ \A kind \in Row.text.kinds \cup K.extra : kind \in Form(c).kinds
<1>1. /\ K.half \in Nat /\ K.extra = {} /\ Room(K, Row.text, Row.text)
      /\ Row.log.kinds # {} => Room(K, Row.text, Row.log)
  BY RowReports DEF TypeInv, Reports, K, Row
<1>2. Room(K, Row.text, Form(c)) /\ way[c] \in Paths
  BY <1>1 DEF Form, IsDump, AnswerInv, TypeInv
<1>3. PICK h, r : h = K.half /\ r = Form(c).room[way[c]]
  OBVIOUS
<1>4. h \in Nat /\ r \in Nat /\ 2 * h <= r
  BY <1>1, <1>2, <1>3 DEF Room
<1>5. 0 * h <= r /\ 1 * h <= r /\ 2 * h <= r
  BY <1>4
<1>6. \A n \in 0..2 : n * h <= r
  <2>1. 0..2 = {0, 1, 2}
    OBVIOUS
  <2> QED BY <1>5, <2>1
<1> QED BY <1>1, <1>2, <1>3, <1>6 DEF Fits, Room

LEMMA RoomNext ==
  TypeInv /\ AnswerInv /\ DumpInv /\ StoreInv /\ RoomInv /\ [Next]_vars => RoomInv'
<1> SUFFICES ASSUME TypeInv, AnswerInv, DumpInv, StoreInv, RoomInv, [Next]_vars
             PROVE  RoomInv'
  OBVIOUS
<1>0. mon' = mon /\ Kinds(Row)' = Kinds(Row)
  BY SameMonitor DEF Kinds, Row, Shown
<1>1. CASE Quiet
  BY <1>0, <1>1 DEF Quiet, recordVars, RoomInv, Records
<1>2. CASE (\E c \in Clients : Gather(c)) \/ Emit
  <2>1. gone' = gone
    BY <1>2, Adding
  <2>2. CASE UNCHANGED <<made, buffer>>
    BY <1>0, <2>1, <2>2 DEF RoomInv, Records
  <2>3. ASSUME NEW kind \in Kinds(Row), Write(Len(made) + 1, kind) PROVE RoomInv'
    <3>1. PICK m : m = Len(made) + 1
      OBVIOUS
    <3>2. /\ Records' = Records \cup {m}
          /\ \A i \in Records : made'[i] = made[i]
          /\ made'[m] = kind
      BY <2>3, <3>1, Written
    <3> QED BY <1>0, <2>1, <3>2 DEF RoomInv
  <2> QED BY <1>2, <2>2, <2>3, Adding
<1>3. ASSUME NEW c \in Clients, Backup(c) PROVE RoomInv'
  BY <1>0, <1>3, BackupDoes DEF RoomInv, Records
<1>4. ASSUME NEW c \in Clients, CopyOut(c) PROVE RoomInv'
  <2>1. UNCHANGED made
    BY <1>4, CopyOutDoes
  <2>2. ASSUME mon \in Roomy PROVE gone' = {}
    <3>1. PICK n \in 0..Len(product) :
            /\ Fits(Form(c), way[c], Len(product)) => n = Len(product)
            /\ gone' = gone \cup {product[i] : i \in n + 1 .. Len(product)}
      BY <1>4, CopyOutDoes
    <3>2. IsDump(c)
      BY <1>4 DEF CopyOut, TypeInv, IsDump
    <3>3. Len(product) \in 0..2
      <4>1. PICK k : k = Len(product)
        OBVIOUS
      <4>2. k \in Nat /\ k <= 2
        BY <4>1 DEF StoreInv
      <4> QED BY <4>1, <4>2
    <3>4. n = Len(product)
      BY <2>2, <3>1, <3>2, <3>3, HasRoom
    <3>5. {product[i] : i \in n + 1 .. Len(product)} = {}
      BY <3>3, <3>4
    <3> QED BY <2>2, <3>1, <3>5 DEF RoomInv
  <2> QED BY <1>0, <2>1, <2>2 DEF RoomInv, Records
<1>5. ASSUME NEW c \in Clients, BackDump(c) PROVE RoomInv'
  <2>1. UNCHANGED made
    BY <1>5, BackDumpDoes
  <2>2. ASSUME mon \in Roomy, Reporting(c) PROVE Held(out[c]) \subseteq Shows(c)
    <3>1. PICK medium \in Media : medium = IF cmd[c] = "log" THEN "log" ELSE "text"
      BY DEF Media
    <3>2. Form(c) = Row[medium]
      BY <3>1 DEF Form, Row
    <3>3. IsDump(c) /\ pc[c] = "back" /\ fresh[c]
      BY <2>2 DEF Reporting
    <3>4. ASSUME NEW i \in Held(out[c]) PROVE medium \in made[i] /\ Decodes(c)
      <4>1. i \in Records /\ out[c] # <<>>
        BY <3>4 DEF StoreInv, Held
      <4>2. PICK kind \in Row.text.kinds \cup K.extra : made[i] = Shown(Row, kind)
        BY <4>1 DEF RoomInv, Kinds, K
      <4>3. kind \in Row[medium].kinds
        BY <2>2, <3>2, <3>3, <4>2, HasRoom
      <4>4. medium \in made[i]
        BY <4>2, <4>3 DEF Shown
      <4> QED BY <3>3, <4>1, <4>4 DEF Decodes, DumpInv
    <3>5. Shows(c) = IF Decodes(c) THEN {i \in Held(out[c]) : medium \in made[i]} ELSE {}
      BY <3>1 DEF Shows
    <3> QED BY <3>4, <3>5
  <2>3. mon \in Roomy => gone' = gone
    BY <1>5, <2>2, BackDumpDoes
  <2> QED BY <1>0, <2>1, <2>3 DEF RoomInv, Records
<1> QED BY <1>1, <1>2, <1>3, <1>4, <1>5, Quietly

-----------------------------------------------------------------------------
(* Each record is in one place.                                            *)

\* While no two DUMPs have used the backup together: the buffer, the backup of the only
\* one that copies, the reports that clients hold, what was lost and what was shown have
\* no record in common, and each record is in one of them.
OnceInv ==
  crossed = {} =>
    /\ \A c, d \in Copying : c = d
    /\ Copying = {} => product = <<>>
    /\ Apart(buffer) /\ Apart(product) /\ Held(buffer) \cap Held(product) = {}
    /\ \A c \in Clients :
         /\ Reporting(c) => Apart(out[c])
         /\ Mine(c) \cap (Held(buffer) \cup Held(product) \cup gone \cup Done) = {}
    /\ \A c, d \in Clients : c # d => Mine(c) \cap Mine(d) = {}
    /\ (gone \cup Done) \cap (Held(buffer) \cup Held(product)) = {}
    /\ gone \cap Done = {} /\ Done \subseteq Records
    /\ \A i \in Records : \/ i \in Held(buffer) \cup Held(product) \cup gone \cup Done
                          \/ \E c \in Clients : i \in Mine(c)
    /\ mon \notin Twice => \A i \in DOMAIN done : done[i] \in {0, 1}

LEMMA OnceInit == Init => OnceInv
<1> SUFFICES ASSUME Init PROVE OnceInv
  OBVIOUS
<1>1. made = <<>> /\ buffer = <<>> /\ product = <<>> /\ gone = {} /\ crossed = {}
      /\ done = [i \in 1 .. MaxRecords |-> 0] /\ Copying = {} /\ \A c \in Clients : ~Reporting(c)
  BY DEF Init, Copying, Reporting
<1>2. Held(<<>>) = {} /\ Apart(<<>>) /\ Done = {} /\ Records = {}
  BY <1>1 DEF Held, Apart, Done, Records
<1>3. \A c \in Clients : Mine(c) = {}
  BY <1>1 DEF Mine
<1> QED BY <1>1, <1>2, <1>3 DEF OnceInv

\* A client's report is its own as long as it keeps it.
LEMMA StillMine ==
  ASSUME NEW c \in Clients, Reporting(c)' <=> Reporting(c), Reporting(c) => out'[c] = out[c]
  PROVE  Mine(c)' = Mine(c)
BY DEF Mine, Held

LEMMA OnceNext ==
  TypeInv /\ DumpInv /\ StoreInv /\ OnceInv /\ [Next]_vars => OnceInv'
<1> SUFFICES ASSUME TypeInv, DumpInv, StoreInv, OnceInv, [Next]_vars, crossed' = {}
             PROVE  OnceInv'
  BY DEF OnceInv
<1>1. CASE Quiet
  <2>1. /\ UNCHANGED <<made, buffer, product, done, gone, crossed>> /\ Copying' = Copying
        /\ \A d \in Clients : (Reporting(d)' <=> Reporting(d)) /\ (Reporting(d) => out'[d] = out[d])
    BY <1>1 DEF Quiet, recordVars
  <2>2. \A d \in Clients : Mine(d)' = Mine(d)
    BY <2>1, StillMine
  <2>3. Records' = Records /\ Done' = Done /\ Held(buffer)' = Held(buffer)
        /\ Held(product)' = Held(product) /\ (Apart(buffer)' <=> Apart(buffer))
        /\ (Apart(product)' <=> Apart(product))
    BY <2>1 DEF Records, Done, Held, Apart
  <2>4. \A d \in Clients : Reporting(d)' => Reporting(d) /\ (Apart(out[d])' <=> Apart(out[d]))
    BY <2>1 DEF Apart
  <2> QED BY <2>1, <2>2, <2>3, <2>4, SameMonitor DEF OnceInv
<1>2. CASE (\E c \in Clients : Gather(c)) \/ Emit
  <2>1. Keeping /\ Copying' = Copying /\ UNCHANGED <<product, done, gone, crossed, mon>>
    BY <1>2, Adding
  <2>2. \A d \in Clients : Mine(d)' = Mine(d)
    BY <2>1, StillMine DEF Keeping
  <2>3. Done' = Done /\ Held(product)' = Held(product) /\ (Apart(product)' <=> Apart(product))
    BY <2>1 DEF Done, Held, Apart
  <2>4. \A d \in Clients : Reporting(d)' => Reporting(d) /\ (Apart(out[d])' <=> Apart(out[d]))
    BY <2>1 DEF Apart, Keeping
  <2>5. CASE UNCHANGED <<made, buffer>>
    <3>1. Records' = Records /\ Held(buffer)' = Held(buffer) /\ (Apart(buffer)' <=> Apart(buffer))
      BY <2>5 DEF Records, Held, Apart
    <3> QED BY <2>1, <2>2, <2>3, <2>4, <3>1 DEF OnceInv
  <2>6. ASSUME NEW kind \in Kinds(Row), Write(Len(made) + 1, kind) PROVE OnceInv'
    <3>1. PICK m : m = Len(made) + 1
      OBVIOUS
    <3>2. /\ Records' = Records \cup {m} /\ m \notin Records
          /\ Held(buffer)' = Held(buffer) \cup {m}
          /\ Apart(buffer) => Apart(buffer)'
      BY <2>6, <3>1, Written DEF Held, Apart
    <3>3. m \notin Held(product) /\ m \notin gone /\ \A c \in Clients : m \notin Mine(c)
      BY <3>2 DEF StoreInv, Held, Mine
    <3>4. m \notin Done
      BY <2>1, <3>2 DEF OnceInv
    <3>5. \A c \in Clients : Mine(c)' \cap (Held(buffer)' \cup Held(product)' \cup gone' \cup Done') = {}
      BY <2>1, <2>2, <2>3, <3>2, <3>3, <3>4 DEF OnceInv
    <3>6. /\ (gone' \cup Done') \cap (Held(buffer)' \cup Held(product)') = {}
          /\ Held(buffer)' \cap Held(product)' = {}
          /\ gone' \cap Done' = {} /\ Done' \subseteq Records'
      BY <2>1, <2>3, <3>2, <3>3, <3>4 DEF OnceInv
    <3>7. \A i \in Records' : \/ i \in Held(buffer)' \cup Held(product)' \cup gone' \cup Done'
                              \/ \E c \in Clients : i \in Mine(c)'
      BY <2>1, <2>2, <2>3, <3>2 DEF OnceInv
    <3> QED BY <2>1, <2>2, <2>3, <2>4, <3>2, <3>5, <3>6, <3>7 DEF OnceInv
  <2> QED BY <1>2, <2>5, <2>6, Adding
<1>3. ASSUME NEW c \in Clients, Backup(c) PROVE OnceInv'
  <2>1. product' = buffer /\ buffer' = <<>> /\ Keeping /\ Copying' = Copying \cup {c}
        /\ UNCHANGED <<made, done, gone, mon>>
    BY <1>3, BackupDoes
  <2>2. Copying = {} /\ crossed = {}
    BY <1>3, BackupDoes
  <2>3. product = <<>>
    BY <2>2 DEF OnceInv
  <2>4. \A d \in Clients : Mine(d)' = Mine(d)
    BY <2>1, StillMine DEF Keeping
  <2>5. Held(<<>>) = {} /\ Apart(<<>>)
    BY DEF Held, Apart
  <2>6. Records' = Records /\ Done' = Done /\ Held(buffer)' = {} /\ Held(product)' = Held(buffer)
        /\ Apart(buffer)' /\ (Apart(product)' <=> Apart(buffer))
    BY <2>1, <2>5 DEF Records, Done, Held, Apart
  <2>7. \A d \in Clients : Reporting(d)' => Reporting(d) /\ (Apart(out[d])' <=> Apart(out[d]))
    BY <2>1 DEF Apart, Keeping
  <2> QED BY <2>1, <2>2, <2>3, <2>4, <2>5, <2>6, <2>7 DEF OnceInv
<1>4. ASSUME NEW c \in Clients, CopyOut(c) PROVE OnceInv'
  <2>1. PICK n \in 0..Len(product) :
          /\ out' = [out EXCEPT ![c] = SubSeq(product, 1, n)]
          /\ gone' = gone \cup {product[i] : i \in n + 1 .. Len(product)}
    BY <1>4, CopyOutDoes
  <2>2. /\ c \in Copying /\ Copying' = Copying \ {c}
        /\ product' = IF Copying = {c} THEN <<>> ELSE product
        /\ ~Reporting(c) /\ Reporting(c)'
        /\ \A d \in Clients \ {c} : Reporting(d)' <=> Reporting(d)
        /\ UNCHANGED <<made, buffer, done, crossed, mon>>
    BY <1>4, CopyOutDoes
  <2>3. PICK t, u : t = SubSeq(product, 1, n) /\ u = {product[i] : i \in n + 1 .. Len(product)}
    OBVIOUS
  <2>4. crossed = {} /\ Copying = {c} /\ product' = <<>> /\ Copying' = {}
    BY <2>2 DEF OnceInv
  <2>5. /\ Held(product) = Held(t) \cup u
        /\ Apart(t) /\ Held(t) \cap u = {}
    BY <2>3, <2>4, Prefix DEF StoreInv, OnceInv
  <2>6. out'[c] = t /\ (\A d \in Clients \ {c} : out'[d] = out[d]) /\ gone' = gone \cup u
    BY <2>1, <2>3 DEF StoreInv
  <2>7. Mine(c) = {} /\ Mine(c)' = Held(t) /\ \A d \in Clients \ {c} : Mine(d)' = Mine(d)
    <3>1. Mine(c)' = Held(t)
      BY <2>2, <2>6 DEF Mine, Held
    <3>2. \A d \in Clients \ {c} : Mine(d)' = Mine(d)
      BY <2>2, <2>6 DEF Mine, Held
    <3> QED BY <2>2, <3>1, <3>2 DEF Mine
  <2>8. Held(<<>>) = {} /\ Apart(<<>>)
    BY DEF Held, Apart
  <2>9. Records' = Records /\ Done' = Done /\ Held(buffer)' = Held(buffer) /\ Held(product)' = {}
        /\ Apart(product)' /\ (Apart(buffer)' <=> Apart(buffer))
    BY <2>2, <2>4, <2>8 DEF Records, Done, Held, Apart
  <2>10. \A d \in Clients : Reporting(d)' => Apart(out[d])'
    <3>1. Apart(out[c])'
      BY <2>5, <2>6 DEF Apart
    <3>2. \A d \in Clients \ {c} : Reporting(d)' => Apart(out[d])'
      BY <2>2, <2>4, <2>6 DEF Apart, OnceInv
    <3> QED BY <3>1, <3>2
  <2>11. \A d \in Clients : Mine(d)' \cap (Held(buffer)' \cup Held(product)' \cup gone' \cup Done') = {}
    BY <2>4, <2>5, <2>6, <2>7, <2>9 DEF OnceInv
  <2>12. \A d, e \in Clients : d # e => Mine(d)' \cap Mine(e)' = {}
    BY <2>4, <2>5, <2>7 DEF OnceInv
  <2>13. /\ (gone' \cup Done') \cap (Held(buffer)' \cup Held(product)') = {}
         /\ Held(buffer)' \cap Held(product)' = {}
         /\ gone' \cap Done' = {} /\ Done' \subseteq Records'
    BY <2>4, <2>5, <2>6, <2>9 DEF OnceInv
  <2>14. \A i \in Records' : \/ i \in Held(buffer)' \cup Held(product)' \cup gone' \cup Done'
                             \/ \E d \in Clients : i \in Mine(d)'
    BY <2>4, <2>5, <2>6, <2>7, <2>9 DEF OnceInv
  <2> QED BY <2>2, <2>4, <2>9, <2>10, <2>11, <2>12, <2>13, <2>14 DEF OnceInv
<1>5. ASSUME NEW c \in Clients, BackDump(c) PROVE OnceInv'
  <2>1. /\ \A d \in Clients \ {c} : (Reporting(d)' <=> Reporting(d)) /\ out'[d] = out[d]
        /\ ~Reporting(c)' /\ Copying' = Copying /\ UNCHANGED <<made, buffer, product, crossed, mon>>
    BY <1>5, BackDumpDoes
  <2>2. Mine(c)' = {} /\ \A d \in Clients \ {c} : Mine(d)' = Mine(d)
    BY ZenonT(30), <2>1 DEF Mine, Held
  <2>3. Records' = Records /\ Held(buffer)' = Held(buffer)
        /\ Held(product)' = Held(product) /\ (Apart(buffer)' <=> Apart(buffer))
        /\ (Apart(product)' <=> Apart(product))
    BY <2>1 DEF Records, Held, Apart
  <2>4. \A d \in Clients : Reporting(d)' => Apart(out[d])'
    BY <2>1 DEF Apart, OnceInv
  <2>5. PICK P : P \subseteq Mine(c) /\ gone' = gone \cup (Mine(c) \ P) /\ Done' = Done \cup P
                 /\ (mon \notin Twice => \A i \in DOMAIN done' : done'[i] \in {0, 1})
    <3>1. CASE Reporting(c)
      <4>1. /\ done' = [i \in DOMAIN done |->
                          IF i \in Shows(c) THEN done[i] + Times(c) ELSE done[i]]
            /\ gone' = gone \cup (Held(out[c]) \ Shows(c))
        BY <1>5, <3>1, BackDumpDoes
      <4>2. Shows(c) \subseteq Held(out[c]) /\ Mine(c) = Held(out[c])
        BY <3>1 DEF Shows, Mine
      <4>3. Times(c) \in {1, 2} /\ (mon \notin Twice => Times(c) = 1)
        BY RowReports DEF TypeInv, Times, Form, Reports, Row
      <4>4. done \in [1..MaxRecords -> Nat] /\ Held(out[c]) \subseteq Records
        BY DEF StoreInv, Held
      <4>5. Records \subseteq 1..MaxRecords
        BY DEF StoreInv, Records
      <4>6. \A i \in Held(out[c]) : done[i] = 0
        <5>1. Held(out[c]) \cap Done = {}
          BY <2>1, <4>2 DEF OnceInv
        <5>2. \A i \in Held(out[c]) : i \in DOMAIN done
          BY <4>4, <4>5
        <5> QED BY <5>1, <5>2 DEF Done
      <4>7. PICK P, k : P = Shows(c) /\ k = Times(c)
        OBVIOUS
      <4>8. Done' = Done \cup P
        <5>1. P \subseteq DOMAIN done /\ DOMAIN done' = DOMAIN done
          BY <4>1, <4>2, <4>4, <4>5, <4>7
        <5>2. \A i \in DOMAIN done : done'[i] # 0 <=> done[i] # 0 \/ i \in P
          BY <4>1, <4>3, <4>4, <4>7
        <5> QED BY <5>1, <5>2 DEF Done
      <4>9. mon \notin Twice => \A i \in DOMAIN done' : done'[i] \in {0, 1}
        BY <2>1, <4>1, <4>2, <4>3, <4>4, <4>6, <4>7 DEF OnceInv
      <4> QED BY <4>1, <4>2, <4>7, <4>8, <4>9
    <3>2. CASE ~Reporting(c)
      <4>1. Mine(c) = {} /\ UNCHANGED <<done, gone>>
        BY <1>5, <3>2, BackDumpDoes DEF Mine
      <4>2. Done' = Done /\ (mon \notin Twice => \A i \in DOMAIN done' : done'[i] \in {0, 1})
        BY <2>1, <4>1 DEF Done, OnceInv
      <4> WITNESS {}
      <4> QED BY <4>1, <4>2
    <3> QED BY <3>1, <3>2
  <2>6. \A d \in Clients : Mine(d)' \cap (Held(buffer)' \cup Held(product)' \cup gone' \cup Done') = {}
    BY <2>1, <2>2, <2>3, <2>5 DEF OnceInv
  <2>7. \A d, e \in Clients : d # e => Mine(d)' \cap Mine(e)' = {}
    BY <2>1, <2>2 DEF OnceInv
  <2>8. Mine(c) \subseteq Records
    BY DEF StoreInv, Mine, Held
  <2>9. /\ (gone' \cup Done') \cap (Held(buffer)' \cup Held(product)') = {}
        /\ Held(buffer)' \cap Held(product)' = {}
        /\ gone' \cap Done' = {} /\ Done' \subseteq Records'
    BY <2>1, <2>3, <2>5, <2>8 DEF OnceInv
  <2>10. \A i \in Records' : \/ i \in Held(buffer)' \cup Held(product)' \cup gone' \cup Done'
                             \/ \E d \in Clients : i \in Mine(d)'
    BY <2>1, <2>2, <2>3, <2>5 DEF OnceInv
  <2> QED BY <2>1, <2>3, <2>4, <2>5, <2>6, <2>7, <2>9, <2>10 DEF OnceInv
<1> QED BY <1>1, <1>2, <1>3, <1>4, <1>5, Quietly

-----------------------------------------------------------------------------
(* The places of a record, counted.                                        *)

\* So exactly one of the places has the record.
LEMMA OnePlace ==
  ASSUME StoreInv, OnceInv, crossed = {}, mon \notin Twice, NEW i \in Records
  PROVE  Places(i) = 1
<1> DEFINE B == {<<"buffer", n>> : n \in {n \in DOMAIN buffer : buffer[n] = i}}
           P == {<<"product", n>> : n \in {n \in DOMAIN product : product[n] = i}}
           U(c) == {<<c, n>> : n \in {n \in DOMAIN out[c] : out[c][n] = i}}
           O == UNION {U(c) : c \in {c \in Clients : IsDump(c) /\ fresh[c] /\ pc[c] = "back"}}
           G == {<<"gone", 0>> : j \in gone \cap {i}}
<1>1. Places(i) = Cardinality(B \cup P \cup O \cup G) + done[i]
  BY Zenon DEF Places
<1>2. i \notin Held(buffer) => B = {}
  BY DEF Held
<1>3. i \notin Held(product) => P = {}
  BY DEF Held
<1>4. (\A c \in Clients : i \notin Mine(c)) => O = {}
  BY DEF Mine, Held, Reporting
<1>5. i \notin gone => G = {}
  OBVIOUS
<1>6. i \in Held(buffer) => \E x : B = {x}
  <2> SUFFICES ASSUME i \in Held(buffer) PROVE \E x : B = {x}
    OBVIOUS
  <2>1. PICK k \in DOMAIN buffer : buffer[k] = i
    BY DEF Held
  <2>2. \A n \in DOMAIN buffer : buffer[n] = i => n = k
    BY <2>1 DEF OnceInv, Apart
  <2>3. B = {<<"buffer", k>>}
    BY <2>1, <2>2
  <2> QED BY <2>3
<1>7. i \in Held(product) => \E x : P = {x}
  <2> SUFFICES ASSUME i \in Held(product) PROVE \E x : P = {x}
    OBVIOUS
  <2>1. PICK k \in DOMAIN product : product[k] = i
    BY DEF Held
  <2>2. \A n \in DOMAIN product : product[n] = i => n = k
    BY <2>1 DEF OnceInv, Apart
  <2>3. P = {<<"product", k>>}
    BY <2>1, <2>2
  <2> QED BY <2>3
<1>8. ASSUME NEW c \in Clients, i \in Mine(c) PROVE \E x : O = {x}
  <2>1. Reporting(c) /\ i \in Held(out[c])
    BY <1>8 DEF Mine
  <2>2. \A d \in Clients \ {c} : i \notin Mine(d)
    BY <1>8 DEF OnceInv
  <2>3. PICK n \in DOMAIN out[c] : out[c][n] = i
    BY <2>1 DEF Held
  <2>4. \A k \in DOMAIN out[c] : out[c][k] = i => k = n
    BY <2>1, <2>3 DEF OnceInv, Apart
  <2>5. U(c) = {<<c, n>>}
    BY <2>3, <2>4
  <2>6. \A d \in Clients \ {c} : Reporting(d) => U(d) = {}
    BY <2>2 DEF Mine, Held
  <2>7. O = U(c)
    <3> HIDE DEF U
    <3> QED BY <2>1, <2>6 DEF Reporting
  <2> QED BY <2>5, <2>7
<1>9. i \in gone => G = {<<"gone", 0>>}
  OBVIOUS
<1>10. i \in DOMAIN done /\ done[i] \in Nat /\ (i \in Done <=> done[i] # 0)
       /\ (i \in Done => done[i] = 1)
  <2>1. i \in 1..MaxRecords /\ DOMAIN done = 1..MaxRecords /\ done[i] \in Nat
    BY DEF StoreInv, Records
  <2>2. i \in Done <=> done[i] # 0
    BY <2>1 DEF Done
  <2> QED BY <2>1, <2>2 DEF OnceInv
<1> HIDE DEF B, P, O, G
<1>11. Cardinality({}) = 0 /\ \A x : Cardinality({x}) = 1
  BY FS_EmptySet, FS_Singleton
<1>12. CASE i \in Held(buffer)
  <2>1. /\ i \notin Held(product) /\ i \notin gone /\ i \notin Done
        /\ \A c \in Clients : i \notin Mine(c)
    BY <1>12 DEF OnceInv
  <2>2. PICK x : B = {x}
    BY <1>6, <1>12
  <2>3. B \cup P \cup O \cup G = {x} /\ done[i] = 0
    BY <1>3, <1>4, <1>5, <1>10, <2>1, <2>2
  <2>4. Cardinality(B \cup P \cup O \cup G) = 1
    BY <1>11, <2>3, Zenon
  <2> QED BY <1>1, <2>3, <2>4
<1>13. CASE i \in Held(product)
  <2>1. /\ i \notin Held(buffer) /\ i \notin gone /\ i \notin Done
        /\ \A c \in Clients : i \notin Mine(c)
    BY <1>13 DEF OnceInv
  <2>2. PICK x : P = {x}
    BY <1>7, <1>13
  <2>3. B \cup P \cup O \cup G = {x} /\ done[i] = 0
    BY <1>2, <1>4, <1>5, <1>10, <2>1, <2>2
  <2>4. Cardinality(B \cup P \cup O \cup G) = 1
    BY <1>11, <2>3, Zenon
  <2> QED BY <1>1, <2>3, <2>4
<1>14. ASSUME NEW c \in Clients, i \in Mine(c) PROVE Places(i) = 1
  <2>1. i \notin Held(buffer) /\ i \notin Held(product) /\ i \notin gone /\ i \notin Done
    BY <1>14 DEF OnceInv
  <2>2. PICK x : O = {x}
    BY <1>8, <1>14
  <2>3. B \cup P \cup O \cup G = {x} /\ done[i] = 0
    BY <1>2, <1>3, <1>5, <1>10, <2>1, <2>2
  <2>4. Cardinality(B \cup P \cup O \cup G) = 1
    BY <1>11, <2>3, Zenon
  <2> QED BY <1>1, <2>3, <2>4
<1>15. CASE i \in gone
  <2>1. /\ i \notin Held(buffer) /\ i \notin Held(product) /\ i \notin Done
        /\ \A c \in Clients : i \notin Mine(c)
    BY <1>15 DEF OnceInv
  <2>2. PICK x : x = <<"gone", 0>>
    OBVIOUS
  <2>3. B \cup P \cup O \cup G = {x} /\ done[i] = 0
    BY <1>2, <1>3, <1>4, <1>9, <1>10, <1>15, <2>1, <2>2
  <2>4. Cardinality(B \cup P \cup O \cup G) = 1
    BY <1>11, <2>3, Zenon
  <2> QED BY <1>1, <2>3, <2>4
<1>16. CASE i \in Done
  <2>1. /\ i \notin Held(buffer) /\ i \notin Held(product) /\ i \notin gone
        /\ \A c \in Clients : i \notin Mine(c)
    BY <1>16 DEF OnceInv
  <2>2. B \cup P \cup O \cup G = {} /\ done[i] = 1
    BY <1>2, <1>3, <1>4, <1>5, <1>10, <1>16, <2>1
  <2>4. Cardinality(B \cup P \cup O \cup G) = 0
    BY <1>11, <2>2, Zenon
  <2> QED BY <1>1, <2>2, <2>4
<1> QED BY <1>12, <1>13, <1>14, <1>15, <1>16 DEF OnceInv

-----------------------------------------------------------------------------
(* The theorems.                                                           *)

\* In every reachable state: the types, the locks, and what follows from them.
LEMMA AlwaysInv == Spec => [](TypeInv /\ LockInv /\ SeenInv /\ SettingInv)
<1>1. Init => TypeInv /\ LockInv /\ SeenInv /\ SettingInv
  BY TypeInit, LockInit, SeenInit, SettingInit
<1>2. (TypeInv /\ LockInv /\ SeenInv /\ SettingInv) /\ [Next]_vars
        => (TypeInv /\ LockInv /\ SeenInv /\ SettingInv)'
  BY TypeNext, LockNext, SeenNext, SettingNext
<1> QED BY <1>1, <1>2, PTL DEF Spec

\* An active monitor has the settings of the SET that came before its activation,
\* whichever requests of whichever clients were answered in between.
THEOREM AlwaysRunsAsAsked == Spec => []RunsAsAsked
<1>1. SettingInv => RunsAsAsked
  BY DEF SettingInv, RunsAsAsked, TrueSet
<1> QED BY <1>1, AlwaysInv, PTL

\* SETTINGS shows settings that the monitor had between the request and its
\* answer, although the handlers of sig_info and uprobe share one copy.
THEOREM AlwaysTheTruth == Spec => []GetsTheTruth
<1>1. SeenInv => GetsTheTruth
  BY DEF SeenInv, GetsTheTruth, TrueGet
<1> QED BY <1>1, AlwaysInv, PTL

\* And where the records are.
RecordInv == AnswerInv /\ DumpInv /\ StoreInv /\ CrossInv /\ RoomInv /\ OnceInv

LEMMA AlwaysRecordInv == Spec => []RecordInv
<1>1. Init => RecordInv
  <2>1. Init => CrossInv /\ RoomInv
    BY DEF Init, CrossInv, RoomInv, Records
  <2> QED BY <2>1, AnswerInit, DumpInit, StoreInit, OnceInit DEF RecordInv
<1>2. TypeInv /\ LockInv /\ RecordInv /\ [Next]_vars => RecordInv'
  BY AnswerNext, DumpNext, StoreNext, CrossNext, RoomNext, OnceNext DEF RecordInv
<1> QED BY <1>1, <1>2, AlwaysInv, PTL DEF Spec

\* Every variable of the module, of the tool and of the records in between has its
\* type, whichever requests run.
THEOREM TypeCorrect == Spec => []TypeOK
<1>1. TypeInv /\ RecordInv => TypeOK
  BY DEF TypeInv, RecordInv, AnswerInv, StoreInv, TypeOK
<1> QED BY <1>1, AlwaysInv, AlwaysRecordInv, PTL

\* The tool decodes only what the present request has brought, but for a log by system
\* calls that does not prepare ret, and fs_orphan.
THEOREM AlwaysDecodesReports == Spec => []DecodesOnlyReports
<1>1. RecordInv => DecodesOnlyReports
  BY DEF RecordInv, DumpInv, DecodesOnlyReports, Decodes, TrueDump
<1> QED BY <1>1, AlwaysRecordInv, PTL

\* However many reports and logs there are at the same time: two DUMPs use the backup
\* together only if one is an ioctl and the monitor has no mutex for them, or, as in
\* uprobe, one for ioctls and the other is a system call; otherwise each record is in one
\* place, and shown once in the end; and where the tool asks for all that
\* the buffer holds, and shows every kind, none is lost.
THEOREM RecordsAlwaysOnce == Spec => []EachRecordOnce
<1>1. RecordInv => EachRecordOnce
  BY OnePlace DEF RecordInv, CrossInv, RoomInv, EachRecordOnce
<1> QED BY <1>1, AlwaysRecordInv, PTL
=============================================================================
