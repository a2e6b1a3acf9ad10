---------------------------- MODULE RequestRows ----------------------------
(***************************************************************************)
(* How each monitor answers SET, SETTINGS and DUMP, and how its part of    *)
(* the command line tool asks for them.  The handlers and the tools are    *)
(* written out once for every monitor, with small differences: each row    *)
(* below says what differs, and module Requests what a row makes of a      *)
(* request.  Four rows for a monitor:                                      *)
(*   _kernel  its system call and ioctl handlers                           *)
(*   _set     do_activate .. do_settings of the tool                       *)
(*   _text    what the tool prints of a report, and do_dump                *)
(*   _log     what the tool writes to a log, and do_sls                    *)
(***************************************************************************)
EXTENDS Integers

Paths == {"ioctl", "syscall"}

\*   shared   the paths whose handler keeps its copy of the settings in a static
\*            local, so that two requests on the path have one copy
\*   locks    the commands that run under a mutex of the monitor's own
\*   locked   the paths on which they do
\*   late     SET takes that mutex only after it has tested activated
\*   gathers  DUMP adds records made from the monitor's tables
\*   tests    DUMP is refused before the first activation
\*   checks   SET refuses some settings
\*   extra    kinds of records that the kernel writes and the tool does not print
\*   half     size in MB of one of the two halves of the record buffer
Handler == [shared |-> {}, locks |-> {}, locked |-> Paths, late |-> FALSE,
            gathers |-> FALSE, tests |-> TRUE, checks |-> FALSE, extra |-> {}, half |-> 1]

\*   ways     the paths that the tool uses
\*   set, get what ret is before the request: "nosys" if it is set to -ENOSYS,
\*            "any" if it has no value
Asks == [ways |-> Paths, set |-> "nosys", get |-> "nosys"]

\*   kinds    the kinds of records that are shown
\*   room     the size in MB of the report that is asked for, per path
\*   ret      what ret is before the request: "nosys" if it is set to -ENOSYS
\*            before each request, otherwise what it is before the first
\*   len      the length is tested too before the report is decoded
\*   again    the request is repeated: with a report as long as it has records,
\*            in a log for ever
\*   probes   the settings are asked for first, and there is no request if the
\*            monitor is not activated
\*   twice    the paths on which a report is decoded twice
Report(kinds, ioctl, syscall) ==
  [kinds |-> kinds, room |-> [ioctl |-> ioctl, syscall |-> syscall],
   ret |-> "nosys", len |-> FALSE, again |-> FALSE, probes |-> FALSE, twice |-> {}]

\* ret is 1 after log_config and keeps its value from one request to the next.
Log(kinds, ioctl, syscall) ==
  [Report(kinds, ioctl, syscall) EXCEPT !.ret = "one", !.len = TRUE, !.again = TRUE]
NoLog == Log({}, 0, 0)

\* Mutant: the handlers keep their copy of the settings in a static local.
MutStatic == [Handler EXCEPT !.shared = Paths]
mutex_monitor_kernel == Handler
mutex_monitor_set == Asks
mutex_monitor_text == Report({"detail"}, 1, 1)
mutex_monitor_log == Log({"detail"}, 1, 1)

rw_sem_kernel == Handler
rw_sem_set == Asks
rw_sem_text == Report({"detail"}, 1, 1)
rw_sem_log == Log({"detail"}, 1, 1)

sys_delay_kernel == Handler
sys_delay_set == Asks
sys_delay_text == [Report({"detail"}, 1, 1) EXCEPT !.len = TRUE]
sys_delay_log == [Log({"detail"}, 1, 1) EXCEPT !.ret = "nosys"]

sched_delay_kernel == [Handler EXCEPT !.shared = Paths, !.gathers = TRUE,
    !.half = 4]
sched_delay_set == Asks
sched_delay_text == [Report({"dither", "rq"}, 4, 4) EXCEPT !.len = TRUE]
sched_delay_log == [Log({"dither", "rq"}, 4, 4) EXCEPT !.ret = "nosys"]

irq_delay_kernel == Handler
irq_delay_set == Asks
irq_delay_text == [Report({"detail"}, 1, 1) EXCEPT !.len = TRUE]
irq_delay_log == [Log({"detail"}, 1, 1) EXCEPT !.ret = "nosys"]

irq_stats_kernel == [Handler EXCEPT !.locks = {"set", "get", "dump", "log"},
    !.extra = {"timer_summary"}, !.gathers = TRUE]
irq_stats_set == Asks
irq_stats_text == [Report({"header", "irq_detail", "irq_summary",
    "softirq_summary"}, 1, 1) EXCEPT !.len = TRUE]
irq_stats_log == Log({"header", "irq_detail", "irq_summary",
    "softirq_summary"}, 1, 1)

irq_trace_kernel == [Handler EXCEPT !.gathers = TRUE]
irq_trace_set == Asks
irq_trace_text == [Report({"detail", "sum"}, 1, 1) EXCEPT !.len = TRUE]
irq_trace_log == Log({"detail", "sum"}, 1, 1)

sys_cost_kernel == [Handler EXCEPT !.gathers = TRUE]
sys_cost_set == Asks
sys_cost_text == Report({"detail"}, 10, 1)
sys_cost_log == Log({"detail"}, 1, 1)

sig_info_kernel == [Handler EXCEPT !.shared = {"syscall"}, !.half = 20]
sig_info_set == Asks
sig_info_text == Report({"detail"}, 20, 20)
sig_info_log == Log({"detail"}, 20, 1)

throttle_delay_kernel == [Handler EXCEPT !.shared = Paths, !.gathers = TRUE,
    !.half = 4]
throttle_delay_set == Asks
throttle_delay_text == [Report({"dither", "rq"}, 4, 4) EXCEPT !.len = TRUE]
throttle_delay_log == [Log({"dither", "rq"}, 4, 4) EXCEPT !.ret = "nosys"]

run_trace_kernel == [Handler EXCEPT !.checks = TRUE, !.half = 5]
run_trace_set == Asks
run_trace_text == [Report({"irq_handler_entry", "irq_handler_exit",
    "run_trace", "perf", "raw", "sched_in", "sched_out", "sched_wakeup",
    "softirq_entry", "softirq_exit", "start", "stop", "stop_raw_stack",
    "sys_enter", "sys_enter_raw", "sys_exit", "timer_expire_entry",
    "timer_expire_exit"}, 1, 1) EXCEPT !.len = TRUE]
run_trace_log == [Log({"irq_handler_entry", "irq_handler_exit", "run_trace",
    "sched_in", "sched_out", "sched_wakeup", "softirq_entry", "softirq_exit",
    "start", "stop", "sys_enter", "sys_exit", "timer_expire_entry",
    "timer_expire_exit"}, 1, 1) EXCEPT !.ret = "nosys"]

exec_monitor_kernel == Handler
exec_monitor_set == [Asks EXCEPT !.set = "ok"]
exec_monitor_text == Report({"detail", "perf"}, 1, 1)
exec_monitor_log == Log({"detail"}, 1, 1)

exit_monitor_kernel == Handler
exit_monitor_set == Asks
exit_monitor_text == Report({"detail", "map"}, 1, 1)
exit_monitor_log == Log({"detail"}, 1, 1)

utilization_kernel == [Handler EXCEPT !.gathers = TRUE, !.half = 5]
utilization_set == Asks
utilization_text == Report({"detail"}, 1, 1)
utilization_log == [Log({"detail"}, 10, 10) EXCEPT !.ret = "nosys"]

perf_kernel == [Handler EXCEPT !.shared = Paths, !.half = 50]
perf_set == Asks
perf_text == [Report({"detail", "raw_detail"}, 50, 50) EXCEPT !.len = TRUE]
perf_log == [Log({"detail"}, 50, 50) EXCEPT !.ret = "nosys"]

kprobe_kernel == [Handler EXCEPT !.half = 10]
kprobe_set == Asks
kprobe_text == [Report({"detail", "raw_detail"}, 40, 40) EXCEPT !.len = TRUE]
kprobe_log == Log({"detail", "raw_detail"}, 40, 40)

uprobe_kernel == [Handler EXCEPT !.shared = Paths, !.locked = {"ioctl"},
    !.locks = {"get", "dump", "log"}, !.late = TRUE, !.half = 10]
uprobe_set == Asks
uprobe_text == [Report({"detail", "raw_detail"}, 40, 40) EXCEPT !.len = TRUE]
uprobe_log == Log({"detail", "raw_detail"}, 40, 40)

task_monitor_kernel == Handler
task_monitor_set == Asks
task_monitor_text == Report({"detail", "summary"}, 1, 1)
task_monitor_log == [Log({"detail", "summary"}, 1, 1) EXCEPT !.ret = "nosys",
    !.len = FALSE]

load_monitor_kernel == [Handler EXCEPT !.half = 50]
load_monitor_set == Asks
load_monitor_text == Report({"cpu_run", "detail", "task"}, 50, 50)
load_monitor_log == [Log({"detail", "task"}, 50, 50) EXCEPT !.ret = "nosys",
    !.len = FALSE]

ping_delay_kernel == [Handler EXCEPT !.gathers = TRUE]
ping_delay_set == Asks
ping_delay_text == Report({"detail", "event", "summary"}, 1, 1)
ping_delay_log == Log({"detail", "event", "summary"}, 1, 1)

ping_delay6_kernel == [Handler EXCEPT !.gathers = TRUE]
ping_delay6_set == Asks
ping_delay6_text == Report({"detail", "event", "summary"}, 1, 1)
ping_delay6_log == Log({"detail", "event", "summary"}, 1, 1)

drop_packet_kernel == [Handler EXCEPT !.gathers = TRUE, !.half = 20]
drop_packet_set == Asks
drop_packet_text == Report({"detail"}, 1, 1)
drop_packet_log == Log({"detail"}, 1, 1)

net_bandwidth_kernel == [Handler EXCEPT !.gathers = TRUE, !.half = 20]
net_bandwidth_set == [Asks EXCEPT !.set = "ok", !.get = "any"]
net_bandwidth_text == [Report({"detail"}, 10, 10) EXCEPT !.ret = "one",
    !.probes = TRUE]

tcp_retrans_kernel == [Handler EXCEPT !.gathers = TRUE]
tcp_retrans_set == Asks
tcp_retrans_text == Report({"detail", "summary", "trace"}, 1, 1)
tcp_retrans_log == Log({"detail", "summary", "trace"}, 1, 1)

tcp_connect_kernel == [Handler EXCEPT !.half = 2]
tcp_connect_set == Asks
tcp_connect_text == Report({"detail"}, 1, 1)
tcp_connect_log == Log({"detail"}, 1, 1)

alloc_top_kernel == [Handler EXCEPT !.gathers = TRUE]
alloc_top_set == Asks
alloc_top_text == Report({"detail"}, 1, 1)
alloc_top_log == Log({"detail"}, 1, 1)

high_order_kernel == [Handler EXCEPT !.half = 10]
high_order_set == Asks
high_order_text == Report({"detail"}, 1, 10)
high_order_log == Log({"detail"}, 1, 1)

mm_leak_kernel == [Handler EXCEPT !.gathers = TRUE, !.half = 5]
mm_leak_set == Asks
mm_leak_text == [Report({"detail"}, 5, 5) EXCEPT !.len = TRUE, !.again = TRUE]

rss_monitor_kernel == [Handler EXCEPT !.gathers = TRUE, !.half = 10]
rss_monitor_set == Asks
rss_monitor_text == [Report({"detail", "raw_detail"}, 40, 40) EXCEPT !.again =
    TRUE]

memcg_stats_kernel == [Handler EXCEPT !.gathers = TRUE, !.half = 4]
memcg_stats_set == [Asks EXCEPT !.ways = {"ioctl"}]
memcg_stats_text == [Report({"detail", "summary"}, 5, 5) EXCEPT !.len = TRUE]
memcg_stats_log == [Log({"detail", "summary"}, 5, 5) EXCEPT !.ret = "nosys"]

rw_top_kernel == [Handler EXCEPT !.gathers = TRUE, !.half = 50]
rw_top_set == Asks
rw_top_text == [Report({"detail", "perf", "raw_perf"}, 50, 50) EXCEPT !.len =
    TRUE]
rw_top_log == Log({"detail"}, 50, 50)

fs_cache_kernel == [Handler EXCEPT !.gathers = TRUE, !.half = 2]
fs_cache_set == Asks
fs_cache_text == [Report({"detail"}, 1, 1) EXCEPT !.len = TRUE]
fs_cache_log == Log({"detail"}, 1, 1)

fs_orphan_kernel == [Handler EXCEPT !.gathers = TRUE, !.half = 10]
fs_orphan_set == [Asks EXCEPT !.set = "ok", !.get = "any"]
fs_orphan_text == [Report({"detail", "summary"}, 10, 10) EXCEPT !.ret = "ok"]
fs_orphan_log == [Log({"detail", "summary"}, 10, 10) EXCEPT !.again = FALSE]

fs_shm_kernel == [Handler EXCEPT !.gathers = TRUE]
fs_shm_set == Asks
fs_shm_text == [Report({"detail"}, 1, 1) EXCEPT !.twice = {"ioctl"}, !.len =
    TRUE]
fs_shm_log == Log({"detail"}, 1, 1)

pmu_kernel == [Handler EXCEPT !.shared = {"ioctl"}, !.locks = {"set"}, !.tests = FALSE, !.gathers = TRUE, !.half = 20]
pmu_set == [Asks EXCEPT !.ways = {"ioctl"}]
pmu_text == Report({"detail"}, 20, 20)
pmu_log == [Log({"detail"}, 20, 20) EXCEPT !.again = FALSE]
-----------------------------------------------------------------------------
Rows == [
  mutex_monitor |-> [k |-> mutex_monitor_kernel, s |-> mutex_monitor_set,
    text |-> mutex_monitor_text, log |-> mutex_monitor_log],
  rw_sem |-> [k |-> rw_sem_kernel, s |-> rw_sem_set,
    text |-> rw_sem_text, log |-> rw_sem_log],
  sys_delay |-> [k |-> sys_delay_kernel, s |-> sys_delay_set,
    text |-> sys_delay_text, log |-> sys_delay_log],
  sched_delay |-> [k |-> sched_delay_kernel, s |-> sched_delay_set,
    text |-> sched_delay_text, log |-> sched_delay_log],
  irq_delay |-> [k |-> irq_delay_kernel, s |-> irq_delay_set,
    text |-> irq_delay_text, log |-> irq_delay_log],
  irq_stats |-> [k |-> irq_stats_kernel, s |-> irq_stats_set,
    text |-> irq_stats_text, log |-> irq_stats_log],
  irq_trace |-> [k |-> irq_trace_kernel, s |-> irq_trace_set,
    text |-> irq_trace_text, log |-> irq_trace_log],
  sys_cost |-> [k |-> sys_cost_kernel, s |-> sys_cost_set,
    text |-> sys_cost_text, log |-> sys_cost_log],
  sig_info |-> [k |-> sig_info_kernel, s |-> sig_info_set,
    text |-> sig_info_text, log |-> sig_info_log],
  throttle_delay |-> [k |-> throttle_delay_kernel, s |-> throttle_delay_set,
    text |-> throttle_delay_text, log |-> throttle_delay_log],
  run_trace |-> [k |-> run_trace_kernel, s |-> run_trace_set,
    text |-> run_trace_text, log |-> run_trace_log],
  exec_monitor |-> [k |-> exec_monitor_kernel, s |-> exec_monitor_set,
    text |-> exec_monitor_text, log |-> exec_monitor_log],
  exit_monitor |-> [k |-> exit_monitor_kernel, s |-> exit_monitor_set,
    text |-> exit_monitor_text, log |-> exit_monitor_log],
  utilization |-> [k |-> utilization_kernel, s |-> utilization_set,
    text |-> utilization_text, log |-> utilization_log],
  perf |-> [k |-> perf_kernel, s |-> perf_set,
    text |-> perf_text, log |-> perf_log],
  kprobe |-> [k |-> kprobe_kernel, s |-> kprobe_set,
    text |-> kprobe_text, log |-> kprobe_log],
  uprobe |-> [k |-> uprobe_kernel, s |-> uprobe_set,
    text |-> uprobe_text, log |-> uprobe_log],
  task_monitor |-> [k |-> task_monitor_kernel, s |-> task_monitor_set,
    text |-> task_monitor_text, log |-> task_monitor_log],
  load_monitor |-> [k |-> load_monitor_kernel, s |-> load_monitor_set,
    text |-> load_monitor_text, log |-> load_monitor_log],
  ping_delay |-> [k |-> ping_delay_kernel, s |-> ping_delay_set,
    text |-> ping_delay_text, log |-> ping_delay_log],
  ping_delay6 |-> [k |-> ping_delay6_kernel, s |-> ping_delay6_set,
    text |-> ping_delay6_text, log |-> ping_delay6_log],
  drop_packet |-> [k |-> drop_packet_kernel, s |-> drop_packet_set,
    text |-> drop_packet_text, log |-> drop_packet_log],
  net_bandwidth |-> [k |-> net_bandwidth_kernel, s |-> net_bandwidth_set,
    text |-> net_bandwidth_text, log |-> NoLog],
  tcp_retrans |-> [k |-> tcp_retrans_kernel, s |-> tcp_retrans_set,
    text |-> tcp_retrans_text, log |-> tcp_retrans_log],
  tcp_connect |-> [k |-> tcp_connect_kernel, s |-> tcp_connect_set,
    text |-> tcp_connect_text, log |-> tcp_connect_log],
  alloc_top |-> [k |-> alloc_top_kernel, s |-> alloc_top_set,
    text |-> alloc_top_text, log |-> alloc_top_log],
  high_order |-> [k |-> high_order_kernel, s |-> high_order_set,
    text |-> high_order_text, log |-> high_order_log],
  mm_leak |-> [k |-> mm_leak_kernel, s |-> mm_leak_set,
    text |-> mm_leak_text, log |-> NoLog],
  rss_monitor |-> [k |-> rss_monitor_kernel, s |-> rss_monitor_set,
    text |-> rss_monitor_text, log |-> NoLog],
  memcg_stats |-> [k |-> memcg_stats_kernel, s |-> memcg_stats_set,
    text |-> memcg_stats_text, log |-> memcg_stats_log],
  rw_top |-> [k |-> rw_top_kernel, s |-> rw_top_set,
    text |-> rw_top_text, log |-> rw_top_log],
  fs_cache |-> [k |-> fs_cache_kernel, s |-> fs_cache_set,
    text |-> fs_cache_text, log |-> fs_cache_log],
  fs_orphan |-> [k |-> fs_orphan_kernel, s |-> fs_orphan_set,
    text |-> fs_orphan_text, log |-> fs_orphan_log],
  fs_shm |-> [k |-> fs_shm_kernel, s |-> fs_shm_set,
    text |-> fs_shm_text, log |-> fs_shm_log],
  pmu |-> [k |-> pmu_kernel, s |-> pmu_set,
    text |-> pmu_text, log |-> pmu_log]]
=============================================================================
