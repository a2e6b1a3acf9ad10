---------------------------- MODULE MCModuleLife ----------------------------
EXTENDS ModuleLife

\* A monitor of the network, and the two the ladders forget.
mcWatched == {"throttle_delay", "rw_sem", "ping_delay"}
\* The inits with a path that returns an error.
mcFallible == {"symbols", "context", "controller", "irq_stats", "irq_delay",
  "sched_delay", "mutex", "sys_delay", "exec", "perf", "run_trace", "irq_trace",
  "kprobe", "utilization", "reboot", "uprobe", "sig_info", "task_monitor", "rw_sem",
  "throttle_delay", "tcp_retrans", "drop_packet", "ping_delay", "ping_delay6",
  "net_bandwidth", "alloc_page", "memory_leak", "rss_monitor", "memcg_stats", "orphan",
  "rw_top", "shm", "cache", "pupil", "pmu", "test", "dev"}
=============================================================================
