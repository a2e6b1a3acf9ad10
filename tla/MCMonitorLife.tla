--------------------------- MODULE MCMonitorLife ---------------------------
(* The instance of MonitorLife for TLC: all monitors and two flows of       *)
(* handlers; no symmetry, since the run also checks a liveness property.    *)
EXTENDS MonitorLife

CONSTANTS f1, f2, d1

MCAll == DOMAIN Life
MCFlows == {f1, f2}
MCOneDesc == {d1}
\* The monitors that wait for their handlers by msleep alone.
MCSleepers == {"sched_delay", "throttle_delay", "ping_delay", "ping_delay6"}
=============================================================================
