--------------------------- MODULE MCMutexMonitor ---------------------------
(* Instances of MutexMonitor for TLC.  Tasks other than the controller are  *)
(* interchangeable, and so are the descriptors.                             *)
EXTENDS MutexMonitor, TLC

CONSTANTS t1, t2, ctl, m, text, d1, d2, d3

MCOneTask == {t1, ctl}
MCTwoTasks == {t1, t2, ctl}
MCMutexes == {m, text}
MCDescs == {d1, d2, d3}
MCFewDescs == {d1, d2}
MCSymmetry == Permutations({t1, t2}) \cup Permutations(MCDescs)
=============================================================================
