------------------------------- MODULE MCRwSem -------------------------------
(* Instances of RwSem for TLC.  Writers are interchangeable, and so are      *)
(* semaphores and descriptors.                                               *)
EXTENDS RwSem, TLC

CONSTANTS t1, t2, ctl, s1, s2, d1, d2

MCTasks == {t1, t2, ctl}
MCSems == {s1, s2}
MCDescs == {d1, d2}
MCSymmetry == Permutations({t1, t2}) \cup Permutations(MCDescs)
=============================================================================
