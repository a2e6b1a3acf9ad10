---------------------------- MODULE MCLoadTrend ----------------------------
(* Instances of LoadTrend for TLC: a ring of three slots, so that it wraps  *)
(* around several times.                                                   *)
EXTENDS LoadTrend
=============================================================================
