---------------------------- MODULE MCLoadAlarm ----------------------------
(* Instances of LoadAlarm for TLC: the load is either side of the threshold. *)
EXTENDS LoadAlarm
=============================================================================
