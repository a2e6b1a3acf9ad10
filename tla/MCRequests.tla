----------------------------- MODULE MCRequests -----------------------------
(* Instances of Requests for TLC: the settings of all monitors, and their    *)
(* reports, each with two runs of the tool.                                  *)
EXTENDS Requests, TLC

CONSTANTS op, c2, v1, v2

MCAll == DOMAIN Rows
MCTwo == {op, c2}
MCValues == {v1, v2}
MCOneValue == {v1}
MCSettings == (op :> {"set", "get"}) @@ (c2 :> {"get"})
MCReports == (op :> {"dump"}) @@ (c2 :> {"log"})
MCLogs == (op :> {"get"}) @@ (c2 :> {"log"})
=============================================================================
