----------------------------- MODULE RecordLog -----------------------------
(***************************************************************************)
(* What a diagnose-tools trace buffer promises to the tool that reads it,  *)
(* with no memory layout, lock or thread in it: records are numbered in    *)
(* the order in which their writers sealed them; the pending ones form a   *)
(* window; a report takes the whole window at once and leaves it empty;    *)
(* between two reports the buffer may forget the OLDEST pending records,   *)
(* and never a record that is newer than one it keeps.                     *)
(***************************************************************************)
EXTENDS Naturals, Sequences

VARIABLES
  window,   \* ids of the sealed records a report would return now, oldest first
  last,     \* id of the newest sealed record
  batch     \* what the latest report took

vars == <<window, last, batch>>

Init == window = <<>> /\ last = 0 /\ batch = <<>>

\* A writer seals a record.
Append1 ==
  /\ last' = last + 1
  /\ window' = Append(window, last')
  /\ UNCHANGED batch

\* The buffer is full, or is emptied on purpose: the k oldest records go.
Forget ==
  /\ \E k \in 1..Len(window) : window' = SubSeq(window, k + 1, Len(window))
  /\ UNCHANGED <<last, batch>>

\* A report takes everything that is pending.
Drain ==
  /\ batch' = window
  /\ window' = <<>>
  /\ UNCHANGED last

\* The module is unloaded: the pending records and the last report are gone.
Reset ==
  /\ window' = <<>> /\ batch' = <<>>
  /\ UNCHANGED last

Next == Append1 \/ Forget \/ Drain \/ Reset

Spec == Init /\ [][Next]_vars
=============================================================================
