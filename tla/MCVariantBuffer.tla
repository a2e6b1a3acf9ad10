-------------------------- MODULE MCVariantBuffer --------------------------
(***************************************************************************)
(* Small instances of VariantBuffer.  A header takes 4 units and a word 2. *)
(* A half of 13 units holds a header with one unit of payload and one with *)
(* four, so the third record makes the halves change places or, when both   *)
(* are in use, drops the older one; a half's odd size leaves a last unit   *)
(* that is never written.                                                  *)
(***************************************************************************)
EXTENDS VariantBuffer, TLC

\* Single write calls of an odd and an even length, and a record of two calls
\* (a type, then data) as run_trace writes it.
MCPayloads == {[len |-> 1, parts |-> <<1>>],
               [len |-> 4, parts |-> <<4>>],
               [len |-> 4, parts |-> <<1, 3>>]}

MCSymmetry == Permutations(Writers)
=============================================================================
