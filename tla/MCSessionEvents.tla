-------------------------- MODULE MCSessionEvents --------------------------
(***************************************************************************)
(* Small instances of SessionEvents for TLC.                               *)
(***************************************************************************)
EXTENDS SessionEvents, TLC

Interchangeable == Permutations(Readers)

=============================================================================
