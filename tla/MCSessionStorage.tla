-------------------------- MODULE MCSessionStorage --------------------------
(***************************************************************************)
(* Small instances of SessionStorage for TLC.  Appends and storage objects *)
(* are only told apart by identity, so their permutations are symmetries.  *)
(***************************************************************************)
EXTENDS SessionStorage, TLC

Interchangeable == Permutations(Appends) \cup Permutations(Handles)

=============================================================================
