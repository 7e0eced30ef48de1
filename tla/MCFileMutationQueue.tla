------------------------ MODULE MCFileMutationQueue ------------------------
(***************************************************************************)
(* Small instances of FileMutationQueue for TLC.                           *)
(***************************************************************************)
EXTENDS FileMutationQueue, TLC

CONSTANTS p1, alias

\* The first file has a second path; any other path is its own file.
AliasOfP1 == [p \in Paths |-> IF p = alias THEN p1 ELSE p]

=============================================================================
