--------------------------- MODULE MCAgentHarness ---------------------------
(***************************************************************************)
(* Small instances of AgentHarness for TLC.  Messages, and writes of one   *)
(* kind, are only told apart by identity, so their permutations are        *)
(* symmetries.                                                             *)
(***************************************************************************)
EXTENDS AgentHarness, TLC

Interchangeable == Permutations(Messages) \cup Permutations(Posts)
                     \cup Permutations(Writes \ Posts)

=============================================================================
