---------------------------- MODULE MCResidency ----------------------------
(***************************************************************************)
(* Small instances of Residency for TLC.                                   *)
(***************************************************************************)
EXTENDS Residency, TLC

=============================================================================
