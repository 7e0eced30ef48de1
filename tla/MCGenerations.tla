--------------------------- MODULE MCGenerations ---------------------------
(***************************************************************************)
(* An instance of Generations for TLC.                                     *)
(***************************************************************************)
EXTENDS Generations, TLC

CONSTANTS start, b1, b2, r1, r2
=============================================================================
