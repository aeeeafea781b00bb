------------------------------- MODULE MCUpkeep -------------------------------
(***************************************************************************)
(* A seed and another host for Upkeep.                                     *)
(***************************************************************************)
EXTENDS Upkeep

CONSTANTS s1, h1
================================================================================
