---------------------------------- MODULE Sums ----------------------------------
(***************************************************************************)
(* Sums over finite sets, the summand given as a function: amounts of      *)
(* outputs, fees, rewards, work.                                           *)
(***************************************************************************)
EXTENDS Integers, FiniteSets, FiniteSetsExt

SumOver(f, S) == MapThenSumSet(LAMBDA x : f[x], S)
=================================================================================
