------------------------------- MODULE MCBridge -------------------------------
(***************************************************************************)
(* The bridge with two deposits, and with one too small to be credited.    *)
(***************************************************************************)
EXTENDS Bridge

CONSTANTS d1, d2, dust, a1

MCAmount == [d \in Deposit |-> CASE d = d1 -> 3 [] d = d2 -> 5 [] d = dust -> 1]
MCAddressOf == [d \in Deposit |-> a1]
=============================================================================
