------------------------------- MODULE MintOnce -------------------------------
(***************************************************************************)
(* What the bridge promises: a deposit that was put on the books is owed   *)
(* until it is either minted, once, or given up for good.                  *)
(***************************************************************************)
EXTENDS Integers

CONSTANTS Deposit, Amount

VARIABLES status, issued    \* per deposit; wrapped shards in existence

Init ==
    /\ status = [d \in Deposit |-> "unknown"]
    /\ issued = 0

Owe(D) ==
    /\ \A d \in D : status[d] = "unknown"
    /\ status' = [d \in Deposit |-> IF d \in D THEN "owed" ELSE status[d]]
    /\ UNCHANGED issued

Mint(d) ==
    /\ status[d] = "owed"
    /\ status' = [status EXCEPT ![d] = "minted"]
    /\ issued' = issued + Amount[d]

GiveUp(d) ==
    /\ status[d] = "owed"
    /\ status' = [status EXCEPT ![d] = "given up"]
    /\ UNCHANGED issued

Next ==
    \/ \E D \in SUBSET Deposit : Owe(D)
    \/ \E d \in Deposit : Mint(d) \/ GiveUp(d)

Spec == Init /\ [][Next]_<<status, issued>>
=============================================================================
