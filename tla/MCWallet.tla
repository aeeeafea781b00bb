-------------------------------- MODULE MCWallet --------------------------------
(***************************************************************************)
(* A wallet with a deposit on its first key and a mining reward on another *)
(* one, two payments to make and two clients.  The change of a payment     *)
(* that spends the reward is worth enough for the other payment.           *)
(***************************************************************************)
EXTENDS Wallet, TLC

CONSTANTS c1, c2, k0, k1, k2, d1, r1, p1, p2

MCOwner == [d \in Deposit |-> IF d = r1 THEN k1 ELSE k0]
MCWorth == [d \in Deposit |-> IF d = r1 THEN 6 ELSE 4]

Symmetric == Permutations({c1, c2}) \cup Permutations({p1, p2})
================================================================================
