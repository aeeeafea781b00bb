-------------------------------- MODULE MCPeers --------------------------------
(***************************************************************************)
(* Small networks for Peers.  The letter of a block names its branch and   *)
(* the digit its height; G is genesis.                                     *)
(***************************************************************************)
EXTENDS Peers

CONSTANTS alice, bob, carol

Links ==
    ("a1" :> "G") @@ ("a2" :> "a1") @@ ("a3" :> "a2") @@ ("a4" :> "a3") @@
    ("a5" :> "a4") @@ ("a6" :> "a5") @@
    ("b1" :> "G") @@ ("b2" :> "b1") @@ ("b3" :> "b2") @@ ("b4" :> "b3")

MCParent == [b \in Block \ {"G"} |-> Links[b]]

MCWork == [b \in Block |-> 1]

NoPayments == [b \in Block |-> {}]
NoSubmissions == [n \in Node |-> {}]

SyncBlocks == {"G", "a1", "a2", "a3", "a4", "a5", "a6", "b1", "b2"}
SyncHeld == (alice :> {"G", "a1", "a2", "a3", "a4", "a5"}) @@ (bob :> {"G", "b1"})
SyncFound == {"a6", "b2"}

ForkBlocks == {"G", "a1", "a2", "a3", "a4", "b1", "b2", "b3"}
ForkHeld == (alice :> {"G", "a1", "a2", "a3", "a4"}) @@ (bob :> {"G", "b1", "b2", "b3"})

(* Three nodes that know each other, a payment of alice's and a block that *)
(* confirms it.                                                            *)
MeshBlocks == {"G", "a1"}
MeshHeld == [n \in Node |-> {"G"}]
Mesh == {p \in Node \X Node : p[1] # p[2]}
MeshPayments == [b \in Block |-> IF b = "a1" THEN {"t"} ELSE {}]
AliceSubmits == [n \in Node |-> IF n = alice THEN {"t"} ELSE {}]
================================================================================
