-------------------------------- MODULE MCNode --------------------------------
(***************************************************************************)
(* Small block trees and payments for Node.  The letter of a block names   *)
(* its branch and the digit its height; G is genesis.                      *)
(***************************************************************************)
EXTENDS Node

Cb(b) == <<"coinbase", b>>
Pay(t) == <<"payment", t>>

Easy == <<1, 1792>>  \* target 7 of 64: 8 units of work

(* The reward is 8, 4 from height 3 on; no miner claims fees.              *)
Blk(parent, height, payments) ==
    [parent |-> parent, height |-> height, payments |-> payments]

MCBlock ==
    ("G"  :> Blk("G", 0, <<>>)) @@
    ("s1" :> Blk("G", 1, <<>>)) @@
    \* The a branch confirms a payment, then its child; it may lose the
    \* lead and win it back.
    ("a2" :> Blk("s1", 2, <<Pay("p")>>)) @@
    ("a3" :> Blk("a2", 3, <<Pay("c")>>)) @@
    ("a4" :> Blk("a3", 4, <<>>)) @@
    ("a5" :> Blk("a4", 5, <<>>)) @@
    \* The b branch confirms a rival of the payment, the d branch nothing.
    ("b2" :> Blk("s1", 2, <<>>)) @@
    ("b3" :> Blk("b2", 3, <<Pay("r")>>)) @@
    ("b4" :> Blk("b3", 4, <<>>)) @@
    ("d3" :> Blk("b2", 3, <<>>)) @@
    ("d4" :> Blk("d3", 4, <<>>))

PoolBlocks == {"G", "s1", "a2", "a3", "a4", "a5", "b2", "b3", "b4", "d3", "d4"}

(* What they spend, the amounts they pay and their sizes.  No two pay the  *)
(* same fee by the byte.                                                   *)
MCPayment ==
    (Pay("p") :> [ins |-> {<<Cb("G"), 1>>}, outs |-> <<4, 3>>, size |-> 2]) @@
    (Pay("c") :> [ins |-> {<<Pay("p"), 1>>}, outs |-> <<2>>, size |-> 1]) @@
    (Pay("g") :> [ins |-> {<<Pay("c"), 1>>, <<Pay("p"), 2>>}, outs |-> <<2>>, size |-> 2]) @@
    (Pay("r") :> [ins |-> {<<Cb("G"), 1>>}, outs |-> <<4>>, size |-> 1]) @@
    (Pay("q") :> [ins |-> {<<Cb("s1"), 1>>}, outs |-> <<3>>, size |-> 2]) @@
    (Pay("w") :> [ins |-> {<<Cb("a2"), 1>>}, outs |-> <<5>>, size |-> 1])

MCParent == [b \in Block \ {Genesis} |-> MCBlock[b].parent]
MCAncestors ==
    LET up[b \in Block] == IF b = "G" THEN {b} ELSE {b} \cup up[MCBlock[b].parent]
    IN  up
MCHeight == [b \in Block |-> MCBlock[b].height]
MCBits == [b \in Block |-> Easy]
MCTime == MCHeight
MCCoinbase == [b \in Block |-> Cb(b)]
MCPayments == [b \in Block |-> MCBlock[b].payments]
MCCoinbaseTx == {Cb(b) : b \in Block}
PoolTx == MCCoinbaseTx \cup DOMAIN MCPayment
MCClaimedHeight == [t \in MCCoinbaseTx |-> MCBlock[t[2]].height]
MCInputs == [t \in Tx |-> IF t \in MCCoinbaseTx THEN {} ELSE MCPayment[t].ins]
MCOutputs ==
    [t \in Tx |-> IF t \in MCCoinbaseTx
                  THEN <<IF MCBlock[t[2]].height < 3 THEN 8 ELSE 4>>
                  ELSE MCPayment[t].outs]
MCSize == [t \in Tx |-> IF t \in MCCoinbaseTx THEN 1 ELSE MCPayment[t].size]

MCPowLimit == Easy
=============================================================================
