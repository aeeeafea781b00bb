----------------------------- MODULE MCChainState -----------------------------
(***************************************************************************)
(* Small block trees for ChainState.  The letter of a block names its      *)
(* branch and the digit its height; G is genesis.                          *)
(***************************************************************************)
EXTENDS ChainState

Cb(b) == <<"coinbase", b>>
Pay(t) == <<"payment", t>>

Easy == <<1, 1792>>     \* target 7 of 64: 8 units of work
Harder == <<1, 768>>   \* target 3: 16 units of work
Hardest == <<1, 256>>  \* target 1: 32 units of work

Blk(parent, time, bits, reward, claimed, payments) ==
    [parent |-> parent, time |-> time, bits |-> bits, reward |-> reward,
     claimed |-> claimed, payments |-> payments]

(* Payments: what they spend and the amounts they pay.  The reward is 8,   *)
(* 4 from height 3 on.                                                     *)
MCPayment ==
    (Pay("t1") :> [ins |-> {<<Cb("G"), 1>>}, outs |-> <<5, 3>>]) @@
    (Pay("t2") :> [ins |-> {<<Pay("t1"), 1>>}, outs |-> <<4>>]) @@
    (Pay("t3") :> [ins |-> {<<Pay("t2"), 1>>, <<Pay("t1"), 2>>}, outs |-> <<7>>]) @@
    (Pay("d1") :> [ins |-> {<<Cb("G"), 1>>}, outs |-> <<8>>]) @@
    (Pay("d2") :> [ins |-> {<<Pay("d1"), 1>>}, outs |-> <<6>>]) @@
    (Pay("young") :> [ins |-> {<<Cb("a1"), 1>>}, outs |-> <<8>>]) @@
    (Pay("minted") :> [ins |-> {<<Cb("G"), 1>>}, outs |-> <<8, 1>>])

MCBlock ==
    ("G"  :> Blk("G", 0, Easy, 8, 0, <<>>)) @@
    \* The a branch: a chain of spends inside a2, fees claimed by its miner.
    ("a1" :> Blk("G", 4, Easy, 8, 1, <<>>)) @@
    ("a2" :> Blk("a1", 5, Easy, 9, 2, <<Pay("t1"), Pay("t2")>>)) @@
    ("a3" :> Blk("a2", 9, Easy, 4, 3, <<Pay("t3")>>)) @@
    \* The b branch: spends the same coin otherwise; b3 has a chain of spends
    \* with the a branch's transaction nowhere in sight.
    ("b1" :> Blk("G", 4, Easy, 8, 1, <<>>)) @@
    ("b2" :> Blk("b1", 5, Easy, 8, 2, <<Pay("d1")>>)) @@
    ("b3" :> Blk("b2", 9, Easy, 6, 3, <<Pay("d2")>>)) @@
    \* The c branch leaves b at b1 and confirms the a branch's payment; c3
    \* spends a coin that c2 has spent.
    ("c2" :> Blk("b1", 5, Easy, 8, 2, <<Pay("t1")>>)) @@
    ("c3" :> Blk("c2", 9, Easy, 4, 3, <<Pay("d1")>>)) @@
    ("c4" :> Blk("c3", 10, Easy, 4, 4, <<>>)) @@
    \* Coinbase-only rivals of the a branch.
    ("e1" :> Blk("G", 4, Easy, 8, 1, <<>>)) @@
    ("e2" :> Blk("e1", 5, Easy, 8, 2, <<>>)) @@
    \* Children of a1 that break one rule each.
    ("i2" :> Blk("a1", 5, Easy, 8, 2, <<Pay("young")>>)) @@    \* immature
    ("o2" :> Blk("a1", 5, Easy, 8, 2, <<Pay("minted")>>)) @@   \* outputs > inputs
    ("r2" :> Blk("a1", 5, Easy, 10, 2, <<Pay("t1"), Pay("t2")>>)) @@ \* reward
    ("q2" :> Blk("a1", 5, Easy, 8, 2, <<Pay("t2"), Pay("t1")>>)) @@ \* order
    ("h2" :> Blk("a1", 5, Easy, 8, 7, <<>>)) @@                  \* claimed height
    ("w2" :> Blk("a1", 5, Harder, 8, 2, <<>>)) @@                \* difficulty
    ("m2" :> Blk("a1", 4, Easy, 8, 2, <<>>)) @@                  \* too early
    ("s2" :> Blk("a1", 5, Easy, 8, 2, <<Pay("t1"), Pay("t1")>>)) @@ \* twice
    ("i3" :> Blk("i2", 9, Easy, 4, 3, <<>>)) @@
    ("h3" :> Blk("h2", 9, Easy, 4, 3, <<>>)) @@
    \* A block that comes before its time: one tick of the clock later its
    \* header is in order.
    ("f1" :> Blk("G",  11, Easy, 8, 1, <<>>)) @@
    \* Branches of different difficulty: the retarget at height 2 finds that k1
    \* was quick and l1 slow, so that k2 outweighs the longer l branch.
    ("k1" :> Blk("G",  1, Easy, 8, 1, <<>>)) @@
    ("k2" :> Blk("k1", 2, Hardest, 8, 2, <<Pay("d1")>>)) @@
    ("l1" :> Blk("G",  8, Easy, 8, 1, <<>>)) @@
    ("l2" :> Blk("l1", 9, Easy, 9, 2, <<Pay("t1"), Pay("t2")>>)) @@
    ("l3" :> Blk("l2", 10, Easy, 4, 3, <<Pay("t3")>>)) @@
    \* As heavy as k2, and invalid.
    ("x2" :> Blk("k1", 2, Hardest, 8, 2, <<Pay("minted")>>))

MCParent == [b \in Block \ {Genesis} |-> MCBlock[b].parent]

MCAncestors ==
    LET up[b \in Block] == IF b = "G" THEN {b} ELSE {b} \cup up[MCBlock[b].parent]
    IN  up

MCHeight == [b \in Block |-> Cardinality(Ancestors[b]) - 1]
MCBits == [b \in Block |-> MCBlock[b].bits]
MCTime == [b \in Block |-> MCBlock[b].time]
MCCoinbase == [b \in Block |-> Cb(b)]
MCPayments == [b \in Block |-> MCBlock[b].payments]
MCCoinbaseTx == {Cb(b) : b \in DOMAIN MCBlock}
MCTx == MCCoinbaseTx \cup DOMAIN MCPayment
MCClaimedHeight == [t \in MCCoinbaseTx |-> MCBlock[t[2]].claimed]
MCInputs == [t \in MCTx |-> IF t \in MCCoinbaseTx THEN {} ELSE MCPayment[t].ins]
MCOutputs ==
    [t \in MCTx |-> IF t \in MCCoinbaseTx THEN <<MCBlock[t[2]].reward>>
                    ELSE MCPayment[t].outs]

ReorgBlocks ==
    {"G", "a1", "a2", "a3", "b1", "b2", "b3", "c2", "c3", "c4"}
RuleBlocks ==
    {"G", "a1", "i2", "o2", "r2", "q2", "h2", "w2", "m2", "s2", "i3", "h3",
     "f1"}
LiveBlocks == {"G", "k1", "k2", "l1", "l2", "l3", "x2"}
ChainBlocks == ReorgBlocks \cup RuleBlocks \cup LiveBlocks
DamageBlocks == {"G", "a1", "a2", "a3", "e1", "e2"}
FutureBlocks == {"G", "f1", "a1"}

(* Besides the block as mined, a copy of it with a bad signature on its    *)
(* first payment.  LiveBlocks come undamaged: HonestCopyWins tells how a   *)
(* damaged copy can keep the node from the heaviest branch.                *)
Damaged ==
    [b \in Block |-> IF MCBlock[b].payments = <<>> \/ b \in LiveBlocks
                     THEN {{}}
                     ELSE {{}, {MCBlock[b].payments[1]}}]

MCPowLimit == Easy

(***************************************************************************)
(* The world of the run "chain".  The tree is three families of blocks,    *)
(* and the peers of one behaviour hand over the blocks of one family: the  *)
(* families share nothing but genesis and a1, and mixing them would only   *)
(* multiply the states.  The clock moves where blocks wait for it.         *)
(***************************************************************************)
Within(F) == Known \cup offered \subseteq F

InRules == Within(RuleBlocks) /\ crashes = 0
InReorg == Within(ReorgBlocks) /\ now = 0
InLive == Within(LiveBlocks) /\ now = 0

Offered ==
    (IF InRules THEN RuleBlocks ELSE {})
        \cup (IF InReorg THEN ReorgBlocks ELSE {})
        \cup (IF InLive THEN LiveBlocks ELSE {})

MCNext ==
    \/ \E b \in Offered : \E damaged \in Copies[b] : Accept(b, damaged)
    \/ Working
    \/ ~InRules /\ Crash
    \/ InRules /\ Tick

MCSpec == Init /\ [][MCNext]_vars

(* The blocks of the heaviest branch are offered over and over (a peer     *)
(* answers getblocks again each time a block turns out to be an orphan),   *)
(* and a call that has begun goes on; all the others come once, often, or  *)
(* never, and the process may die MaxCrashes times.                        *)
FairSpec ==
    /\ MCSpec
    /\ WF_vars(Working)
    /\ \A b \in {"k1", "k2"} : SF_vars(InLive /\ Accept(b, {}))

(* Whatever order the blocks of the tree arrive in, the node ends up on a  *)
(* branch with at least the work of every valid branch there is.           *)
Converges ==
    \/ <>[]~InLive
    \/ <>[](\A b \in LiveBlocks :
              BranchValid(b) => saved.index[saved.tip].cumwork >= CumWork(b))
=============================================================================
