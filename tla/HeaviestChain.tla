----------------------------- MODULE HeaviestChain -----------------------------
(***************************************************************************)
(* What a chain state promises its callers: it shows one tip at a time,    *)
(* the unspent outputs it shows are those of the chain that ends there,    *)
(* and the tip is replaced, in one step, only by the tip of a branch that  *)
(* is valid from genesis on and has strictly more work.                    *)
(***************************************************************************)
EXTENDS Integers

CONSTANTS
    Genesis,
    GenesisWork,
    LedgerAt,    \* the unspent outputs of the chain that ends at a block
    ValidTips    \* the blocks whose branches are valid

VARIABLES
    chainTip,    \* the block the node believes in
    chainWork,   \* the work behind it
    coins        \* the unspent outputs it shows

chainVars == <<chainTip, chainWork, coins>>

Init ==
    /\ chainTip = Genesis
    /\ chainWork = GenesisWork
    /\ coins = LedgerAt[Genesis]

Adopt(b) ==
    /\ chainTip' = b
    /\ chainWork' \in Nat
    /\ chainWork' > chainWork
    /\ coins' = LedgerAt[b]

Next == \E b \in ValidTips : Adopt(b)

Spec == Init /\ [][Next]_chainVars
=============================================================================
