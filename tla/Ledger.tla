-------------------------------- MODULE Ledger --------------------------------
(***************************************************************************)
(* The universe of blocks and transactions, and what the ledger of a chain *)
(* ought to be.                                                            *)
(*                                                                         *)
(* A block stands for its hash.  The hash commits to the header and, by    *)
(* the merkle root over txids, to every transaction except its signatures, *)
(* so everything below is a function of the block.  Signatures are not:    *)
(* they belong to the copy of a block somebody hands over (ChainState).    *)
(*                                                                         *)
(* LedgerAt and BlockValid are declarative: they look at the whole branch  *)
(* from genesis and know nothing of undo records or of connecting and      *)
(* disconnecting.  They are what ChainState is compared with.              *)
(***************************************************************************)
EXTENDS Consensus, Sequences, Functions

CONSTANTS
    Block,            \* every block anybody will ever offer, genesis included
    Genesis,
    Parent,           \* prev_hash of every block but genesis
    Ancestors,        \* a block and everything prev_hash leads to from it
    Height,           \* number of prev_hash links down to genesis
    Bits,             \* declared difficulty, compact form
    Time,             \* header timestamp
    MeetsTarget,      \* blocks whose mining hash meets the declared target
    Tx,               \* transactions, by txid
    CoinbaseTx,       \* those that are coinbases
    ClaimedHeight,    \* the height a coinbase encodes
    Inputs,           \* the outpoints a transaction spends
    Outputs,          \* the amounts of its outputs
    Coinbase,         \* the first transaction of a block
    Payments,         \* its other transactions, in order
    CoinbaseMaturity  \* blocks a reward must age

OutPoint == Tx \X Nat

ASSUME TreeAssumption ==
    /\ Genesis \in Block
    /\ Parent \in [Block \ {Genesis} -> Block]
    /\ Ancestors \in [Block -> SUBSET Block]
    /\ Height \in [Block -> Nat]
    /\ Ancestors[Genesis] = {Genesis}
    /\ Height[Genesis] = 0
    /\ \A b \in Block \ {Genesis} :
          /\ Ancestors[b] = Ancestors[Parent[b]] \cup {b}
          /\ Height[b] = Height[Parent[b]] + 1

ASSUME TransactionAssumption ==
    /\ CoinbaseTx \subseteq Tx
    /\ ClaimedHeight \in [CoinbaseTx -> Nat]
    /\ Inputs \in [Tx -> SUBSET OutPoint]
    /\ Outputs \in [Tx -> Seq(Nat)]
    /\ Coinbase \in [Block -> Tx]
    /\ Payments \in [Block -> Seq(Tx)]
    /\ \A t \in Tx : IsFiniteSet(Inputs[t])
    /\ \A t \in CoinbaseTx : Inputs[t] = {}

(* create_genesis_block: one coinbase for height 0, no payments. *)
ASSUME GenesisAssumption ==
    /\ Coinbase[Genesis] \in CoinbaseTx
    /\ ClaimedHeight[Coinbase[Genesis]] = 0
    /\ Payments[Genesis] = <<>>

Work(b) == BlockWork(Bits[b])

(* The work behind a block, from genesis on. *)
CumWork(b) == SumOver([a \in Ancestors[b] |-> Work(a)], Ancestors[b])

ASSUME WorkAssumption == \A b \in Block : Work(b) \in Nat

(***************************************************************************)
(* Amounts.                                                                *)
(***************************************************************************)
Amount(out) == Outputs[out[1]][out[2]]

OutputTotal(t) == SumOver(Outputs[t], DOMAIN Outputs[t])

InputTotal(t) == SumOver([out \in Inputs[t] |-> Amount(out)], Inputs[t])

(* An input that names an output no transaction has is never found, so     *)
(* nothing is lost by leaving such inputs out.                             *)
ASSUME AmountAssumption ==
    \A t \in Tx : \A out \in Inputs[t] : out[2] \in DOMAIN Outputs[out[1]]

(***************************************************************************)
(* Unspent rows.  A row of the utxos table: the outpoint is its primary    *)
(* key, the amount and the owner are those of the output it names.         *)
(***************************************************************************)
Row == [out : OutPoint, height : Nat, coinbase : BOOLEAN]

Keys(rows) == {r.out : r \in rows}

OutsOf(t) == {<<t, i>> : i \in DOMAIN Outputs[t]}

(* check_structure of a payment: it moves something, from somewhere.  That *)
(* its inputs differ and its amounts are in range is in the form of the    *)
(* constants.                                                              *)
CheckStructure(t) == Inputs[t] # {} /\ Outputs[t] # <<>>

RowsOf(t, height, coinbase) ==
    {[out |-> out, height |-> height, coinbase |-> coinbase] : out \in OutsOf(t)}

PaymentSet(b) == {Payments[b][i] : i \in DOMAIN Payments[b]}

(* What the first n payments of b create and spend. *)
CreatedBy(b, n) ==
    UNION {RowsOf(Payments[b][i], Height[b], FALSE) : i \in 1..n}

SpentBy(b, n) == UNION {Inputs[Payments[b][i]] : i \in 1..n}

CreatedIn(b) ==
    CreatedBy(b, Len(Payments[b])) \cup RowsOf(Coinbase[b], Height[b], TRUE)

SpentIn(b) == SpentBy(b, Len(Payments[b]))

Created(b) == UNION {CreatedIn(a) : a \in Ancestors[b]}

Spent(b) == UNION {SpentIn(a) : a \in Ancestors[b]}

(* The unspent outputs of the chain that ends at b: all that was ever      *)
(* created on it and never spent on it.                                    *)
LedgerAt == [b \in Block |-> {r \in Created(b) : r.out \notin Spent(b)}]

(***************************************************************************)
(* Validity of a block on its own branch, said without replaying it.       *)
(***************************************************************************)
Mature(r, height) == r.coinbase => height - r.height >= CoinbaseMaturity

Fees(b) ==
    LET fee == [i \in DOMAIN Payments[b] |->
                   InputTotal(Payments[b][i]) - OutputTotal(Payments[b][i])]
    IN  SumOver(fee, DOMAIN fee)

(* genesis_coinbase pays the subsidy of height 0. *)
ASSUME GenesisRewardAssumption == OutputTotal(Coinbase[Genesis]) = Subsidy(0)

(* What the i-th payment of b may spend. *)
Spendable(b, i) ==
    {r \in LedgerAt[Parent[b]] \cup CreatedBy(b, i-1) :
        r.out \notin SpentBy(b, i-1)}

BlockValid(b) ==
    /\ \A i \in DOMAIN Payments[b] :
          LET t == Payments[b][i]
          IN  /\ \A out \in Inputs[t] :
                    \E r \in Spendable(b, i) :
                        r.out = out /\ Mature(r, Height[b])
              /\ OutputTotal(t) <= InputTotal(t)
              /\ OutsOf(t) \cap Keys(Spendable(b, i)) = {}
    /\ OutputTotal(Coinbase[b]) <= Subsidy(Height[b]) + Fees(b)
    /\ OutsOf(Coinbase[b]) \cap
          Keys(Spendable(b, Len(Payments[b]) + 1)) = {}

ValidBlocks == {b \in Block \ {Genesis} : BlockValid(b)}

(* Every block of the branch but genesis, which is valid by decree. *)
BranchValid(b) == Ancestors[b] \subseteq ValidBlocks \cup {Genesis}

(* total_utxo_value: the sum of every unspent output. *)
LedgerValue(rows) ==
    SumOver([r \in rows |-> Amount(r.out)], rows)
=============================================================================
