------------------------------- MODULE Mempool -------------------------------
(***************************************************************************)
(* src/obsidion/mempool.py: what each operation makes of a pool, seen from *)
(* a chain that ends at a given tip.  A pool is the record                 *)
(*   entries  the transactions waiting,                                    *)
(*   spends   outpoint -> the entry that spends it,                        *)
(*   size     the bytes they take, kept up to date by hand.                *)
(* Where accept raises, Accepts fails and the pool stays as it is.  The    *)
(* signatures of a submitted transaction verify: one that does not is      *)
(* refused like any other, without a trace.                                *)
(***************************************************************************)
EXTENDS Ledger, SequencesExt

CONSTANTS
    Size,            \* serialized bytes, by transaction
    MaxPoolSize,     \* max_size
    MaxTemplateSize  \* max_block_weight less the coinbase's reserve

ASSUME PoolAssumption ==
    /\ Size \in [Tx -> Nat \ {0}]
    /\ MaxPoolSize \in Nat
    /\ MaxTemplateSize \in Nat

EmptyPool == [entries |-> {}, spends |-> <<>>, size |-> 0]

Fee(t) == InputTotal(t) - OutputTotal(t)

(* fee_rate, compared without dividing. *)
PaysLess(s, t) == Fee(s) * Size[t] < Fee(t) * Size[s]

SizeOf(S) == SumOver(Size, S)

(* get_utxo on the chain that ends at tip, and its age in the next block. *)
OnChain(tip, out) == out \in Keys(LedgerAt[tip])

MatureNext(tip, out) ==
    \A r \in LedgerAt[tip] : r.out = out => Mature(r, Height[tip] + 1)

-----------------------------------------------------------------------------
(* Leaving: _remove, for a set of transactions. *)

RemovedFromEntries(pool, S) ==   \* mutant
    [entries |-> pool.entries \ S,
     spends  |-> pool.spends,
     size    |-> pool.size - SizeOf(S \cap pool.entries)]
RemovedAll(pool, S) ==
    [entries |-> pool.entries \ S,
     spends  |-> Restrict(pool.spends,
                          {out \in DOMAIN pool.spends : pool.spends[out] \notin S}),
     size    |-> pool.size - SizeOf(S \cap pool.entries)]

(* What _evict_with_descendants(t) removes: t, and whatever in the pool     *)
(* spends an output of a transaction it removes.                           *)
Family(pool, t) ==
    LET Children(S) ==
            {pool.spends[out] : out \in {o \in DOMAIN pool.spends : o[1] \in S}}
        grown[n \in 0..Cardinality(pool.entries)] ==
            IF n = 0 THEN {t} \cap pool.entries
            ELSE grown[n-1] \cup Children(grown[n-1])
    IN  grown[Cardinality(pool.entries)]

Families(pool, S) == UNION {Family(pool, t) : t \in S}

(* remove_confirmed, for one transaction of a connected block: its own     *)
(* entry goes, then every rival that spends what it has spent.             *)
SettledAlone(pool, t) == RemovedAll(pool, {t})   \* mutant
Settled(pool, t) ==
    LET rest == RemovedAll(pool, {t})
        rivals == {rest.spends[out] : out \in Inputs[t] \cap DOMAIN rest.spends}
    IN  RemovedAll(rest, rivals \cup Families(rest, rivals))

-----------------------------------------------------------------------------
(* Entering: accept. *)

Admissible(pool, tip, t) ==
    /\ t \notin CoinbaseTx
    /\ CheckStructure(t)
    /\ t \notin pool.entries
    /\ Inputs[t] \cap DOMAIN pool.spends = {}
    /\ \A out \in Inputs[t] :
         \/ OnChain(tip, out) /\ MatureNext(tip, out)
         \/ ~OnChain(tip, out) /\ out[1] \in pool.entries
    /\ OutputTotal(t) <= InputTotal(t)

(* sorted, for a set: the next is one that none of the rest comes before.  *)
(* The code leaves ties in order of arrival; which of two that rank alike  *)
(* goes first is left open here.                                           *)
InOrder(S, before) ==
    LET First(rest) == CHOOSE t \in rest : \A s \in rest : <<s, t>> \notin before
        sorted[n \in 0..Cardinality(S)] ==
            IF n = 0 THEN <<>>
            ELSE LET done == sorted[n-1] IN Append(done, First(S \ ToSet(done)))
    IN  sorted[Cardinality(S)]

(* The cheapest entries first.                                             *)
Cheapest(pool) == InOrder(pool.entries, {p \in pool.entries \X pool.entries : PaysLess(p[1], p[2])})

FirstOf(ranked, n) == {ranked[i] : i \in 1..n}

Fits(pool, t, S) == pool.size - SizeOf(S) + Size[t] <= MaxPoolSize

(* How many of the cheapest entries would have to go, if any number will do. *)
Enough(pool, t) ==
    {n \in 0..Cardinality(pool.entries) : Fits(pool, t, FirstOf(Cheapest(pool), n))}

Doomed(pool, t) == FirstOf(Cheapest(pool), Min(Enough(pool, t)))

(* _make_room_for: all of them must pay less than the newcomer. *)
RoomFor(pool, t) ==
    /\ Enough(pool, t) # {}
    /\ \A s \in Doomed(pool, t) : PaysLess(s, t)

Accepts(pool, tip, t) == Admissible(pool, tip, t) /\ RoomFor(pool, t)

Accepted(pool, t) ==
    LET room == RemovedAll(pool, Families(pool, Doomed(pool, t)))
    IN  [entries |-> room.entries \cup {t},
         spends  |-> [out \in DOMAIN room.spends \cup Inputs[t] |->
                        IF out \in Inputs[t] THEN t ELSE room.spends[out]],
         size    |-> room.size + Size[t]]

-----------------------------------------------------------------------------
(* Selecting: the best payers first, but none before what it spends. *)

PaysMore(s, t) == PaysLess(t, s) \/ (~PaysLess(s, t) /\ Fee(s) > Fee(t))

Ranked(pool) == InOrder(pool.entries, {p \in pool.entries \X pool.entries : PaysMore(p[1], p[2])})

SatisfiableByPool(pool, tip, chosen, t) ==   \* mutant
    \A out \in Inputs[t] : OnChain(tip, out) \/ out[1] \in pool.entries
Satisfiable(pool, tip, chosen, t) ==
    \A out \in Inputs[t] : OnChain(tip, out) \/ out[1] \in ToSet(chosen)

TakeOrSkip(pool, tip, chosen, t) ==
    IF /\ t \notin ToSet(chosen)
       /\ SizeOf(ToSet(chosen)) + Size[t] <= MaxTemplateSize
       /\ Satisfiable(pool, tip, chosen, t)
    THEN Append(chosen, t)
    ELSE chosen

OnePass(pool, tip, chosen) ==
    LET ranked == Ranked(pool)
        picked[n \in 0..Len(ranked)] ==
            IF n = 0 THEN chosen
            ELSE TakeOrSkip(pool, tip, picked[n-1], ranked[n])
    IN  picked[Len(ranked)]

(* Passes are made while they add something; a pass that adds nothing      *)
(* changes nothing, so one for each entry is as many as it takes.          *)
SelectOnce(pool, tip) == OnePass(pool, tip, <<>>)   \* mutant
Select(pool, tip) ==
    LET after[n \in 0..Cardinality(pool.entries)] ==
            IF n = 0 THEN <<>> ELSE OnePass(pool, tip, after[n-1])
    IN  after[Cardinality(pool.entries)]
=============================================================================
