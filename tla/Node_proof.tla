------------------------------ MODULE Node_proof ------------------------------
(***************************************************************************)
(* Proofs about Node, for every block tree, every set of payments and      *)
(* every size of the pool.                                                 *)
(*                                                                         *)
(* That nothing settled waits in the pool (Unsettled) is not inductive:    *)
(* between accept_block and the end of the repair it does not even hold.   *)
(* The invariant IInv says what holds instead, that whatever makes an      *)
(* entry impossible is still on the list of what is to be settled          *)
(* (Scheduled).  It needs the index to be exact, since rivals are found    *)
(* through it, and that what a chain spends it has created (Rooted), since *)
(* the parent of a newcomer may be in the pool instead of on the chain.    *)
(*                                                                         *)
(* That nothing is lost is about the end of a repair, and each of its      *)
(* steps may drop somebody.  RepairInv keeps the account: whoever was owed *)
(* a place is in the pool, confirmed, still to be offered, refused, or     *)
(* among the stranded, who lack an input that only a stranded or a         *)
(* confirmed transaction could bring back.  A family that goes with a      *)
(* settled rival is stranded, and nobody stranded is ever admitted.        *)
(*                                                                         *)
(* What the recursive functions of Mempool compute (a sorted sequence, a   *)
(* family, the passes of a selection) is found in two steps: that there is *)
(* such a function (RecursionExists), and what each of its values          *)
(* satisfies, by induction.                                                *)
(***************************************************************************)
EXTENDS Node, Sums_proof, SequenceTheorems, TLAPS

Scheduled ==
    /\ phase \in {"idle", "reoffer"} => settling = {}
    /\ \A t \in pool.entries :
          /\ t \in Confirmed(tip) => \E x \in settling : At(x) = t
          /\ \A out \in Inputs[t] \cap Spent(tip) :
                \E x \in settling : out \in Inputs[At(x)]

Rooted == \A b \in stored : Spent(b) \subseteq Keys(Created(b))

NoCoinbase == pool.entries \cap CoinbaseTx = {}

IInv == TypeOK /\ IndexExact /\ Scheduled /\ Rooted /\ NoCoinbase

-----------------------------------------------------------------------------
(* What the pool's operations return. *)

(* Exactness and typing of a pool that need not be the variable. *)
Exact(p) ==
    /\ \A t \in p.entries : \A out \in Inputs[t] :
          out \in DOMAIN p.spends /\ p.spends[out] = t
    /\ \A out \in DOMAIN p.spends :
          p.spends[out] \in p.entries /\ out \in Inputs[p.spends[out]]

Typed(p) == p.entries \subseteq Tx /\ p.spends \in [DOMAIN p.spends -> Tx]

(* Whatever set is removed, entries and index go together. *)
LEMMA RemovalExact ==
    ASSUME NEW p, NEW S, Exact(p), Typed(p)
    PROVE  /\ Exact(RemovedAll(p, S))
           /\ Typed(RemovedAll(p, S))
           /\ RemovedAll(p, S).entries = p.entries \ S
<1> DEFINE K == {out \in DOMAIN p.spends : p.spends[out] \notin S}
           q == RemovedAll(p, S)
<1>1. /\ q.entries = p.entries \ S
      /\ q.spends = [x \in K |-> p.spends[x]]
  BY DEF RemovedAll, Restrict
<1>2. DOMAIN q.spends = K /\ \A x \in K : q.spends[x] = p.spends[x]
  BY <1>1
<1>3. Exact(q)
  BY <1>1, <1>2 DEF Exact
<1>4. Typed(q)
  BY <1>1, <1>2 DEF Typed
<1> QED
  BY <1>1, <1>3, <1>4

(* Settling t removes it and every entry that shares an input with it. *)
LEMMA SettledExact ==
    ASSUME NEW p, NEW t \in Tx, Exact(p), Typed(p)
    PROVE  /\ Exact(Settled(p, t))
           /\ Typed(Settled(p, t))
           /\ Settled(p, t).entries \subseteq p.entries \ {t}
           /\ \A u \in Settled(p, t).entries : Inputs[u] \cap Inputs[t] = {}
<1> DEFINE rest == RemovedAll(p, {t})
           rivals == {rest.spends[out] : out \in Inputs[t] \cap DOMAIN rest.spends}
           gone == rivals \cup Families(rest, rivals)
<1>1. Exact(rest) /\ Typed(rest) /\ rest.entries = p.entries \ {t}
  BY RemovalExact
<1>2. Settled(p, t) = RemovedAll(rest, gone)
  BY DEF Settled
<1> HIDE DEF rest
<1>3. /\ Exact(Settled(p, t)) /\ Typed(Settled(p, t))
      /\ Settled(p, t).entries = rest.entries \ gone
  <2> HIDE DEF gone
  <2> QED BY <1>1, <1>2, RemovalExact
<1>4. ASSUME NEW u \in Settled(p, t).entries, NEW out \in Inputs[u], out \in Inputs[t]
      PROVE  FALSE
  <2>1. u \in rest.entries /\ u \notin gone
    BY <1>3
  <2>2. out \in DOMAIN rest.spends /\ rest.spends[out] = u
    BY <2>1, <1>1 DEF Exact
  <2>3. u \in rivals
    BY <2>2, <1>4
  <2> QED BY <2>1, <2>3
<1> QED
  BY <1>1, <1>3, <1>4

(* An admissible newcomer finds its inputs free in the index. *)
LEMMA AcceptedExact ==
    ASSUME NEW p, NEW t \in Tx, Exact(p), Typed(p), Inputs[t] \cap DOMAIN p.spends = {}
    PROVE  /\ Exact(Accepted(p, t))
           /\ Typed(Accepted(p, t))
           /\ Accepted(p, t).entries \subseteq p.entries \cup {t}
<1> DEFINE doomed == Families(p, Doomed(p, t))
           room == RemovedAll(p, doomed)
           q == Accepted(p, t)
<1>1. Exact(room) /\ Typed(room) /\ room.entries = p.entries \ doomed
  <2> HIDE DEF doomed
  <2> QED BY RemovalExact
<1>2. /\ q.entries = room.entries \cup {t}
      /\ q.spends = [out \in DOMAIN room.spends \cup Inputs[t] |->
                        IF out \in Inputs[t] THEN t ELSE room.spends[out]]
  BY DEF Accepted
<1>3. \A u \in room.entries : Inputs[u] \cap Inputs[t] = {}
  BY <1>1 DEF Exact
<1> HIDE DEF room, q
<1>4. /\ DOMAIN q.spends = DOMAIN room.spends \cup Inputs[t]
      /\ \A out \in DOMAIN q.spends :
            q.spends[out] = IF out \in Inputs[t] THEN t ELSE room.spends[out]
  BY <1>2
<1>5. Exact(q)
  BY <1>1, <1>2, <1>3, <1>4 DEF Exact
<1>6. Typed(q)
  BY <1>1, <1>2, <1>4 DEF Typed
<1> QED
  BY <1>1, <1>2, <1>5, <1>6 DEF q

-----------------------------------------------------------------------------
(* What a chain spends and creates. *)

LEMMA PlaceType == \A x \in PlacesIn(Block) : At(x) \in Tx
  BY TransactionAssumption DEF PlacesIn, At

LEMMA SpentAt ==
    ASSUME NEW b \in Block, NEW out
    PROVE  /\ out \in Spent(b) <=>
                \E x \in PlacesIn(Ancestors[b]) : x[2] # 0 /\ out \in Inputs[At(x)]
<1>1. Ancestors[b] \subseteq Block
  BY TreeAssumption
<1>2. \A a \in Block : Len(Payments[a]) \in Nat
  BY TransactionAssumption
<1>3. ASSUME out \in Spent(b)
      PROVE  \E x \in PlacesIn(Ancestors[b]) : x[2] # 0 /\ out \in Inputs[At(x)]
  <2>1. PICK a \in Ancestors[b] : out \in SpentIn(a)
    BY <1>3 DEF Spent
  <2>2. PICK i \in 1..Len(Payments[a]) : out \in Inputs[Payments[a][i]]
    BY <2>1 DEF SpentIn, SpentBy
  <2>3. <<a, i>> \in PlacesIn(Ancestors[b])
    BY <1>1, <1>2 DEF PlacesIn
  <2> QED BY <1>1, <1>2, <2>2, <2>3 DEF At
<1>4. ASSUME NEW x \in PlacesIn(Ancestors[b]), x[2] # 0, out \in Inputs[At(x)]
      PROVE  out \in Spent(b)
  <2>1. PICK a \in Ancestors[b] : x \in {a} \X (0..Len(Payments[a]))
    BY DEF PlacesIn
  <2>2. x[1] = a /\ x[2] \in 1..Len(Payments[a])
    BY <1>1, <1>2, <1>4, <2>1
  <2>3. out \in SpentIn(a)
    BY <1>4, <2>2 DEF SpentIn, SpentBy, At
  <2> QED BY <2>3 DEF Spent
<1> QED BY <1>3, <1>4

(* Every output of a chain is one of its coinbase's or of a payment it has *)
(* confirmed.                                                              *)
LEMMA MakerConfirmed ==
    ASSUME NEW b \in Block, NEW out \in Keys(Created(b))
    PROVE  out[1] \in Confirmed(b) \cup CoinbaseTx
<1>1. Ancestors[b] \subseteq Block
  BY TreeAssumption
<1>2. \A a \in Block : Len(Payments[a]) \in Nat
  BY TransactionAssumption
<1>3. PICK a \in Ancestors[b] : out \in Keys(CreatedIn(a))
  BY DEF Created, Keys
<1>4. CASE out \in Keys(RowsOf(Coinbase[a], Height[a], TRUE))
  <2>1. out[1] = Coinbase[a]
    BY <1>4 DEF Keys, RowsOf, OutsOf
  <2> QED BY <1>1, <2>1, StructureAssumption
<1>5. CASE out \in Keys(CreatedBy(a, Len(Payments[a])))
  <2>1. PICK i \in 1..Len(Payments[a]) : out \in Keys(RowsOf(Payments[a][i], Height[a], FALSE))
    BY <1>5 DEF Keys, CreatedBy
  <2>2. out[1] = Payments[a][i]
    BY <2>1 DEF Keys, RowsOf, OutsOf
  <2>3. <<a, i>> \in PlacesIn(Ancestors[b]) /\ <<a, i>>[2] # 0
    BY <1>1, <1>2 DEF PlacesIn
  <2>4. At(<<a, i>>) = out[1]
    BY <1>1, <1>2, <2>2 DEF At
  <2> QED BY <2>3, <2>4 DEF Confirmed, PaymentsIn
<1> QED BY <1>3, <1>4, <1>5 DEF CreatedIn, Keys

(* A valid block on top of a chain that has created what it spends. *)
LEMMA StillRooted ==
    ASSUME NEW b \in Block \ {Genesis}, BranchValid(b),
           Spent(Parent[b]) \subseteq Keys(Created(Parent[b]))
    PROVE  Spent(b) \subseteq Keys(Created(b))
<1> DEFINE p == Parent[b]
<1>1. p \in Block /\ Ancestors[b] = Ancestors[p] \cup {b}
  BY TreeAssumption
<1>2. Spent(b) = Spent(p) \cup SpentIn(b) /\ Created(b) = Created(p) \cup CreatedIn(b)
  BY <1>1 DEF Spent, Created
<1>3. BlockValid(b)
  BY <1>1 DEF BranchValid, ValidBlocks
<1>4. ASSUME NEW out \in SpentIn(b)
      PROVE  out \in Keys(Created(b))
  <2>0. Len(Payments[b]) \in Nat /\ DOMAIN Payments[b] = 1..Len(Payments[b])
    BY TransactionAssumption
  <2>1. PICK i \in 1..Len(Payments[b]) : out \in Inputs[Payments[b][i]]
    BY <1>4 DEF SpentIn, SpentBy
  <2>2. PICK r \in Spendable(b, i) : r.out = out
    BY <1>3, <2>0, <2>1 DEF BlockValid
  <2>3. CASE r \in LedgerAt[p]
    <3>1. r \in Created(p)
      BY <1>1, <2>3 DEF LedgerAt
    <3> QED BY <1>2, <2>2, <3>1 DEF Keys
  <2>4. CASE r \in CreatedBy(b, i-1)
    <3>1. PICK j \in 1..(i-1) : r \in RowsOf(Payments[b][j], Height[b], FALSE)
      BY <2>4 DEF CreatedBy
    <3>2. j \in 1..Len(Payments[b])
      BY <2>0
    <3>3. r \in CreatedBy(b, Len(Payments[b]))
      BY <3>1, <3>2 DEF CreatedBy
    <3> QED BY <1>2, <2>2, <3>3 DEF CreatedIn, Keys
  <2> QED BY <2>2, <2>3, <2>4 DEF Spendable
<1>5. Keys(Created(p)) \subseteq Keys(Created(b))
  BY <1>2 DEF Keys
<1> QED BY <1>2, <1>4, <1>5
-----------------------------------------------------------------------------
(* The invariant. *)

(* What enters spends nothing the chain has spent, and is not confirmed.   *)
LEMMA NewcomerUnspent ==
    ASSUME IInv, settling = {}, NEW t \in Tx, Admissible(pool, tip, t)
    PROVE  /\ Inputs[t] \cap Spent(tip) = {}
           /\ t \notin Confirmed(tip)
<1>1. tip \in Block /\ tip \in stored
  BY DEF IInv, TypeOK
<1>2. ASSUME NEW out \in Inputs[t], out \in Spent(tip)
      PROVE  FALSE
  <2>1. ~OnChain(tip, out)
    <3>1. \A r \in LedgerAt[tip] : r.out \notin Spent(tip)
      BY <1>1 DEF LedgerAt
    <3> QED BY <1>2, <3>1 DEF OnChain, Keys
  <2>2. out[1] \in pool.entries
    BY <1>2, <2>1 DEF Admissible
  <2>3. out[1] \in Confirmed(tip) \cup CoinbaseTx
    BY <1>1, <1>2, MakerConfirmed DEF IInv, Rooted
  <2> QED BY <2>2, <2>3 DEF IInv, Scheduled, NoCoinbase
<1>3. ASSUME t \in Confirmed(tip)
      PROVE  FALSE
  <2>1. PICK x \in PlacesIn(Ancestors[tip]) : x[2] # 0 /\ At(x) = t
    BY <1>3 DEF Confirmed, PaymentsIn
  <2>2. PICK out \in Inputs[t] : TRUE
    BY DEF Admissible, CheckStructure
  <2>3. out \in Spent(tip)
    BY <1>1, <2>1, <2>2, SpentAt
  <2> QED BY <2>2, <2>3, <1>2
<1> QED BY <1>2, <1>3

LEMMA EmptyIndex == <<>> \in [{} -> Tx]
<1>1. <<>> \in Seq(Tx)
  OBVIOUS
<1>2. <<>> \in [1..Len(<<>>) -> Tx]
  BY <1>1
<1> QED BY <1>2

LEMMA Start == Init => IInv
<1> SUFFICES ASSUME Init PROVE IInv
  OBVIOUS
<1>1. /\ pool.entries = {}
      /\ pool.spends = <<>>
      /\ DOMAIN pool.spends = {}
  BY DEF Init, EmptyPool
<1>2. TypeOK
  <2>1. pool.spends \in [DOMAIN pool.spends -> Tx]
    BY <1>1, EmptyIndex
  <2> QED BY <1>1, <2>1, TreeAssumption DEF Init, TypeOK, Phases
<1>3. IndexExact /\ Scheduled /\ NoCoinbase
  BY <1>1 DEF Init, IndexExact, Scheduled, NoCoinbase
<1>4. Rooted
  <2>1. Payments[Genesis] = <<>> /\ Ancestors[Genesis] = {Genesis}
    BY GenesisAssumption, TreeAssumption
  <2>2. SpentIn(Genesis) = {}
    BY <2>1 DEF SpentIn, SpentBy
  <2>3. Spent(Genesis) = {}
    BY <2>1, <2>2 DEF Spent
  <2> QED BY <2>3 DEF Init, Rooted
<1> QED BY <1>2, <1>3, <1>4 DEF IInv

(* A block enters the chain. *)
LEMMA BlockStep ==
    ASSUME IInv, NEW b \in Block \ {Genesis}, BranchValid(b),
           AcceptSidechain(b) \/ AcceptHeavier(b)
    PROVE  IInv'
<1>0. /\ Parent[b] \in stored /\ stored' = stored \cup {b} /\ pool' = pool
      /\ stored \subseteq Block /\ tip \in Block /\ phase = "idle"
      /\ Ancestors \in [Block -> SUBSET Block]
      /\ settling = {}
  BY TreeAssumption DEF AcceptSidechain, AcceptHeavier, IInv, TypeOK, Scheduled
<1>1. Rooted'
  <2>1. Spent(b) \subseteq Keys(Created(b))
    BY <1>0, StillRooted DEF IInv, Rooted
  <2> QED BY <1>0, <2>1 DEF IInv, Rooted
<1>2. IndexExact' /\ NoCoinbase'
  BY <1>0 DEF IInv, IndexExact, NoCoinbase
<1>3. CASE AcceptSidechain(b)
  <2>1. UNCHANGED <<tip, pool, repair>>
    BY <1>3 DEF AcceptSidechain
  <2>2. TypeOK'
    BY <1>0, <2>1 DEF IInv, TypeOK, repair
  <2>3. Scheduled'
    BY <2>1 DEF IInv, Scheduled, repair
  <2> QED BY <1>1, <1>2, <2>2, <2>3 DEF IInv
<1>4. CASE AcceptHeavier(b)
  <2>1. /\ tip' = b
        /\ phase' = "taken"
        /\ settling' = PlacesIn(Ancestors[b] \ Ancestors[tip])
        /\ pending' \subseteq PlacesIn(Ancestors[tip] \ Ancestors[b])
        /\ failing' = {}
        /\ progressed' = FALSE
        /\ owed' = pool.entries \cup PaymentsIn(Ancestors[tip] \ Ancestors[b])
    BY <1>4 DEF AcceptHeavier
  <2>2. \A B \in SUBSET Block : PlacesIn(B) \subseteq PlacesIn(Block) /\ PaymentsIn(B) \subseteq Tx
    BY PlaceType DEF PlacesIn, PaymentsIn
  <2>3. TypeOK'
    BY <1>0, <2>1, <2>2 DEF IInv, TypeOK, Phases
  <2>4. \A x \in PlacesIn(Ancestors[b]) :
            x \in settling' \/ x \in PlacesIn(Ancestors[tip])
    BY <2>1 DEF PlacesIn
  <2>5. ASSUME NEW t \in pool.entries, t \in Confirmed(b)
        PROVE  \E x \in settling' : At(x) = t
    <3>1. PICK x \in PlacesIn(Ancestors[b]) : x[2] # 0 /\ At(x) = t
      BY <2>5 DEF Confirmed, PaymentsIn
    <3>2. x \notin PlacesIn(Ancestors[tip])
      BY <1>0, <3>1 DEF IInv, Scheduled, Confirmed, PaymentsIn
    <3> QED BY <2>4, <3>1, <3>2
  <2>6. ASSUME NEW t \in pool.entries, NEW out \in Inputs[t], out \in Spent(b)
        PROVE  \E x \in settling' : out \in Inputs[At(x)]
    <3>1. PICK x \in PlacesIn(Ancestors[b]) : x[2] # 0 /\ out \in Inputs[At(x)]
      BY <2>6, SpentAt
    <3>2. out \notin Spent(tip)
      BY <1>0, <2>6 DEF IInv, Scheduled
    <3>3. x \notin PlacesIn(Ancestors[tip])
      BY <1>0, <3>1, <3>2, SpentAt
    <3> QED BY <2>4, <3>1, <3>3
  <2>7. Scheduled'
    BY <1>0, <2>1, <2>5, <2>6 DEF Scheduled, Confirmed, PaymentsIn, PlacesIn, At
  <2> QED BY <1>1, <1>2, <2>3, <2>7 DEF IInv
<1> QED BY <1>3, <1>4

(* One transaction of a connected block is settled. *)
LEMMA SettleStep == ASSUME IInv, SettleNext PROVE IInv'
<1>1. PICK x \in settling :
         /\ pool' = Settled(pool, At(x))
         /\ settling' = settling \ {x}
  BY DEF SettleNext
<1> DEFINE t == At(x)
<1>2. /\ t \in Tx
      /\ Exact(pool) /\ Typed(pool)
  BY PlaceType DEF IInv, TypeOK, IndexExact, Exact, Typed
<1>3. UNCHANGED <<chain, phase, pending, failing, progressed, owed>> /\ phase = "settle"
  BY DEF SettleNext
<1> HIDE DEF t
<1>4. /\ Exact(pool') /\ Typed(pool')
      /\ pool'.entries \subseteq pool.entries \ {t}
      /\ \A u \in pool'.entries : Inputs[u] \cap Inputs[t] = {}
  BY <1>1, <1>2, SettledExact DEF t
<1>5. TypeOK'
  BY <1>1, <1>3, <1>4 DEF IInv, TypeOK, Typed, chain
<1>6. IndexExact' /\ NoCoinbase' /\ Rooted'
  BY <1>3, <1>4 DEF IInv, IndexExact, Exact, NoCoinbase, Rooted, chain
<1>7. Scheduled'
  <2>1. tip' = tip /\ phase' = "settle"
    BY <1>3 DEF chain
  <2>2. \A u \in pool'.entries :
            /\ u \in Confirmed(tip) => \E y \in settling' : At(y) = u
            /\ \A out \in Inputs[u] \cap Spent(tip) :
                  \E y \in settling' : out \in Inputs[At(y)]
    <3> TAKE u \in pool'.entries
    <3>1. u \in pool.entries /\ u # At(x) /\ Inputs[u] \cap Inputs[At(x)] = {}
      BY <1>4 DEF t
    <3>2. /\ u \in Confirmed(tip) => \E y \in settling : At(y) = u
          /\ \A out \in Inputs[u] \cap Spent(tip) :
                \E y \in settling : out \in Inputs[At(y)]
      BY <3>1 DEF IInv, Scheduled
    <3> QED BY <1>1, <3>1, <3>2
  <2> QED BY <2>1, <2>2 DEF Scheduled, Confirmed, PaymentsIn, PlacesIn, At
<1> QED BY <1>5, <1>6, <1>7 DEF IInv

(* A transaction is admitted, submitted or offered back. *)
LEMMA AdmitStep ==
    ASSUME IInv, settling = {}, NEW t \in Tx, Accepts(pool, tip, t),
           pool' = Accepted(pool, t), UNCHANGED <<chain, settling, phase>>
    PROVE  IndexExact' /\ Scheduled' /\ Rooted' /\ NoCoinbase' /\ Typed(pool')
<1>1. Admissible(pool, tip, t)
  BY DEF Accepts
<1>2. Exact(pool) /\ Typed(pool)
  BY DEF IInv, TypeOK, IndexExact, Exact, Typed
<1>3. Exact(pool') /\ Typed(pool') /\ pool'.entries \subseteq pool.entries \cup {t}
  <2>1. Inputs[t] \cap DOMAIN pool.spends = {}
    BY <1>1 DEF Admissible
  <2> QED BY <1>2, <2>1, AcceptedExact
<1>4. IndexExact' /\ Rooted' /\ NoCoinbase'
  <2>1. t \notin CoinbaseTx
    BY <1>1 DEF Admissible
  <2> QED BY <1>3, <2>1 DEF IInv, IndexExact, Exact, Rooted, NoCoinbase, chain
<1>5. Scheduled'
  <2>1. Inputs[t] \cap Spent(tip) = {} /\ t \notin Confirmed(tip)
    BY <1>1, NewcomerUnspent
  <2>2. tip' = tip /\ settling' = {} /\ phase' = phase
    BY DEF chain
  <2>3. \A u \in pool'.entries :
            /\ u \notin Confirmed(tip)
            /\ Inputs[u] \cap Spent(tip) = {}
    BY <1>3, <2>1 DEF IInv, Scheduled
  <2> QED BY <2>2, <2>3 DEF Scheduled, Confirmed, PaymentsIn, PlacesIn, At
<1> QED BY <1>3, <1>4, <1>5

LEMMA Preserved == IInv /\ [Next]_vars => IInv'
<1> SUFFICES ASSUME IInv, [Next]_vars PROVE IInv'
  OBVIOUS
<1>1. CASE \E b \in Block \ {Genesis} : BranchValid(b) /\ (AcceptSidechain(b) \/ AcceptHeavier(b))
  BY <1>1, BlockStep
<1>2. CASE Absorb
  BY <1>2 DEF Absorb, IInv, TypeOK, IndexExact, Scheduled, Rooted, NoCoinbase, Phases, chain
<1>3. CASE SettleNext
  BY <1>3, SettleStep
<1>4. CASE Reconsider
  BY <1>4 DEF Reconsider, IInv, TypeOK, IndexExact, Scheduled, Rooted, NoCoinbase, Phases, chain
<1>5. CASE OfferNext
  <2>1. PICK x \in pending :
           /\ pending' = pending \ {x}
           /\ \/ /\ Accepts(pool, tip, At(x))
                 /\ pool' = Accepted(pool, At(x))
                 /\ progressed' = TRUE
                 /\ owed' = owed \ (pool.entries \ pool'.entries)
                 /\ UNCHANGED failing
              \/ /\ ~Accepts(pool, tip, At(x))
                 /\ failing' = failing \cup {x}
                 /\ UNCHANGED <<pool, progressed, owed>>
    BY <1>5 DEF OfferNext
  <2>2. /\ phase = "reoffer" /\ settling = {}
        /\ UNCHANGED <<chain, phase, settling>>
        /\ At(x) \in Tx
    BY <1>5, PlaceType DEF OfferNext, IInv, TypeOK, Scheduled
  <2>3. CASE Accepts(pool, tip, At(x)) /\ pool' = Accepted(pool, At(x))
    <3>1. IndexExact' /\ Scheduled' /\ Rooted' /\ NoCoinbase' /\ Typed(pool')
      BY <2>2, <2>3, AdmitStep
    <3>2. TypeOK'
      BY <2>1, <2>2, <3>1 DEF IInv, TypeOK, Typed, chain
    <3> QED BY <3>1, <3>2 DEF IInv
  <2>4. CASE UNCHANGED pool
    <3>1. TypeOK'
      BY <2>1, <2>2, <2>4 DEF IInv, TypeOK, chain
    <3> QED BY <2>2, <2>4, <3>1 DEF IInv, IndexExact, Scheduled, Rooted, NoCoinbase, chain
  <2> QED BY <2>1, <2>3, <2>4
<1>6. CASE NextPass
  BY <1>6 DEF NextPass, IInv, TypeOK, IndexExact, Scheduled, Rooted, NoCoinbase, Phases, chain
<1>7. CASE Finish
  <2>1. settling = {} /\ settling' = {}
    BY <1>7 DEF Finish, Finished, Idle, IInv, Scheduled
  <2> QED BY <1>7, <2>1 DEF Finish, Idle, IInv, TypeOK, IndexExact, Scheduled, Rooted, NoCoinbase, Phases, chain
<1>8. CASE \E t \in Tx : SubmitTx(t)
  <2>1. PICK t \in Tx : SubmitTx(t)
    BY <1>8
  <2>2. /\ settling = {} /\ Accepts(pool, tip, t) /\ pool' = Accepted(pool, t)
        /\ UNCHANGED <<chain, repair>>
    BY <2>1 DEF SubmitTx, IInv, Scheduled
  <2>3. IndexExact' /\ Scheduled' /\ Rooted' /\ NoCoinbase' /\ Typed(pool')
    BY <2>2, AdmitStep DEF repair
  <2>4. TypeOK'
    BY <2>2, <2>3 DEF IInv, TypeOK, Typed, chain, repair
  <2> QED BY <2>3, <2>4 DEF IInv
<1>9. CASE Restart
  <2>1. pool' = EmptyPool /\ Idle /\ UNCHANGED chain
    BY <1>9 DEF Restart
  <2>2. pool'.entries = {} /\ DOMAIN pool'.spends = {} /\ pool'.spends = <<>>
    BY <2>1 DEF EmptyPool
  <2>3. pool'.spends \in [DOMAIN pool'.spends -> Tx]
    BY <2>2, EmptyIndex
  <2> QED BY <2>1, <2>2, <2>3 DEF Idle, IInv, TypeOK, IndexExact, Scheduled, Rooted,
                                  NoCoinbase, Phases, chain
<1>10. CASE UNCHANGED vars
  BY <1>10 DEF vars, chain, repair, IInv, TypeOK, IndexExact, Scheduled, Rooted, NoCoinbase,
               Confirmed, PaymentsIn, PlacesIn, At
<1> QED
  BY <1>1, <1>2, <1>3, <1>4, <1>5, <1>6, <1>7, <1>8, <1>9, <1>10 DEF Next

LEMMA Invariant == Spec => []IInv
  BY Start, Preserved, PTL DEF Spec

-----------------------------------------------------------------------------
(* The network thread never leaves anything of one repair for the next. *)
THEOREM TypeCorrect == Spec => []TypeOK
<1>1. IInv => TypeOK
  BY DEF IInv
<1> QED BY <1>1, Invariant, PTL

(* Through admissions, evictions, settled rivals, repairs and restarts the *)
(* double-spend index of mempool.py agrees with the entries.               *)
THEOREM IndexCorrect == Spec => []IndexExact
<1>1. IInv => IndexExact
  BY DEF IInv
<1> QED BY <1>1, Invariant, PTL

(* Once _absorb is through, nothing in the pool is confirmed or conflicts  *)
(* with the active chain, whichever blocks left and entered it.            *)
THEOREM NothingSettledWaits == Spec => []Unsettled
<1>1. IInv => Unsettled
  BY DEF IInv, Scheduled, Unsettled
<1> QED BY <1>1, Invariant, PTL

-----------------------------------------------------------------------------
(* Sorting: the cheapest entries first, and the best payers first. *)

(* In a finite set that `before` orders strictly, some element comes       *)
(* first.                                                                  *)
LEMMA SomeFirst ==
    ASSUME NEW S, IsFiniteSet(S), S # {}, NEW before,
           \A s \in S : <<s, s>> \notin before,
           \A s, t, u \in S : <<s, t>> \in before /\ <<t, u>> \in before => <<s, u>> \in before
    PROVE  \E t \in S : \A s \in S : <<s, t>> \notin before
<1> DEFINE P == {T \in SUBSET S : T # {} => \E t \in T : \A s \in T : <<s, t>> \notin before}
<1>1. {} \in P
  OBVIOUS
<1>2. ASSUME NEW T \in SUBSET S, NEW x \in S \ T, T \in P PROVE T \cup {x} \in P
  <2>1. CASE T = {}
    BY <2>1
  <2>2. CASE T # {}
    <3>1. PICK t \in T : \A s \in T : <<s, t>> \notin before
      BY <1>2, <2>2
    <3>2. CASE <<x, t>> \in before
      <4>1. \A s \in T \cup {x} : <<s, x>> \notin before
        BY <3>1, <3>2
      <4> QED
        BY <4>1
    <3>3. CASE <<x, t>> \notin before
      BY <3>1, <3>3
    <3> QED
      BY <3>2, <3>3
  <2> QED
    BY <2>1, <2>2
<1>3. S \in P
  <2> HIDE DEF P
  <2> QED
    BY <1>1, <1>2, FiniteSetInduction
<1> QED
  BY <1>3

(* The recursion behind a sorted sequence.                                 *)
Foremost(rest, before) == CHOOSE t \in rest : \A s \in rest : <<s, t>> \notin before

IsSorting(g, S, before) ==
    g = [n \in 0..Cardinality(S) |->
            IF n = 0 THEN <<>>
            ELSE Append(g[n - 1], Foremost(S \ ToSet(g[n - 1]), before))]

(* InOrder is the last value of the function it is made with. *)
LEMMA InOrderIsSorting ==
    ASSUME NEW S, NEW before
    PROVE  InOrder(S, before) = (CHOOSE g : IsSorting(g, S, before))[Cardinality(S)]
BY DEF InOrder, IsSorting, Foremost

(* What appending does to a sequence and to the set of its elements. *)
LEMMA ToSetAppend ==
    ASSUME NEW X, NEW s \in Seq(X), NEW x \in X
    PROVE  /\ Append(s, x) \in Seq(X)
           /\ Len(Append(s, x)) = Len(s) + 1
           /\ ToSet(Append(s, x)) = ToSet(s) \cup {x}
           /\ \A i \in 1..Len(s) : Append(s, x)[i] = s[i]
           /\ Append(s, x)[Len(s) + 1] = x
<1> DEFINE a == Append(s, x)
<1>1. /\ a \in Seq(X) /\ Len(a) = Len(s) + 1 /\ Len(s) \in Nat
      /\ DOMAIN a = 1..(Len(s) + 1) /\ DOMAIN s = 1..Len(s)
      /\ \A i \in 1..Len(s) : a[i] = s[i]
      /\ a[Len(s) + 1] = x
  OBVIOUS
<1> HIDE DEF a
<1>2. ToSet(a) \subseteq ToSet(s) \cup {x}
  BY <1>1 DEF ToSet
<1>3. ToSet(s) \subseteq ToSet(a)
  BY <1>1 DEF ToSet
<1>4. x \in ToSet(a)
  BY <1>1 DEF ToSet
<1> QED
  BY <1>1, <1>2, <1>3, <1>4 DEF a

(* There is such a function, whatever `before` is. *)
LEMMA SortingExists ==
    ASSUME NEW S, IsFiniteSet(S), NEW before
    PROVE  \E g : IsSorting(g, S, before)
<1> DEFINE N == Cardinality(S)
           D == {Foremost(S \ T, before) : T \in SUBSET S}
           X == Seq(D)
           step(s) == Append(s, Foremost(S \ ToSet(s), before))
           F == [n \in 1..N |-> [s \in X |-> step(s)]]
<1>0. N \in Nat
  BY FS_CardinalityType
<1>1. <<>> \in X
  OBVIOUS
<1>2. ASSUME NEW s \in X PROVE step(s) \in X
  <2>1. S \ ToSet(s) = S \ (S \cap ToSet(s)) /\ S \cap ToSet(s) \in SUBSET S
    OBVIOUS
  <2>2. Foremost(S \ ToSet(s), before) \in D
    BY <2>1
  <2> HIDE DEF D
  <2> QED
    BY <2>2
<1> HIDE DEF X, step, N
<1>3. \A n \in 1..N : \A s \in X : F[n][s] = step(s)
  OBVIOUS
<1>4. StaysIn(X, F, N)
  BY <1>2, <1>3 DEF StaysIn
<1> HIDE DEF F
<1>5. PICK g \in [0..N -> X] : Follows(g, <<>>, F, N)
  BY <1>0, <1>1, <1>4, RecursionExists
<1> DEFINE h == [n \in 0..N |-> IF n = 0 THEN <<>> ELSE step(g[n - 1])]
<1>6. ASSUME NEW n \in 0..N PROVE g[n] = h[n]
  <2>1. CASE n = 0
    BY <1>5, <2>1 DEF Follows
  <2>2. CASE n # 0
    <3>1. n - 1 \in 0..N /\ n \in 1..N
      BY <1>0, <2>2
    <3>2. g[n - 1] \in X
      BY <3>1
    <3> QED
      BY <1>3, <1>5, <2>2, <3>1, <3>2 DEF Follows
  <2> QED
    BY <2>1, <2>2
<1>7. g = h
  BY <1>6
<1> QED
  BY <1>7 DEF IsSorting, step, N

(* Where `before` is a strict order, ties allowed, the sorted sequence has *)
(* each element of the set, and each once.                                 *)
LEMMA InOrderFacts ==
    ASSUME NEW S, IsFiniteSet(S), NEW before,
           \A s \in S : <<s, s>> \notin before,
           \A s, t, u \in S : <<s, t>> \in before /\ <<t, u>> \in before => <<s, u>> \in before
    PROVE  /\ InOrder(S, before) \in Seq(S)
           /\ ToSet(InOrder(S, before)) = S
           /\ Len(InOrder(S, before)) = Cardinality(S)
<1> DEFINE N == Cardinality(S)
           g == CHOOSE h : IsSorting(h, S, before)
<1>0. N \in Nat
  BY FS_CardinalityType
<1>1. IsSorting(g, S, before) /\ InOrder(S, before) = g[N]
  BY SortingExists, InOrderIsSorting
<1> HIDE DEF g
<1> DEFINE Good(n) ==
              /\ g[n] \in Seq(S) /\ Len(g[n]) = n
              /\ Cardinality(ToSet(g[n])) = n
           P == {n \in Nat : n <= N => Good(n)}
<1>2. 0 \in P
  <2>1. g[0] = <<>>
    BY <1>0, <1>1 DEF IsSorting
  <2>2. ToSet(g[0]) = {} /\ Cardinality({}) = 0
    BY <2>1, FS_EmptySet DEF ToSet
  <2>3. g[0] \in Seq(S) /\ Len(g[0]) = 0
    BY <2>1
  <2> QED
    BY <2>2, <2>3
<1>3. ASSUME NEW n \in Nat, n \in P PROVE n + 1 \in P
  <2> SUFFICES ASSUME n + 1 <= N PROVE Good(n + 1)
    OBVIOUS
  <2> DEFINE rest == S \ ToSet(g[n])
             x == Foremost(rest, before)
  <2>1. Good(n)
    BY <1>0, <1>3
  <2>2. g[n + 1] = Append(g[n], x)
    <3>1. n + 1 \in 0..N /\ n + 1 # 0 /\ (n + 1) - 1 = n
      BY <1>0
    <3> QED
      BY <1>1, <3>1 DEF IsSorting
  <2>3. ToSet(g[n]) \subseteq S
    BY <2>1 DEF ToSet
  <2>4. rest # {} /\ IsFiniteSet(rest) /\ IsFiniteSet(ToSet(g[n]))
    <3>1. rest # {}
      <4> SUFFICES ASSUME rest = {} PROVE FALSE
        OBVIOUS
      <4>1. ToSet(g[n]) = S
        BY <2>3
      <4> QED
        BY <1>0, <2>1, <4>1
    <3> QED
      BY <2>3, <3>1, FS_Subset
  <2>5. x \in rest
    <3> HIDE DEF rest
    <3>1. \A s, t, u \in rest : <<s, t>> \in before /\ <<t, u>> \in before => <<s, u>> \in before
      BY DEF rest
    <3>2. \A s \in rest : <<s, s>> \notin before
      BY DEF rest
    <3>3. \E t \in rest : \A s \in rest : <<s, t>> \notin before
      BY <2>4, <3>1, <3>2, SomeFirst
    <3> QED
      BY <3>3 DEF Foremost
  <2>6. x \in S /\ x \notin ToSet(g[n])
    BY <2>5
  <2> HIDE DEF x, rest
  <2>7. /\ g[n + 1] \in Seq(S) /\ Len(g[n + 1]) = n + 1
        /\ ToSet(g[n + 1]) = ToSet(g[n]) \cup {x}
    BY <2>1, <2>2, <2>6, ToSetAppend
  <2>8. Cardinality(ToSet(g[n]) \cup {x}) = n + 1
    BY <2>1, <2>4, <2>6, FS_AddElement
  <2> QED
    BY <2>7, <2>8
<1> HIDE DEF P
<1>4. N \in P
  BY <1>0, <1>2, <1>3, NatSetInduction
<1>5. Good(N)
  BY <1>4 DEF P
<1>6. ToSet(g[N]) \subseteq S
  BY <1>5 DEF ToSet
<1>7. ToSet(g[N]) = S
  BY <1>5, <1>6, FS_Subset
<1> QED
  BY <1>1, <1>5, <1>7

(* Multiplying by a positive number keeps an inequality. *)
LEMMA Scaling ==
    ASSUME NEW a \in Int, NEW b \in Int, NEW n \in Nat \ {0}
    PROVE  /\ a <= b <=> a * n <= b * n
           /\ a < b <=> a * n < b * n
OBVIOUS

(* Rates, compared without dividing, compare like numbers. *)
LEMMA RatesCompare ==
    ASSUME NEW a \in Int, NEW b \in Int, NEW c \in Int,
           NEW x \in Nat \ {0}, NEW y \in Nat \ {0}, NEW z \in Nat \ {0},
           a * y <= b * x, b * z <= c * y
    PROVE  /\ a * z <= c * x
           /\ a * y < b * x \/ b * z < c * y => a * z < c * x
<1>1. /\ a * y \in Int /\ b * x \in Int /\ b * z \in Int
      /\ c * y \in Int /\ a * z \in Int /\ c * x \in Int
  OBVIOUS
<1>2. /\ (a * y) * z <= (b * x) * z
      /\ a * y < b * x => (a * y) * z < (b * x) * z
  BY <1>1, Scaling
<1>3. /\ (b * z) * x <= (c * y) * x
      /\ b * z < c * y => (b * z) * x < (c * y) * x
  BY <1>1, Scaling
<1>4. /\ (a * y) * z = (a * z) * y
      /\ (b * x) * z = (b * z) * x
      /\ (c * y) * x = (c * x) * y
  OBVIOUS
<1>5. (a * z) * y \in Int /\ (b * z) * x \in Int /\ (c * x) * y \in Int
  BY <1>1
<1>6. /\ (a * z) * y <= (c * x) * y
      /\ a * y < b * x \/ b * z < c * y => (a * z) * y < (c * x) * y
  BY <1>2, <1>3, <1>4, <1>5
<1>7. /\ a * z <= c * x <=> (a * z) * y <= (c * x) * y
      /\ a * z < c * x <=> (a * z) * y < (c * x) * y
  BY <1>1, Scaling
<1> QED
  BY <1>6, <1>7

(* Fees are integers and sizes are positive. *)
LEMMA FeeType == \A t \in Tx : Fee(t) \in Int /\ Size[t] \in Nat \ {0}
<1> TAKE t \in Tx
<1>1. Size[t] \in Nat \ {0}
  BY PoolAssumption
<1>2. InputTotal(t) \in Int
  <2> DEFINE f == [out \in Inputs[t] |-> Amount(out)]
  <2>1. IsFiniteSet(Inputs[t])
    BY TransactionAssumption
  <2>2. ASSUME NEW out \in Inputs[t] PROVE f[out] \in Int
    <3>1. out \in Tx \X Nat /\ out[2] \in DOMAIN Outputs[out[1]]
      BY TransactionAssumption, AmountAssumption DEF OutPoint
    <3>2. Outputs[out[1]] \in Seq(Nat)
      BY <3>1, TransactionAssumption
    <3>3. Outputs[out[1]][out[2]] \in Nat
      BY <3>1, <3>2
    <3> QED
      BY <3>3 DEF Amount
  <2> HIDE DEF f
  <2>3. SumOver(f, Inputs[t]) \in Int
    BY <2>1, <2>2, SumInt
  <2> QED
    BY <2>3 DEF InputTotal, f
<1>3. OutputTotal(t) \in Int
  <2>1. Outputs[t] \in Seq(Nat)
    BY TransactionAssumption
  <2>2. DOMAIN Outputs[t] = 1..Len(Outputs[t]) /\ Len(Outputs[t]) \in Nat
    BY <2>1
  <2>3. IsFiniteSet(DOMAIN Outputs[t])
    BY <2>2, FS_Interval
  <2>4. \A i \in DOMAIN Outputs[t] : Outputs[t][i] \in Int
    BY <2>1
  <2> QED
    BY <2>3, <2>4, SumInt DEF OutputTotal
<1> QED
  BY <1>1, <1>2, <1>3 DEF Fee

(* Both rankings of mempool.py are strict orders, with ties. *)
LEMMA PaysMoreOrders ==
    /\ \A s \in Tx : ~PaysMore(s, s) /\ ~PaysLess(s, s)
    /\ \A s, t, u \in Tx : PaysMore(s, t) /\ PaysMore(t, u) => PaysMore(s, u)
    /\ \A s, t, u \in Tx : PaysLess(s, t) /\ PaysLess(t, u) => PaysLess(s, u)
<1>1. \A s, t \in Tx : Fee(s) * Size[t] \in Int
  BY FeeType
<1>2. \A s \in Tx : ~PaysMore(s, s) /\ ~PaysLess(s, s)
  BY <1>1, FeeType DEF PaysMore, PaysLess
<1>3. ASSUME NEW s \in Tx, NEW t \in Tx, NEW u \in Tx, PaysLess(s, t), PaysLess(t, u)
      PROVE  PaysLess(s, u)
  <2>1. Fee(s) * Size[t] <= Fee(t) * Size[s] /\ Fee(t) * Size[u] <= Fee(u) * Size[t]
    BY <1>1, <1>3 DEF PaysLess
  <2>2. Fee(s) * Size[u] < Fee(u) * Size[s]
    BY <1>3, <2>1, FeeType, RatesCompare DEF PaysLess
  <2> QED
    BY <2>2 DEF PaysLess
<1>4. ASSUME NEW s \in Tx, NEW t \in Tx, NEW u \in Tx, PaysMore(s, t), PaysMore(t, u)
      PROVE  PaysMore(s, u)
  <2>1. Fee(t) * Size[s] <= Fee(s) * Size[t] /\ Fee(u) * Size[t] <= Fee(t) * Size[u]
    BY <1>1, <1>4 DEF PaysLess, PaysMore
  <2>2. /\ Fee(u) * Size[s] <= Fee(s) * Size[u]
        /\ PaysLess(t, s) \/ PaysLess(u, t) => Fee(u) * Size[s] < Fee(s) * Size[u]
    BY <1>4, <2>1, FeeType, RatesCompare DEF PaysLess
  <2>3. CASE PaysLess(t, s) \/ PaysLess(u, t)
    BY <2>2, <2>3 DEF PaysLess, PaysMore
  <2>4. CASE ~PaysLess(t, s) /\ ~PaysLess(u, t)
    <3>1. Fee(s) > Fee(t) /\ Fee(t) > Fee(u)
      BY <1>4, <2>4 DEF PaysMore
    <3>2. Fee(s) > Fee(u)
      BY <3>1, FeeType
    <3>3. ~PaysLess(s, u)
      BY <1>1, <2>2 DEF PaysLess
    <3> QED
      BY <3>2, <3>3 DEF PaysMore
  <2> QED
    BY <2>3, <2>4
<1> QED
  BY <1>2, <1>3, <1>4

(* The ranked entries are the entries, each once. *)
LEMMA RankedFacts ==
    ASSUME NEW p, p.entries \subseteq Tx, IsFiniteSet(p.entries)
    PROVE  /\ Ranked(p) \in Seq(p.entries) /\ ToSet(Ranked(p)) = p.entries
           /\ Cheapest(p) \in Seq(p.entries) /\ ToSet(Cheapest(p)) = p.entries
           /\ Len(Cheapest(p)) = Cardinality(p.entries)
<1> DEFINE S == p.entries
           more == {q \in S \X S : PaysMore(q[1], q[2])}
           less == {q \in S \X S : PaysLess(q[1], q[2])}
<1>1. /\ \A s \in S : <<s, s>> \notin more /\ <<s, s>> \notin less
      /\ \A s, t, u \in S : <<s, t>> \in more /\ <<t, u>> \in more => <<s, u>> \in more
      /\ \A s, t, u \in S : <<s, t>> \in less /\ <<t, u>> \in less => <<s, u>> \in less
  BY PaysMoreOrders
<1>2. Ranked(p) = InOrder(S, more) /\ Cheapest(p) = InOrder(S, less)
  BY DEF Ranked, Cheapest
<1> HIDE DEF more, less
<1>3. InOrder(S, more) \in Seq(S) /\ ToSet(InOrder(S, more)) = S
  BY <1>1, InOrderFacts
<1>4. /\ InOrder(S, less) \in Seq(S) /\ ToSet(InOrder(S, less)) = S
      /\ Len(InOrder(S, less)) = Cardinality(S)
  BY <1>1, InOrderFacts
<1> QED
  BY <1>2, <1>3, <1>4

-----------------------------------------------------------------------------
(* Selecting: passes over the ranked entries. *)

(* What a template may be made of: selections of distinct entries. *)
Selections(p) == {c \in Seq(p.entries) : Cardinality(ToSet(c)) = Len(c)}

(* One pass over the ranked entries, and the passes together, as           *)
(* functions.                                                              *)
IsPass(g, p, b, chosen) ==
    g = [n \in 0..Len(Ranked(p)) |->
            IF n = 0 THEN chosen
            ELSE TakeOrSkip(p, b, g[n - 1], Ranked(p)[n])]

IsSelection(h, p, b) ==
    h = [n \in 0..Cardinality(p.entries) |->
            IF n = 0 THEN <<>> ELSE OnePass(p, b, h[n - 1])]

(* What select_for_block returns is the last value of these functions. *)
LEMMA SelectsByPasses ==
    ASSUME NEW p, NEW b
    PROVE  /\ \A c : OnePass(p, b, c) = (CHOOSE g : IsPass(g, p, b, c))[Len(Ranked(p))]
           /\ Select(p, b) = (CHOOSE h : IsSelection(h, p, b))[Cardinality(p.entries)]
<1>1. \A c : OnePass(p, b, c) = (CHOOSE g : IsPass(g, p, b, c))[Len(Ranked(p))]
  BY DEF OnePass, IsPass
<1>2. Select(p, b) = (CHOOSE h : IsSelection(h, p, b))[Cardinality(p.entries)]
  BY DEF Select, IsSelection
<1> QED
  BY <1>1, <1>2

(* An entry is skipped, or it makes the selection one longer. *)
LEMMA TakenOrSkipped ==
    ASSUME NEW p, IsFiniteSet(p.entries), NEW b, NEW c \in Selections(p), NEW t \in p.entries
    PROVE  /\ TakeOrSkip(p, b, c, t) \in Selections(p)
           /\ \/ TakeOrSkip(p, b, c, t) = c
              \/ Len(TakeOrSkip(p, b, c, t)) = Len(c) + 1
<1>1. CASE t \notin ToSet(c)
  <2>1. /\ Append(c, t) \in Seq(p.entries) /\ Len(Append(c, t)) = Len(c) + 1
        /\ ToSet(Append(c, t)) = ToSet(c) \cup {t}
    BY ToSetAppend DEF Selections
  <2>2. ToSet(c) \subseteq p.entries
    BY DEF Selections, ToSet
  <2>3. IsFiniteSet(ToSet(c))
    BY <2>2, FS_Subset
  <2>4. Cardinality(ToSet(c) \cup {t}) = Cardinality(ToSet(c)) + 1
    BY <1>1, <2>3, FS_AddElement
  <2>5. Append(c, t) \in Selections(p)
    BY <2>1, <2>4 DEF Selections
  <2> QED
    BY <2>1, <2>5 DEF TakeOrSkip
<1>2. CASE t \in ToSet(c)
  BY <1>2 DEF TakeOrSkip
<1> QED
  BY <1>1, <1>2

(* What is picked in the course of a pass, entry by entry. *)
Picks(g, p, b, chosen) ==
    /\ g[0] = chosen
    /\ OnePass(p, b, chosen) = g[Len(Ranked(p))]
    /\ \A n \in 1..Len(Ranked(p)) : g[n] = TakeOrSkip(p, b, g[n - 1], Ranked(p)[n])

(* A pass takes the ranked entries in turn. *)
LEMMA PassRuns ==
    ASSUME NEW p, p.entries \subseteq Tx, IsFiniteSet(p.entries), NEW b,
           NEW chosen \in Selections(p)
    PROVE  \E g \in [0..Len(Ranked(p)) -> Selections(p)] : Picks(g, p, b, chosen)
<1> DEFINE r == Ranked(p)
           N == Len(r)
           X == Selections(p)
           F == [n \in 1..N |-> [c \in X |-> TakeOrSkip(p, b, c, r[n])]]
<1>1. r \in Seq(p.entries) /\ N \in Nat /\ \A n \in 1..N : r[n] \in p.entries
  BY RankedFacts
<1> HIDE DEF r, N, X
<1>2. \A n \in 1..N : \A c \in X : F[n][c] = TakeOrSkip(p, b, c, r[n])
  OBVIOUS
<1>3. StaysIn(X, F, N)
  BY <1>1, <1>2, TakenOrSkipped DEF StaysIn, X
<1> HIDE DEF F
<1>4. chosen \in X
  BY DEF X
<1>5. PICK f \in [0..N -> X] : Follows(f, chosen, F, N)
  BY <1>1, <1>3, <1>4, RecursionExists
<1> DEFINE h == [n \in 0..N |-> IF n = 0 THEN chosen ELSE TakeOrSkip(p, b, f[n - 1], r[n])]
<1>6. ASSUME NEW n \in 0..N PROVE f[n] = h[n]
  <2>1. CASE n = 0
    BY <1>5, <2>1 DEF Follows
  <2>2. CASE n # 0
    <3>1. n - 1 \in 0..N /\ n \in 1..N
      BY <1>1, <2>2
    <3>2. f[n - 1] \in X
      BY <3>1
    <3> QED
      BY <1>2, <1>5, <2>2, <3>1, <3>2 DEF Follows
  <2> QED
    BY <2>1, <2>2
<1>7. f = h
  BY <1>6
<1>8. IsPass(f, p, b, chosen)
  BY <1>7 DEF IsPass, r, N
<1> DEFINE g == CHOOSE k : IsPass(k, p, b, chosen)
<1>9. IsPass(g, p, b, chosen) /\ OnePass(p, b, chosen) = g[N]
  BY <1>8, SelectsByPasses DEF N, r
<1> HIDE DEF g, h
<1>10. g = [n \in 0..N |-> IF n = 0 THEN chosen ELSE TakeOrSkip(p, b, g[n - 1], r[n])]
  BY <1>9 DEF IsPass, r, N
<1>11. g[0] = chosen
  BY <1>1, <1>10
<1>12. ASSUME NEW n \in 1..N PROVE g[n] = TakeOrSkip(p, b, g[n - 1], r[n])
  <2>1. n \in 0..N /\ n # 0
    BY <1>1
  <2> QED
    BY <1>10, <2>1
<1> DEFINE P == {n \in Nat : n <= N => g[n] \in X}
<1>13. 0 \in P
  BY <1>4, <1>11
<1>14. ASSUME NEW n \in Nat, n \in P PROVE n + 1 \in P
  <2> SUFFICES ASSUME n + 1 <= N PROVE g[n + 1] \in X
    OBVIOUS
  <2>1. n <= N /\ n + 1 \in 1..N /\ (n + 1) - 1 = n
    BY <1>1
  <2>2. g[n + 1] = TakeOrSkip(p, b, g[n], r[n + 1]) /\ g[n] \in X /\ r[n + 1] \in p.entries
    BY <1>1, <1>12, <1>14, <2>1
  <2> QED
    BY <2>2, TakenOrSkipped DEF X
<1>15. \A n \in Nat : n \in P
  <2> HIDE DEF P
  <2> QED
    BY <1>13, <1>14, NatSetInduction
<1>16. \A n \in 0..N : g[n] \in X
  BY <1>1, <1>15
<1>17. g \in [0..N -> X]
  <2> DEFINE k == [n \in 0..N |-> g[n]]
  <2>1. k \in [0..N -> X]
    BY <1>16
  <2>2. g = k
    BY <1>10
  <2> QED
    BY <2>1, <2>2
<1>18. Picks(g, p, b, chosen)
  BY <1>9, <1>11, <1>12 DEF N, r, Picks
<1> QED
  BY <1>17, <1>18 DEF N, X, r

(* What every admission of an entry keeps, a pass keeps. *)
LEMMA PassKeeps ==
    ASSUME NEW p, p.entries \subseteq Tx, IsFiniteSet(p.entries), NEW b,
           NEW Q, Q \subseteq Selections(p),
           \A c \in Q : \A t \in p.entries : TakeOrSkip(p, b, c, t) \in Q,
           NEW chosen \in Q
    PROVE  OnePass(p, b, chosen) \in Q
<1> DEFINE r == Ranked(p)
           N == Len(r)
<1>1. r \in Seq(p.entries) /\ N \in Nat /\ \A n \in 1..N : r[n] \in p.entries
  BY RankedFacts
<1>p. PICK g \in [0..N -> Selections(p)] : Picks(g, p, b, chosen)
  <2>1. chosen \in Selections(p)
    OBVIOUS
  <2> QED
    BY <2>1, PassRuns
<1>2. /\ g[0] = chosen
      /\ OnePass(p, b, chosen) = g[N]
      /\ \A n \in 1..N : g[n] = TakeOrSkip(p, b, g[n - 1], r[n])
  BY <1>p DEF Picks
<1> HIDE DEF r, N
<1> DEFINE P == {n \in Nat : n <= N => g[n] \in Q}
<1>3. 0 \in P
  BY <1>2
<1>4. ASSUME NEW n \in Nat, n \in P PROVE n + 1 \in P
  <2> SUFFICES ASSUME n + 1 <= N PROVE g[n + 1] \in Q
    OBVIOUS
  <2>1. n <= N /\ n + 1 \in 1..N /\ (n + 1) - 1 = n
    BY <1>1
  <2>2. g[n + 1] = TakeOrSkip(p, b, g[n], r[n + 1]) /\ g[n] \in Q /\ r[n + 1] \in p.entries
    BY <1>1, <1>2, <1>4, <2>1
  <2> QED
    BY <2>2
<1> HIDE DEF P
<1>5. N \in P
  BY <1>1, <1>3, <1>4, NatSetInduction
<1> QED
  BY <1>1, <1>2, <1>5 DEF P

(* A pass that leaves a selection alone has skipped every entry; any other *)
(* pass has made it longer.                                                *)
LEMMA PassGrows ==
    ASSUME NEW p, p.entries \subseteq Tx, IsFiniteSet(p.entries), NEW b,
           NEW chosen \in Selections(p)
    PROVE  \/ /\ OnePass(p, b, chosen) = chosen
              /\ \A t \in p.entries : TakeOrSkip(p, b, chosen, t) = chosen
           \/ Len(OnePass(p, b, chosen)) > Len(chosen)
<1> DEFINE r == Ranked(p)
           N == Len(r)
<1>1. /\ r \in Seq(p.entries) /\ N \in Nat /\ \A n \in 1..N : r[n] \in p.entries
      /\ \A t \in p.entries : \E n \in 1..N : r[n] = t
  BY RankedFacts DEF ToSet
<1>p. PICK g \in [0..N -> Selections(p)] : Picks(g, p, b, chosen)
  <2>1. chosen \in Selections(p)
    OBVIOUS
  <2> QED
    BY <2>1, PassRuns
<1>2. /\ g[0] = chosen
      /\ OnePass(p, b, chosen) = g[N]
      /\ \A n \in 1..N : g[n] = TakeOrSkip(p, b, g[n - 1], r[n])
  BY <1>p DEF Picks
<1> HIDE DEF r, N
<1>3. \A n \in 0..N : g[n] \in Selections(p) /\ Len(g[n]) \in Nat
  BY DEF Selections
<1>4. Len(chosen) \in Nat
  BY DEF Selections
<1>5. ASSUME NEW n \in Nat, n + 1 <= N
      PROVE  /\ n \in 0..N /\ n + 1 \in 0..N /\ n + 1 \in 1..N
             /\ g[n + 1] = TakeOrSkip(p, b, g[n], r[n + 1])
             /\ g[n + 1] = g[n] \/ Len(g[n + 1]) = Len(g[n]) + 1
  <2>1. n \in 0..N /\ n + 1 \in 0..N /\ n + 1 \in 1..N /\ (n + 1) - 1 = n
    BY <1>1, <1>5
  <2>2. /\ g[n + 1] = TakeOrSkip(p, b, g[n], r[n + 1])
        /\ g[n] \in Selections(p) /\ r[n + 1] \in p.entries
    BY <1>1, <1>2, <2>1
  <2> QED
    BY <2>1, <2>2, TakenOrSkipped
<1> DEFINE Same(n) == \A m \in 0..n : g[m] = chosen
           P == {n \in Nat : n <= N => Same(n) \/ Len(g[n]) > Len(chosen)}
<1>6. 0 \in P
  <2>1. Same(0)
    BY <1>2
  <2> QED
    BY <2>1
<1>7. ASSUME NEW n \in Nat, n \in P PROVE n + 1 \in P
  <2> SUFFICES ASSUME n + 1 <= N PROVE Same(n + 1) \/ Len(g[n + 1]) > Len(chosen)
    OBVIOUS
  <2>1. Same(n) \/ Len(g[n]) > Len(chosen)
    BY <1>1, <1>7
  <2>2. /\ n \in 0..N /\ n + 1 \in 0..N
        /\ g[n + 1] = g[n] \/ Len(g[n + 1]) = Len(g[n]) + 1
    BY <1>5
  <2>3. CASE Len(g[n]) > Len(chosen)
    BY <1>3, <1>4, <2>2, <2>3
  <2>4. CASE Same(n)
    <3>1. g[n] = chosen
      BY <2>4
    <3>2. CASE g[n + 1] = g[n]
      <4>1. \A m \in 0..(n + 1) : m \in 0..n \/ m = n + 1
        OBVIOUS
      <4> QED
        BY <2>4, <3>1, <3>2, <4>1
    <3>3. CASE Len(g[n + 1]) = Len(g[n]) + 1
      BY <1>3, <1>4, <2>2, <3>1, <3>3
    <3> QED
      BY <2>2, <3>2, <3>3
  <2> QED
    BY <2>1, <2>3, <2>4
<1>8. N \in P
  <2> HIDE DEF P
  <2> QED
    BY <1>1, <1>6, <1>7, NatSetInduction
<1>9. CASE Same(N)
  <2>1. ASSUME NEW t \in p.entries PROVE TakeOrSkip(p, b, chosen, t) = chosen
    <3>1. PICK n \in 1..N : r[n] = t
      BY <1>1
    <3>2. n \in 0..N /\ n - 1 \in 0..N
      BY <1>1
    <3> QED
      BY <1>2, <1>9, <3>1, <3>2
  <2>2. g[N] = chosen
    BY <1>1, <1>9
  <2> QED
    BY <1>2, <2>1, <2>2
<1>10. CASE Len(g[N]) > Len(chosen)
  BY <1>2, <1>10
<1> QED
  BY <1>1, <1>8, <1>9, <1>10

(* The same of the passes together.  What they end with nothing can follow, *)
(* or it holds every entry.                                                *)
LEMMA SelectFacts ==
    ASSUME NEW p, p.entries \subseteq Tx, IsFiniteSet(p.entries), NEW b,
           NEW Q, Q \subseteq Selections(p), <<>> \in Q,
           \A c \in Q : \A t \in p.entries : TakeOrSkip(p, b, c, t) \in Q
    PROVE  /\ Select(p, b) \in Q
           /\ \A t \in p.entries \ ToSet(Select(p, b)) :
                 TakeOrSkip(p, b, Select(p, b), t) = Select(p, b)
<1> DEFINE N == Cardinality(p.entries)
           F == [n \in 1..N |-> [c \in Q |-> OnePass(p, b, c)]]
<1>1. N \in Nat
  BY FS_CardinalityType
<1> HIDE DEF N
<1>2. \A c \in Q : OnePass(p, b, c) \in Q
  BY PassKeeps
<1>3. \A n \in 1..N : \A c \in Q : F[n][c] = OnePass(p, b, c)
  OBVIOUS
<1>4. StaysIn(Q, F, N)
  BY <1>2, <1>3 DEF StaysIn
<1> HIDE DEF F
<1>5. PICK f \in [0..N -> Q] : Follows(f, <<>>, F, N)
  BY <1>1, <1>4, RecursionExists
<1> DEFINE k == [n \in 0..N |-> IF n = 0 THEN <<>> ELSE OnePass(p, b, f[n - 1])]
<1>6. ASSUME NEW n \in 0..N PROVE f[n] = k[n]
  <2>1. CASE n = 0
    BY <1>5, <2>1 DEF Follows
  <2>2. CASE n # 0
    <3>1. n - 1 \in 0..N /\ n \in 1..N
      BY <1>1, <2>2
    <3>2. f[n - 1] \in Q
      BY <3>1
    <3> QED
      BY <1>3, <1>5, <2>2, <3>1, <3>2 DEF Follows
  <2> QED
    BY <2>1, <2>2
<1>7. f = k
  BY <1>6
<1>8. IsSelection(f, p, b)
  BY <1>7 DEF IsSelection, N
<1> DEFINE h == CHOOSE g : IsSelection(g, p, b)
<1>9. IsSelection(h, p, b) /\ Select(p, b) = h[N]
  BY <1>8, SelectsByPasses DEF N
<1> HIDE DEF h, k
<1>10. h = [n \in 0..N |-> IF n = 0 THEN <<>> ELSE OnePass(p, b, h[n - 1])]
  BY <1>9 DEF IsSelection, N
<1>11. h[0] = <<>>
  BY <1>1, <1>10
<1>12. ASSUME NEW n \in Nat, n + 1 <= N PROVE h[n + 1] = OnePass(p, b, h[n])
  <2>1. n + 1 \in 0..N /\ n + 1 # 0 /\ (n + 1) - 1 = n
    BY <1>1, <1>12
  <2> QED
    BY <1>10, <2>1
<1> DEFINE Still(c) == \A t \in p.entries : TakeOrSkip(p, b, c, t) = c
           P == {n \in Nat : n <= N =>
                    /\ h[n] \in Q
                    /\ \/ OnePass(p, b, h[n]) = h[n] /\ Still(h[n])
                       \/ Len(h[n]) >= n}
<1>13. 0 \in P
  <2>1. Len(<<>>) >= 0
    OBVIOUS
  <2> QED
    BY <1>11, <2>1
<1>14. ASSUME NEW n \in Nat, n \in P PROVE n + 1 \in P
  <2> SUFFICES ASSUME n + 1 <= N
               PROVE  /\ h[n + 1] \in Q
                      /\ \/ OnePass(p, b, h[n + 1]) = h[n + 1] /\ Still(h[n + 1])
                         \/ Len(h[n + 1]) >= n + 1
    OBVIOUS
  <2>1. /\ h[n] \in Q
        /\ \/ OnePass(p, b, h[n]) = h[n] /\ Still(h[n])
           \/ Len(h[n]) >= n
    BY <1>1, <1>14
  <2>2. h[n + 1] = OnePass(p, b, h[n])
    BY <1>12
  <2>3. h[n + 1] \in Q
    BY <1>2, <2>1, <2>2
  <2>4. h[n] \in Selections(p)
    BY <2>1
  <2>5. /\ Len(h[n]) \in Nat /\ Len(h[n + 1]) \in Nat
    BY <2>3, <2>4 DEF Selections
  <2>6. \/ OnePass(p, b, h[n]) = h[n] /\ Still(h[n])
        \/ Len(h[n + 1]) > Len(h[n])
    BY <2>2, <2>4, PassGrows
  <2>7. CASE OnePass(p, b, h[n]) = h[n] /\ Still(h[n])
    BY <2>2, <2>3, <2>7
  <2>8. CASE ~(OnePass(p, b, h[n]) = h[n] /\ Still(h[n]))
    <3>1. Len(h[n]) >= n /\ Len(h[n + 1]) > Len(h[n])
      BY <2>1, <2>6, <2>8
    <3>2. Len(h[n + 1]) >= n + 1
      BY <2>5, <3>1
    <3> QED
      BY <2>3, <3>2
  <2> QED
    BY <2>7, <2>8
<1>15. N \in P
  <2> HIDE DEF P
  <2> QED
    BY <1>1, <1>13, <1>14, NatSetInduction
<1>16. h[N] \in Q /\ (Still(h[N]) \/ Len(h[N]) >= N)
  BY <1>1, <1>15
<1>17. CASE Len(h[N]) >= N
  <2> DEFINE c == h[N]
  <2>0. c \in Seq(p.entries) /\ Cardinality(ToSet(c)) = Len(c)
    BY <1>16 DEF Selections
  <2> HIDE DEF c
  <2>a. ToSet(c) \subseteq p.entries /\ Len(c) \in Nat
    BY <2>0 DEF ToSet
  <2>1. /\ ToSet(h[N]) \subseteq p.entries /\ Cardinality(ToSet(h[N])) = Len(h[N])
        /\ Len(h[N]) \in Nat
    BY <2>0, <2>a DEF c
  <2>2. Cardinality(ToSet(h[N])) <= N
    BY <2>1, FS_Subset DEF N
  <2>3. Cardinality(ToSet(h[N])) = N
    BY <1>1, <1>17, <2>1, <2>2
  <2>4. ToSet(h[N]) = p.entries
    BY <2>1, <2>3, FS_Subset DEF N
  <2> QED
    BY <1>9, <1>16, <2>4
<1>18. CASE Still(h[N])
  BY <1>9, <1>16, <1>18
<1> QED
  BY <1>16, <1>17, <1>18

-----------------------------------------------------------------------------
(* Families. *)

(* What a family is made of: the first, and whatever spends an output of a *)
(* member.                                                                 *)
Children(p, S) == {p.spends[out] : out \in {o \in DOMAIN p.spends : o[1] \in S}}

IsGrowing(g, p, t) ==
    g = [n \in 0..Cardinality(p.entries) |->
            IF n = 0 THEN {t} \cap p.entries ELSE g[n - 1] \cup Children(p, g[n - 1])]

(* A family is what the last round of growing leaves. *)
LEMMA FamilyGrows ==
    ASSUME NEW p, NEW t
    PROVE  Family(p, t) = (CHOOSE g : IsGrowing(g, p, t))[Cardinality(p.entries)]
BY DEF Family, IsGrowing, Children

(* What the first of a family satisfies, and the children of what          *)
(* satisfies it, the family does.                                          *)
LEMMA FamilyInduction ==
    ASSUME NEW p, IsFiniteSet(p.entries), NEW t, NEW Q,
           {t} \cap p.entries \in Q,
           \A S \in Q : S \cup Children(p, S) \in Q
    PROVE  Family(p, t) \in Q
<1> DEFINE N == Cardinality(p.entries)
           F == [n \in 1..N |-> [S \in Q |-> S \cup Children(p, S)]]
           first == {t} \cap p.entries
<1>1. N \in Nat /\ first \in Q
  BY FS_CardinalityType
<1> HIDE DEF N, first
<1>2. \A n \in 1..N : \A S \in Q : F[n][S] = S \cup Children(p, S)
  OBVIOUS
<1>3. StaysIn(Q, F, N)
  BY <1>2 DEF StaysIn
<1> HIDE DEF F
<1>4. PICK f \in [0..N -> Q] : Follows(f, first, F, N)
  BY <1>1, <1>3, RecursionExists
<1> DEFINE h == [n \in 0..N |-> IF n = 0 THEN first ELSE f[n - 1] \cup Children(p, f[n - 1])]
<1>5. ASSUME NEW n \in 0..N PROVE f[n] = h[n]
  <2>1. CASE n = 0
    BY <1>4, <2>1 DEF Follows
  <2>2. CASE n # 0
    <3>1. n - 1 \in 0..N /\ n \in 1..N
      BY <1>1, <2>2
    <3>2. f[n - 1] \in Q
      BY <3>1
    <3> QED
      BY <1>2, <1>4, <2>2, <3>1, <3>2 DEF Follows
  <2> QED
    BY <2>1, <2>2
<1>6. f = h
  BY <1>5
<1>7. IsGrowing(f, p, t)
  BY <1>6 DEF IsGrowing, N, first
<1> DEFINE g == CHOOSE k : IsGrowing(k, p, t)
<1>8. IsGrowing(g, p, t) /\ Family(p, t) = g[N]
  BY <1>7, FamilyGrows DEF N
<1> HIDE DEF g, h
<1>9. g = [n \in 0..N |-> IF n = 0 THEN first ELSE g[n - 1] \cup Children(p, g[n - 1])]
  BY <1>8 DEF IsGrowing, N, first
<1> DEFINE P == {n \in Nat : n <= N => g[n] \in Q}
<1>10. 0 \in P
  BY <1>1, <1>9
<1>11. ASSUME NEW n \in Nat, n \in P PROVE n + 1 \in P
  <2> SUFFICES ASSUME n + 1 <= N PROVE g[n + 1] \in Q
    OBVIOUS
  <2>1. n <= N /\ n + 1 \in 0..N /\ n + 1 # 0 /\ (n + 1) - 1 = n
    BY <1>1
  <2>2. g[n + 1] = g[n] \cup Children(p, g[n]) /\ g[n] \in Q
    BY <1>9, <1>11, <2>1
  <2> QED
    BY <2>2
<1>12. N \in P
  <2> HIDE DEF P
  <2> QED
    BY <1>1, <1>10, <1>11, NatSetInduction
<1> QED
  BY <1>1, <1>8, <1>12

(* A family is found among the entries, and each of its members but the    *)
(* first has its parent in it.                                             *)
LEMMA FamilyFacts ==
    ASSUME NEW p, Exact(p), IsFiniteSet(p.entries), NEW t
    PROVE  /\ {t} \cap p.entries \subseteq Family(p, t)
           /\ Family(p, t) \subseteq p.entries
           /\ \A d \in Family(p, t) :
                 d = t \/ \E out \in Inputs[d] : out[1] \in Family(p, t)
<1> DEFINE Linked(S) == \A d \in S : d = t \/ \E out \in Inputs[d] : out[1] \in S
           Q == {S \in SUBSET p.entries : {t} \cap p.entries \subseteq S /\ Linked(S)}
<1>1. {t} \cap p.entries \in Q
  OBVIOUS
<1>2. ASSUME NEW S \in Q PROVE S \cup Children(p, S) \in Q
  <2>1. ASSUME NEW d \in Children(p, S)
        PROVE  d \in p.entries /\ \E out \in Inputs[d] : out[1] \in S
    BY DEF Children, Exact
  <2>2. Linked(S \cup Children(p, S))
    BY <2>1
  <2> QED
    BY <2>1, <2>2
<1>3. Family(p, t) \in Q
  <2> HIDE DEF Q
  <2> QED
    BY <1>1, <1>2, FamilyInduction
<1> QED
  BY <1>3

(* No member of the family of an unconfirmed entry is confirmed: the       *)
(* parents of what is confirmed are.                                       *)
LEMMA FamilyUnconfirmed ==
    ASSUME NEW p, Exact(p), IsFiniteSet(p.entries), p.entries \cap CoinbaseTx = {},
           NEW b \in Block, Spent(b) \subseteq Keys(Created(b)),
           NEW t, t \notin Confirmed(b)
    PROVE  Family(p, t) \cap Confirmed(b) = {}
<1> DEFINE Q == {S \in SUBSET p.entries : S \cap Confirmed(b) = {}}
<1>1. {t} \cap p.entries \in Q
  OBVIOUS
<1>2. ASSUME NEW S \in Q PROVE S \cup Children(p, S) \in Q
  <2>1. ASSUME NEW d \in Children(p, S)
        PROVE  d \in p.entries /\ \E out \in Inputs[d] : out[1] \in S
    BY DEF Children, Exact
  <2>2. ASSUME NEW d \in Children(p, S), d \in Confirmed(b) PROVE FALSE
    <3>1. PICK out \in Inputs[d] : out[1] \in S
      BY <2>1
    <3>2. out \in Spent(b)
      BY <2>2, <3>1, SpentAt DEF Confirmed, PaymentsIn
    <3>3. out[1] \in Confirmed(b) \cup CoinbaseTx
      BY <3>2, MakerConfirmed
    <3> QED
      BY <3>1, <3>3
  <2> QED
    BY <2>1, <2>2
<1>3. Family(p, t) \in Q
  <2> HIDE DEF Q
  <2> QED
    BY <1>1, <1>2, FamilyInduction
<1> QED
  BY <1>3

-----------------------------------------------------------------------------
(* Sizes. *)

(* The size a pool keeps by hand is that of its entries, and within        *)
(* bounds.                                                                 *)
SizeExact(p) ==
    /\ IsFiniteSet(p.entries)
    /\ p.size = SizeOf(p.entries)
    /\ p.size <= MaxPoolSize

(* Sizes add up. *)
LEMMA SizeFacts ==
    ASSUME NEW S \in SUBSET Tx, IsFiniteSet(S)
    PROVE  /\ SizeOf(S) \in Nat
           /\ \A T \in SUBSET S : /\ SizeOf(S) = SizeOf(T) + SizeOf(S \ T)
                                  /\ SizeOf(T) <= SizeOf(S)
           /\ \A t \in Tx \ S : SizeOf(S \cup {t}) = SizeOf(S) + Size[t]
<1>1. \A t \in S : Size[t] \in Nat
  BY PoolAssumption
<1>2. \A T \in SUBSET S : IsFiniteSet(T) /\ SizeOf(T) \in Nat
  BY <1>1, FS_Subset, SumNat DEF SizeOf
<1>3. ASSUME NEW T \in SUBSET S
      PROVE  SizeOf(S) = SizeOf(T) + SizeOf(S \ T)
  <2>1. /\ IsFiniteSet(T) /\ IsFiniteSet(S \ T) /\ T \cap (S \ T) = {}
        /\ T \cup (S \ T) = S
    BY <1>2
  <2>2. \A x \in T \cup (S \ T) : Size[x] \in Int
    BY <1>1, <2>1
  <2>3. SumOver(Size, T \cup (S \ T)) = SumOver(Size, T) + SumOver(Size, S \ T)
    BY <2>1, <2>2, SumUnion
  <2> QED
    BY <2>1, <2>3 DEF SizeOf
<1>4. ASSUME NEW T \in SUBSET S
      PROVE  SizeOf(T) <= SizeOf(S)
  <2>1. SizeOf(T) \in Nat /\ SizeOf(S \ T) \in Nat /\ S \ T \in SUBSET S
    BY <1>2
  <2> QED
    BY <1>3, <2>1
<1>5. ASSUME NEW t \in Tx \ S
      PROVE  SizeOf(S \cup {t}) = SizeOf(S) + Size[t]
  <2>1. \A x \in S \cup {t} : Size[x] \in Int
    BY PoolAssumption
  <2> QED
    BY <2>1, SumAdd DEF SizeOf
<1> QED
  BY <1>2, <1>3, <1>4, <1>5

(* Whatever set is removed, its size is taken off. *)
LEMMA RemovalSized ==
    ASSUME NEW p, p.entries \subseteq Tx, SizeExact(p), NEW S
    PROVE  SizeExact(RemovedAll(p, S))
<1> DEFINE q == RemovedAll(p, S)
           gone == S \cap p.entries
<1>1. q.entries = p.entries \ S /\ q.size = p.size - SizeOf(gone)
  BY DEF RemovedAll
<1>2. p.entries \ S = p.entries \ gone /\ gone \in SUBSET p.entries
  OBVIOUS
<1>3. /\ IsFiniteSet(gone) /\ IsFiniteSet(p.entries \ gone)
      /\ SizeOf(p.entries) = SizeOf(gone) + SizeOf(p.entries \ gone)
  BY <1>2, SizeFacts, FS_Subset DEF SizeExact
<1>4. SizeOf(gone) \in Nat /\ SizeOf(p.entries \ gone) \in Nat
  BY <1>2, <1>3, SizeFacts
<1> HIDE DEF gone, q
<1>5. q.size = SizeOf(q.entries) /\ IsFiniteSet(q.entries)
  <2>1. q.entries = p.entries \ gone
    BY <1>1, <1>2
  <2>2. p.size = SizeOf(gone) + SizeOf(q.entries)
    BY <1>3, <2>1 DEF SizeExact
  <2>3. SizeOf(q.entries) \in Nat
    BY <1>4, <2>1
  <2>4. q.size = SizeOf(q.entries)
    BY <1>1, <1>4, <2>2, <2>3
  <2> QED
    BY <1>3, <2>1, <2>4
<1>6. q.size <= MaxPoolSize
  BY <1>1, <1>2, <1>3, <1>4, PoolAssumption DEF SizeExact
<1> QED
  BY <1>5, <1>6 DEF SizeExact, q

(* The cheapest entries that have to go make the room that was missing.    *)
LEMMA AcceptedSized ==
    ASSUME NEW p, NEW t \in Tx, Exact(p), Typed(p), SizeExact(p),
           t \notin p.entries, RoomFor(p, t)
    PROVE  SizeExact(Accepted(p, t))
<1> DEFINE doomed == Doomed(p, t)
           gone == Families(p, doomed)
           room == RemovedAll(p, gone)
           q == Accepted(p, t)
           n == Min(Enough(p, t))
<1>0. p.entries \subseteq Tx /\ IsFiniteSet(p.entries) /\ Cardinality(p.entries) \in Nat
  BY FS_CardinalityType DEF Typed, SizeExact
<1>1. n \in Enough(p, t)
  <2>1. Enough(p, t) \in SUBSET Nat /\ Enough(p, t) # {}
    BY <1>0 DEF Enough, RoomFor
  <2>2. \E m \in Enough(p, t) : \A k \in Enough(p, t) : m <= k
    BY <2>1, LeastNumber
  <2> QED
    BY <2>2 DEF Min
<1>2. Fits(p, t, doomed) /\ n \in 0..Cardinality(p.entries)
  BY <1>1 DEF Enough, Doomed
<1>3. doomed \subseteq p.entries
  <2>1. Cheapest(p) \in Seq(p.entries) /\ Len(Cheapest(p)) = Cardinality(p.entries)
    BY <1>0, RankedFacts
  <2>2. \A i \in 1..n : Cheapest(p)[i] \in p.entries
    BY <1>0, <1>2, <2>1
  <2> QED
    BY <2>2 DEF Doomed, FirstOf
<1> HIDE DEF doomed, n
<1>4. doomed \subseteq gone
  <2>1. \A d \in doomed : d \in Family(p, d)
    BY <1>0, <1>3, FamilyFacts
  <2> QED
    BY <2>1 DEF Families
<1>5. /\ SizeExact(room) /\ room.entries = p.entries \ gone
      /\ q.entries = room.entries \cup {t} /\ q.size = room.size + Size[t]
  <2> HIDE DEF gone
  <2>1. SizeExact(room)
    BY <1>0, RemovalSized
  <2>2. q.entries = room.entries \cup {t} /\ q.size = room.size + Size[t]
    BY DEF Accepted, gone, doomed
  <2> QED
    BY <2>1, <2>2 DEF RemovedAll
<1> HIDE DEF gone, room, q
<1>6. room.entries \subseteq p.entries \ doomed /\ t \notin room.entries
  BY <1>4, <1>5
<1>7. /\ SizeOf(room.entries) <= SizeOf(p.entries \ doomed)
      /\ SizeOf(p.entries) = SizeOf(doomed) + SizeOf(p.entries \ doomed)
      /\ SizeOf(room.entries) \in Nat /\ SizeOf(p.entries \ doomed) \in Nat
      /\ SizeOf(doomed) \in Nat
  <2>1. /\ IsFiniteSet(doomed) /\ IsFiniteSet(p.entries \ doomed)
        /\ IsFiniteSet(room.entries)
    BY <1>0, <1>3, <1>6, FS_Subset
  <2> QED
    BY <1>0, <1>3, <1>6, <2>1, SizeFacts
<1>8. Size[t] \in Nat
  BY PoolAssumption
<1>9. q.size <= MaxPoolSize
  <2>1. p.size - SizeOf(doomed) + Size[t] <= MaxPoolSize /\ p.size = SizeOf(p.entries)
    BY <1>2 DEF Fits, SizeExact
  <2>2. q.size = SizeOf(room.entries) + Size[t]
    BY <1>5 DEF SizeExact
  <2>3. MaxPoolSize \in Nat
    BY PoolAssumption
  <2> QED
    BY <1>7, <1>8, <2>1, <2>2, <2>3
<1>10. IsFiniteSet(q.entries) /\ q.size = SizeOf(q.entries)
  <2>1. room.entries \in SUBSET Tx /\ IsFiniteSet(room.entries) /\ t \in Tx \ room.entries
    BY <1>0, <1>5, <1>6 DEF SizeExact
  <2>2. SizeOf(room.entries \cup {t}) = SizeOf(room.entries) + Size[t]
    BY <2>1, SizeFacts
  <2>3. IsFiniteSet(room.entries \cup {t})
    BY <2>1, FS_AddElement
  <2> QED
    BY <1>5, <2>2, <2>3 DEF SizeExact
<1> QED
  BY <1>9, <1>10 DEF SizeExact, q

-----------------------------------------------------------------------------
(* The repair of the pool after a reorganisation. *)

(* No two payments of a chain spend the same output. *)
SpentOnce(b) ==
    \A x, y \in PlacesIn(Ancestors[b]) :
        /\ x[2] # 0 /\ y[2] # 0
        /\ Inputs[At(x)] \cap Inputs[At(y)] # {}
        => x = y

(* A valid block spends nothing its branch has spent, and nothing twice. *)
LEMMA StillOnce ==
    ASSUME NEW b \in Block \ {Genesis}, BranchValid(b),
           Spent(Parent[b]) \subseteq Keys(Created(Parent[b])),
           SpentOnce(Parent[b])
    PROVE  SpentOnce(b)
<1> DEFINE p == Parent[b]
           pay == Payments[b]
           N == Len(pay)
<1>1. p \in Block /\ Ancestors[b] = Ancestors[p] \cup {b}
  BY TreeAssumption
<1>2. BlockValid(b)
  BY <1>1 DEF BranchValid, ValidBlocks
<1>3. /\ N \in Nat /\ DOMAIN pay = 1..N
      /\ \A i \in 1..N : pay[i] \in Tx /\ pay[i] \in PaymentSet(b)
  BY TransactionAssumption DEF PaymentSet
<1>4. ASSUME NEW i \in 1..N, NEW out \in Inputs[pay[i]]
      PROVE  /\ out \notin SpentBy(b, i - 1)
             /\ out \in Spent(p) => \E j \in 1..(i - 1) : out[1] = pay[j]
  <2>1. PICK r \in Spendable(b, i) : r.out = out
    BY <1>2, <1>3 DEF BlockValid
  <2>2. out \notin SpentBy(b, i - 1)
    BY <2>1 DEF Spendable
  <2>3. ASSUME out \in Spent(p)
        PROVE  \E j \in 1..(i - 1) : out[1] = pay[j]
    <3>1. r \notin LedgerAt[p]
      BY <1>1, <2>1, <2>3 DEF LedgerAt
    <3>2. PICK j \in 1..(i - 1) : r \in RowsOf(pay[j], Height[b], FALSE)
      BY <2>1, <3>1 DEF Spendable, CreatedBy
    <3>3. out[1] = pay[j]
      BY <2>1, <3>2 DEF RowsOf, OutsOf
    <3> QED
      BY <3>3
  <2> QED
    BY <2>2, <2>3
<1> DEFINE Again == {i \in 1..N : Inputs[pay[i]] \cap Spent(p) # {}}
<1>5. Again = {}
  <2> SUFFICES ASSUME Again # {} PROVE FALSE
    OBVIOUS
  <2>1. PICK i \in Again : \A k \in Again : i <= k
    <3>1. Again \in SUBSET Nat
      OBVIOUS
    <3> HIDE DEF Again
    <3> QED
      BY <3>1, LeastNumber
  <2>2. PICK out \in Inputs[pay[i]] : out \in Spent(p)
    BY <2>1
  <2>3. PICK j \in 1..(i - 1) : out[1] = pay[j]
    BY <1>4, <2>1, <2>2
  <2>4. j \in 1..N /\ ~(i <= j)
    BY <1>3, <2>1, <2>3
  <2>5. pay[j] \in Confirmed(p)
    <3>1. out[1] \in Confirmed(p) \cup CoinbaseTx
      BY <1>1, <2>2, MakerConfirmed
    <3> QED
      BY <1>3, <2>3, <2>4, <3>1, StructureAssumption
  <2>6. PICK x \in PlacesIn(Ancestors[p]) : x[2] # 0 /\ At(x) = pay[j]
    BY <2>5 DEF Confirmed, PaymentsIn
  <2>7. PICK o \in Inputs[pay[j]] : TRUE
    BY <1>3, <2>4, StructureAssumption DEF CheckStructure
  <2>8. o \in Spent(p)
    BY <1>1, <2>6, <2>7, SpentAt
  <2>9. j \in Again
    BY <2>4, <2>7, <2>8
  <2> QED
    BY <2>1, <2>4, <2>9
<1>6. ASSUME NEW i \in 1..N, NEW j \in 1..N, i < j
      PROVE  Inputs[pay[i]] \cap Inputs[pay[j]] = {}
  <2>1. ASSUME NEW out \in Inputs[pay[j]], out \in Inputs[pay[i]] PROVE FALSE
    <3>1. i \in 1..(j - 1)
      BY <1>3, <1>6
    <3>2. out \in SpentBy(b, j - 1)
      BY <2>1, <3>1 DEF SpentBy
    <3> QED
      BY <1>4, <3>2
  <2> QED
    BY <2>1
<1>7. ASSUME NEW x \in PlacesIn(Ancestors[b]), x[2] # 0
      PROVE  \/ x \in PlacesIn(Ancestors[p]) /\ Inputs[At(x)] \subseteq Spent(p)
             \/ \E i \in 1..N : x = <<b, i>> /\ At(x) = pay[i]
  <2>1. PICK a \in Ancestors[b] : x \in {a} \X (0..Len(Payments[a]))
    BY DEF PlacesIn
  <2>2. CASE a \in Ancestors[p]
    <3>1. x \in PlacesIn(Ancestors[p])
      BY <2>1, <2>2 DEF PlacesIn
    <3>2. Inputs[At(x)] \subseteq Spent(p)
      BY <1>1, <1>7, <3>1, SpentAt
    <3> QED
      BY <3>1, <3>2
  <2>3. CASE a = b
    <3>1. x = <<b, x[2]>> /\ x[2] \in 1..N
      BY <1>3, <1>7, <2>1, <2>3
    <3>2. At(x) = pay[x[2]]
      BY <1>7, <2>1, <2>3 DEF At
    <3> QED
      BY <3>1, <3>2
  <2> QED
    BY <1>1, <2>1, <2>2, <2>3
<1>8. ASSUME NEW x \in PlacesIn(Ancestors[b]), NEW y \in PlacesIn(Ancestors[b]),
             x[2] # 0, y[2] # 0, NEW out \in Inputs[At(x)], out \in Inputs[At(y)]
      PROVE  x = y
  <2> HIDE DEF N, pay
  <2>0. ASSUME NEW i \in 1..N, NEW j \in 1..N, out \in Inputs[pay[i]] \cap Inputs[pay[j]]
        PROVE  i = j
    <3>1. Inputs[pay[i]] \cap Inputs[pay[j]] # {} /\ Inputs[pay[j]] \cap Inputs[pay[i]] # {}
      BY <2>0
    <3>2. ~(i < j)
      BY <1>6, <3>1
    <3>3. ~(j < i)
      BY <1>6, <3>1
    <3> QED
      BY <1>3, <3>2, <3>3
  <2>1. CASE x \in PlacesIn(Ancestors[p]) /\ y \in PlacesIn(Ancestors[p])
    BY <1>8, <2>1 DEF SpentOnce
  <2>2. CASE \E i \in 1..N : x = <<b, i>> /\ At(x) = pay[i]
    <3>1. PICK i \in 1..N : x = <<b, i>> /\ At(x) = pay[i]
      BY <2>2
    <3>2. out \notin Spent(p)
      BY <1>5, <1>8, <3>1
    <3>3. PICK j \in 1..N : y = <<b, j>> /\ At(y) = pay[j]
      BY <1>7, <1>8, <3>2
    <3>4. out \in Inputs[pay[i]] \cap Inputs[pay[j]]
      BY <1>8, <3>1, <3>3
    <3>6. i = j
      BY <2>0, <3>4
    <3> QED
      BY <3>1, <3>3, <3>6
  <2>3. CASE \E i \in 1..N : y = <<b, i>> /\ At(y) = pay[i]
    <3>1. PICK i \in 1..N : y = <<b, i>> /\ At(y) = pay[i]
      BY <2>3
    <3>2. out \notin Spent(p)
      BY <1>5, <1>8, <3>1
    <3>3. PICK j \in 1..N : x = <<b, j>> /\ At(x) = pay[j]
      BY <1>7, <1>8, <3>2
    <3>4. out \in Inputs[pay[i]] \cap Inputs[pay[j]]
      BY <1>8, <3>1, <3>3
    <3>6. i = j
      BY <2>0, <3>4
    <3> QED
      BY <3>1, <3>3, <3>6
  <2> QED
    BY <1>7, <1>8, <2>1, <2>2, <2>3
<1> QED
  BY <1>8 DEF SpentOnce

(* Who cannot come back while the chain stays: an input is not on it, and  *)
(* whoever makes that input is confirmed, a coinbase or as badly off.      *)
Stranded(b, D) ==
    \A d \in D : \E out \in Inputs[d] :
        ~OnChain(b, out) /\ out[1] \in D \cup Confirmed(b) \cup CoinbaseTx

(* Where everybody owed has gone, those in D being stranded. *)
Accounted(D) ==
    /\ D \cap pool.entries = {}
    /\ Stranded(tip, D)
    /\ \A t \in owed :
          \/ t \in pool.entries \cup Confirmed(tip) \cup D
          \/ \E x \in pending \cup failing : At(x) = t

(* Why a refused one was refused. *)
Refused(t) == ~Admissible(pool, tip, t) \/ pool.size + Size[t] > MaxPoolSize

(* Between the steps of a repair, and when there is none. *)
RepairInv ==
    /\ settling \subseteq PlacesIn(Ancestors[tip])
    /\ \A b \in stored : SpentOnce(b)
    /\ \A t \in pool.entries : CheckStructure(t)
    /\ SizeExact(pool)
    /\ phase = "idle" => owed = {}
    /\ phase # "reoffer" => failing = {}
    /\ progressed \/ \A x \in failing : Refused(At(x))
    /\ \E D \in SUBSET Tx : Accounted(D)

(* A refusal has a reason the pool still shows. *)
LEMMA RefusalHasReason ==
    ASSUME SizeExact(pool), TypeOK, NEW t \in Tx, ~Accepts(pool, tip, t)
    PROVE  Refused(t)
<1> SUFFICES ASSUME ~RoomFor(pool, t), ~(pool.size + Size[t] > MaxPoolSize) PROVE FALSE
  BY DEF Accepts, Refused
<1>1. /\ pool.size \in Nat /\ Size[t] \in Nat /\ MaxPoolSize \in Nat
      /\ Cardinality(pool.entries) \in Nat
  BY SizeFacts, PoolAssumption, FS_CardinalityType DEF SizeExact, TypeOK
<1>2. FirstOf(Cheapest(pool), 0) = {}
  BY DEF FirstOf
<1>3. SizeOf({}) = 0
  BY SumEmpty DEF SizeOf
<1>4. Fits(pool, t, {})
  BY <1>1, <1>3 DEF Fits
<1>5. 0 \in Enough(pool, t)
  <2>1. 0 \in 0..Cardinality(pool.entries)
    BY <1>1
  <2>2. Fits(pool, t, FirstOf(Cheapest(pool), 0))
    BY <1>2, <1>4
  <2> QED
    BY <2>1, <2>2 DEF Enough
<1>6. \A n \in Enough(pool, t) : n \in Nat
  BY DEF Enough
<1>7. Min(Enough(pool, t)) = 0
  <2>1. \E m \in Enough(pool, t) : \A k \in Enough(pool, t) : m <= k
    BY <1>5, <1>6
  <2>2. /\ Min(Enough(pool, t)) \in Enough(pool, t)
        /\ \A k \in Enough(pool, t) : Min(Enough(pool, t)) <= k
    BY <2>1 DEF Min
  <2> QED
    BY <1>5, <1>6, <2>2
<1>8. Doomed(pool, t) = {}
  BY <1>2, <1>7 DEF Doomed
<1> QED
  BY <1>5, <1>8 DEF RoomFor

(* A node that starts owes nothing. *)
LEMMA RepairStart == Init => RepairInv
<1> SUFFICES ASSUME Init PROVE RepairInv
  OBVIOUS
<1>1. SizeExact(pool)
  <2>1. pool.entries = {} /\ pool.size = 0
    BY DEF Init, EmptyPool
  <2>2. SizeOf({}) = 0
    BY SumEmpty DEF SizeOf
  <2> QED
    BY <2>1, <2>2, FS_EmptySet, PoolAssumption DEF SizeExact
<1>2. SpentOnce(Genesis)
  <2>1. Ancestors[Genesis] = {Genesis} /\ Len(Payments[Genesis]) = 0
    BY TreeAssumption, GenesisAssumption
  <2>2. \A x \in PlacesIn(Ancestors[Genesis]) : x[2] = 0
    BY <2>1 DEF PlacesIn
  <2> QED
    BY <2>2 DEF SpentOnce
<1>3. Accounted({})
  BY DEF Init, Accounted, Stranded
<1> QED
  BY <1>1, <1>2, <1>3 DEF Init, RepairInv, EmptyPool

(* A block enters the chain: what leaves it is pending, nobody is          *)
(* stranded.                                                               *)
LEMMA RepairBlockStep ==
    ASSUME IInv, RepairInv, NEW b \in Block \ {Genesis}, BranchValid(b),
           AcceptSidechain(b) \/ AcceptHeavier(b)
    PROVE  RepairInv'
<1>0. /\ Parent[b] \in stored /\ stored' = stored \cup {b} /\ pool' = pool
      /\ phase = "idle" /\ settling = {} /\ tip \in Block
  BY DEF AcceptSidechain, AcceptHeavier, IInv, TypeOK, Scheduled
<1>1. \A a \in stored' : SpentOnce(a)
  <2>1. SpentOnce(b)
    BY <1>0, StillOnce DEF IInv, Rooted, RepairInv
  <2> QED
    BY <1>0, <2>1 DEF RepairInv
<1>2. (\A t \in pool.entries : CheckStructure(t))' /\ SizeExact(pool')
  BY <1>0 DEF RepairInv
<1>3. CASE AcceptSidechain(b)
  <2>1. UNCHANGED <<tip, pool, repair>>
    BY <1>3 DEF AcceptSidechain
  <2> QED
    BY <1>1, <1>2, <2>1 DEF RepairInv, Accounted, Refused, repair
<1>4. CASE AcceptHeavier(b)
  <2>1. /\ tip' = b
        /\ phase' = "taken"
        /\ settling' = PlacesIn(Ancestors[b] \ Ancestors[tip])
        /\ pending' = {x \in PlacesIn(Ancestors[tip] \ Ancestors[b]) : x[2] # 0}
        /\ failing' = {}
        /\ owed' = pool.entries \cup PaymentsIn(Ancestors[tip] \ Ancestors[b])
    BY <1>4 DEF AcceptHeavier
  <2>2. settling' \subseteq PlacesIn(Ancestors[tip'])
    BY <2>1 DEF PlacesIn
  <2>3. Accounted({})'
    BY <1>0, <2>1 DEF Accounted, Stranded, PaymentsIn
  <2>4. (\E D \in SUBSET Tx : Accounted(D))'
    BY <2>3
  <2> QED
    BY <1>1, <1>2, <2>1, <2>2, <2>4 DEF RepairInv
<1> QED
  BY <1>3, <1>4

(* Whom settling a transaction removes without confirming it is stranded.  *)
LEMMA RepairSettleStep ==
    ASSUME IInv, RepairInv, SettleNext
    PROVE  RepairInv'
<1>1. PICK x \in settling :
         /\ pool' = Settled(pool, At(x))
         /\ settling' = settling \ {x}
  BY DEF SettleNext
<1>2. /\ phase = "settle" /\ failing = {}
      /\ UNCHANGED <<chain, phase, pending, failing, progressed, owed>>
      /\ tip' = tip /\ stored' = stored
  BY DEF SettleNext, RepairInv, chain
<1> DEFINE t == At(x)
           rest == RemovedAll(pool, {t})
           rivals == {rest.spends[out] : out \in Inputs[t] \cap DOMAIN rest.spends}
           kin == Families(rest, rivals)
<1>3. /\ x \in PlacesIn(Ancestors[tip]) /\ t \in Tx /\ tip \in Block /\ tip \in stored
      /\ Exact(pool) /\ Typed(pool) /\ SizeExact(pool)
      /\ pool.entries \cap CoinbaseTx = {}
  <2>1. settling \subseteq PlacesIn(Ancestors[tip]) /\ SizeExact(pool)
    BY DEF RepairInv
  <2>2. settling \subseteq PlacesIn(Block) /\ tip \in stored /\ stored \subseteq Block
    BY DEF IInv, TypeOK
  <2>3. Exact(pool) /\ Typed(pool)
    BY DEF IInv, TypeOK, IndexExact, Exact, Typed
  <2> QED
    BY <2>1, <2>2, <2>3, PlaceType DEF IInv, NoCoinbase
<1>4. /\ Spent(tip) \subseteq Keys(Created(tip))
      /\ SpentOnce(tip)
  BY <1>3 DEF IInv, Rooted, RepairInv
<1> HIDE DEF t
<1>5. /\ Exact(rest) /\ Typed(rest) /\ SizeExact(rest)
      /\ rest.entries = pool.entries \ {t}
  <2>1. pool.entries \subseteq Tx
    BY <1>3 DEF Typed
  <2> QED
    BY <1>3, <2>1, RemovalExact, RemovalSized
<1>6. /\ SizeExact(pool')
      /\ pool'.entries = rest.entries \ (rivals \cup kin)
  <2>1. pool' = RemovedAll(rest, rivals \cup kin)
    BY <1>1 DEF Settled, t
  <2> HIDE DEF rest, rivals, kin
  <2>2. rest.entries \subseteq Tx
    BY <1>5 DEF Typed
  <2> QED
    BY <1>5, <2>1, <2>2, RemovalExact, RemovalSized
<1> HIDE DEF rest
<1>7. ASSUME NEW out, OnChain(tip, out)
      PROVE  out \notin Spent(tip) /\ out[1] \in Confirmed(tip) \cup CoinbaseTx
  <2>1. PICK r \in LedgerAt[tip] : r.out = out
    BY <1>7 DEF OnChain, Keys
  <2>2. r \in Created(tip) /\ out \notin Spent(tip)
    BY <1>3, <2>1 DEF LedgerAt
  <2>3. out \in Keys(Created(tip))
    BY <2>1, <2>2 DEF Keys
  <2> QED
    BY <1>3, <2>2, <2>3, MakerConfirmed
<1>8. ASSUME NEW r \in rivals
      PROVE  /\ r \in rest.entries /\ r \notin Confirmed(tip)
             /\ \E out \in Inputs[r] :
                   ~OnChain(tip, out) /\ out[1] \in Confirmed(tip) \cup CoinbaseTx
  <2>1. PICK out \in Inputs[t] \cap DOMAIN rest.spends : r = rest.spends[out]
    OBVIOUS
  <2>2. r \in rest.entries /\ out \in Inputs[r] /\ r # t
    BY <1>5, <2>1 DEF Exact
  <2>3. x[2] # 0
    <3> SUFFICES ASSUME x[2] = 0 PROVE FALSE
      OBVIOUS
    <3>1. PICK a \in Ancestors[tip] : x \in {a} \X (0..Len(Payments[a]))
      BY <1>3 DEF PlacesIn
    <3>2. t = Coinbase[a] /\ a \in Block
      BY <1>3, <3>1, TreeAssumption DEF At, t
    <3>3. Inputs[t] = {}
      BY <3>2, StructureAssumption, TransactionAssumption
    <3> QED
      BY <2>1, <3>3
  <2>4. out \in Spent(tip)
    BY <1>3, <2>1, <2>3, SpentAt DEF t
  <2>5. out[1] \in Confirmed(tip) \cup CoinbaseTx
    BY <1>3, <1>4, <2>4, MakerConfirmed
  <2>6. ~OnChain(tip, out)
    BY <1>7, <2>4
  <2>7. ASSUME r \in Confirmed(tip) PROVE FALSE
    <3>1. PICK y \in PlacesIn(Ancestors[tip]) : y[2] # 0 /\ At(y) = r
      BY <2>7 DEF Confirmed, PaymentsIn
    <3>2. Inputs[At(x)] \cap Inputs[At(y)] # {}
      BY <2>1, <2>2, <3>1 DEF t
    <3>3. x = y
      BY <1>3, <1>4, <2>3, <3>1, <3>2 DEF SpentOnce
    <3> QED
      BY <2>2, <3>1, <3>3 DEF t
  <2> QED
    BY <2>2, <2>5, <2>6, <2>7
<1>9. ASSUME NEW d \in kin
      PROVE  /\ d \in rest.entries
             /\ d \in rivals \/ \E out \in Inputs[d] : ~OnChain(tip, out) /\ out[1] \in kin
  <2>1. PICK r \in rivals : d \in Family(rest, r)
    BY DEF Families
  <2>2. /\ Family(rest, r) \subseteq rest.entries
        /\ d = r \/ \E out \in Inputs[d] : out[1] \in Family(rest, r)
    BY <1>5, <2>1, FamilyFacts DEF SizeExact
  <2>3. Family(rest, r) \cap Confirmed(tip) = {} /\ rest.entries \cap CoinbaseTx = {}
    <3>1. rest.entries \cap CoinbaseTx = {}
      BY <1>3, <1>5
    <3> QED
      BY <1>3, <1>4, <1>5, <1>8, <3>1, FamilyUnconfirmed DEF SizeExact
  <2>4. Family(rest, r) \subseteq kin
    BY DEF Families
  <2>5. ASSUME NEW out \in Inputs[d], out[1] \in Family(rest, r)
        PROVE  ~OnChain(tip, out)
    BY <1>7, <2>2, <2>3, <2>5
  <2> QED
    BY <2>1, <2>2, <2>4, <2>5
<1>10. PICK D \in SUBSET Tx : Accounted(D)
  BY DEF RepairInv
<1> PICK E : E = D \cup rivals \cup kin
  OBVIOUS
<1>11. E \in SUBSET Tx /\ Accounted(E)'
  <2>1. rivals \cup kin \subseteq rest.entries /\ rest.entries \subseteq Tx
    BY <1>5, <1>8, <1>9 DEF Typed
  <2>2. E \cap pool'.entries = {}
    BY <1>5, <1>6, <1>10 DEF Accounted
  <2>3. Stranded(tip, E)
    <3>1. ASSUME NEW d \in E
          PROVE  \E out \in Inputs[d] :
                    ~OnChain(tip, out) /\ out[1] \in E \cup Confirmed(tip) \cup CoinbaseTx
      <4>1. CASE d \in D
        BY <1>10, <4>1 DEF Accounted, Stranded
      <4>2. CASE d \in rivals
        BY <1>8, <4>2
      <4>3. CASE d \in kin /\ d \notin rivals
        BY <1>9, <4>3
      <4> QED
        BY <4>1, <4>2, <4>3
    <3> QED
      BY <3>1 DEF Stranded
  <2>4. ASSUME NEW u \in owed
        PROVE  \/ u \in pool'.entries \cup Confirmed(tip) \cup E
               \/ \E y \in pending \cup failing : At(y) = u
    <3>1. CASE u \in pool.entries /\ u # t
      BY <1>5, <1>6, <3>1
    <3>2. CASE u \in pool.entries /\ u = t
      <4>1. PICK a \in Ancestors[tip] : x \in {a} \X (0..Len(Payments[a]))
        BY <1>3 DEF PlacesIn
      <4>2. x[2] # 0
        <5> SUFFICES ASSUME x[2] = 0 PROVE FALSE
          OBVIOUS
        <5>1. t = Coinbase[a] /\ a \in Block
          BY <1>3, <4>1, TreeAssumption DEF At, t
        <5> QED
          BY <1>3, <3>2, <5>1, StructureAssumption
      <4>3. t \in Confirmed(tip)
        BY <1>3, <4>2 DEF Confirmed, PaymentsIn, t
      <4> QED
        BY <3>2, <4>3
    <3>3. CASE u \notin pool.entries
      BY <1>10, <3>3 DEF Accounted
    <3> QED
      BY <3>1, <3>2, <3>3
  <2>5. E \subseteq Tx
    BY <2>1
  <2> QED
    BY <1>2, <2>2, <2>3, <2>4, <2>5 DEF Accounted
<1>12. /\ \A u \in pool'.entries : CheckStructure(u)
       /\ settling' \subseteq PlacesIn(Ancestors[tip'])
  BY <1>1, <1>2, <1>5, <1>6 DEF RepairInv
<1>13. (\E A \in SUBSET Tx : Accounted(A))'
  BY <1>11
<1> QED
  BY <1>2, <1>6, <1>12, <1>13 DEF RepairInv

(* Somebody is admitted, submitted or offered back: a stranded one cannot  *)
(* be.                                                                     *)
LEMMA RepairAdmission ==
    ASSUME IInv, RepairInv, settling = {}, NEW t \in Tx, Accepts(pool, tip, t),
           pool' = Accepted(pool, t)
    PROVE  /\ SizeExact(pool')
           /\ \A u \in pool'.entries : CheckStructure(u)
           /\ t \in pool'.entries
           /\ \A D \in SUBSET Tx : Accounted(D) => D \cap pool'.entries = {}
<1>1. Admissible(pool, tip, t) /\ RoomFor(pool, t)
  BY DEF Accepts
<1>2. Exact(pool) /\ Typed(pool) /\ SizeExact(pool)
  BY DEF IInv, TypeOK, IndexExact, Exact, Typed, RepairInv
<1>3. SizeExact(pool')
  BY <1>1, <1>2, AcceptedSized DEF Admissible
<1>4. pool'.entries \subseteq pool.entries \cup {t}
  <2>1. Inputs[t] \cap DOMAIN pool.spends = {}
    BY <1>1 DEF Admissible
  <2> QED
    BY <1>2, <2>1, AcceptedExact
<1>5. t \in pool'.entries
  BY DEF Accepted
<1>6. \A u \in pool'.entries : CheckStructure(u)
  BY <1>1, <1>4 DEF RepairInv, Admissible
<1>7. ASSUME NEW D \in SUBSET Tx, Accounted(D), t \in D PROVE FALSE
  <2>1. PICK out \in Inputs[t] :
           ~OnChain(tip, out) /\ out[1] \in D \cup Confirmed(tip) \cup CoinbaseTx
    BY <1>7 DEF Accounted, Stranded
  <2>2. out[1] \in pool.entries
    BY <1>1, <2>1 DEF Admissible
  <2> QED
    BY <1>7, <2>1, <2>2 DEF IInv, Scheduled, NoCoinbase, Accounted
<1>8. \A D \in SUBSET Tx : Accounted(D) => D \cap pool'.entries = {}
  BY <1>4, <1>7 DEF Accounted
<1> QED
  BY <1>3, <1>5, <1>6, <1>8

(* A disconnected payment is offered back: it is in, or refused for a      *)
(* reason that lasts as long as nobody else is admitted.                   *)
LEMMA RepairOfferStep ==
    ASSUME IInv, RepairInv, OfferNext
    PROVE  RepairInv'
<1>1. PICK x \in pending :
         /\ pending' = pending \ {x}
         /\ \/ /\ Accepts(pool, tip, At(x))
               /\ pool' = Accepted(pool, At(x))
               /\ progressed' = TRUE
               /\ owed' = owed \ (pool.entries \ pool'.entries)
               /\ UNCHANGED failing
            \/ /\ ~Accepts(pool, tip, At(x))
               /\ failing' = failing \cup {x}
               /\ UNCHANGED <<pool, progressed, owed>>
  BY DEF OfferNext
<1>2. /\ phase = "reoffer" /\ settling = {}
      /\ tip' = tip /\ stored' = stored /\ phase' = phase /\ settling' = settling
      /\ At(x) \in Tx
  BY PlaceType DEF OfferNext, IInv, TypeOK, Scheduled, chain
<1>3. PICK D \in SUBSET Tx : Accounted(D)
  BY DEF RepairInv
<1>4. (settling \subseteq PlacesIn(Ancestors[tip]))' /\ (\A b \in stored : SpentOnce(b))'
  BY <1>2 DEF RepairInv
<1>5. CASE /\ Accepts(pool, tip, At(x))
           /\ pool' = Accepted(pool, At(x))
           /\ progressed' = TRUE
           /\ owed' = owed \ (pool.entries \ pool'.entries)
           /\ UNCHANGED failing
  <2>1. /\ SizeExact(pool')
        /\ \A u \in pool'.entries : CheckStructure(u)
        /\ At(x) \in pool'.entries
        /\ D \cap pool'.entries = {}
    BY <1>2, <1>3, <1>5, RepairAdmission
  <2>2. ASSUME NEW u \in owed'
        PROVE  \/ u \in pool'.entries \cup Confirmed(tip) \cup D
               \/ \E y \in pending' \cup failing' : At(y) = u
    <3>1. u \in owed /\ (u \in pool.entries => u \in pool'.entries)
      BY <1>5
    <3>2. CASE u \in pool.entries \cup Confirmed(tip) \cup D
      BY <3>1, <3>2
    <3>3. CASE \E y \in pending \cup failing : At(y) = u
      BY <1>1, <1>5, <2>1, <3>3
    <3> QED
      BY <1>3, <3>1, <3>2, <3>3 DEF Accounted
  <2>3. Accounted(D)'
    BY <1>2, <1>3, <2>1, <2>2 DEF Accounted
  <2>4. (\E E \in SUBSET Tx : Accounted(E))'
    BY <2>3
  <2> QED
    BY <1>2, <1>4, <1>5, <2>1, <2>4 DEF RepairInv
<1>6. CASE /\ ~Accepts(pool, tip, At(x))
           /\ failing' = failing \cup {x}
           /\ UNCHANGED <<pool, progressed, owed>>
  <2>1. pool' = pool /\ progressed' = progressed /\ owed' = owed
    BY <1>6
  <2>2. Refused(At(x))
    BY <1>2, <1>6, RefusalHasReason DEF IInv, RepairInv
  <2>3. (progressed \/ \A y \in failing : Refused(At(y)))'
    BY <1>2, <1>6, <2>1, <2>2 DEF RepairInv, Refused
  <2>4. pending' \cup failing' = pending \cup failing
    BY <1>1, <1>6
  <2>5. Accounted(D)'
    BY <1>2, <1>3, <2>1, <2>4 DEF Accounted
  <2>6. (\E E \in SUBSET Tx : Accounted(E))'
    BY <2>5
  <2>7. (\A t \in pool.entries : CheckStructure(t))' /\ SizeExact(pool)'
    BY <2>1 DEF RepairInv
  <2> QED
    BY <1>2, <1>4, <2>3, <2>6, <2>7 DEF RepairInv
<1> QED
  BY <1>1, <1>5, <1>6

(* Every step keeps the account. *)
LEMMA RepairPreserved == IInv /\ RepairInv /\ [Next]_vars => RepairInv'
<1> SUFFICES ASSUME IInv, RepairInv, [Next]_vars PROVE RepairInv'
  OBVIOUS
<1>0. PICK D \in SUBSET Tx : Accounted(D)
  BY DEF RepairInv
<1>1. CASE \E b \in Block \ {Genesis} : BranchValid(b) /\ (AcceptSidechain(b) \/ AcceptHeavier(b))
  BY <1>1, RepairBlockStep
<1>2. CASE Absorb
  <2>1. Accounted(D)'
    BY <1>0, <1>2 DEF Absorb, Accounted, chain
  <2>2. (\E E \in SUBSET Tx : Accounted(E))'
    BY <2>1
  <2> QED
    BY <1>2, <2>2 DEF Absorb, RepairInv, Refused, chain
<1>3. CASE SettleNext
  BY <1>3, RepairSettleStep
<1>4. CASE Reconsider
  <2>1. Accounted(D)'
    BY <1>0, <1>4 DEF Reconsider, Accounted, chain
  <2>2. (\E E \in SUBSET Tx : Accounted(E))'
    BY <2>1
  <2> QED
    BY <1>4, <2>2 DEF Reconsider, RepairInv, Refused, chain
<1>5. CASE OfferNext
  BY <1>5, RepairOfferStep
<1>6. CASE NextPass
  <2>1. Accounted(D)'
    BY <1>0, <1>6 DEF NextPass, Accounted, chain
  <2>2. (\E E \in SUBSET Tx : Accounted(E))'
    BY <2>1
  <2> QED
    BY <1>6, <2>2 DEF NextPass, RepairInv, Refused, chain
<1>7. CASE Finish \/ Restart
  <2>1. /\ owed' = {} /\ pending' = {} /\ failing' = {} /\ settling' = {}
        /\ tip' = tip /\ stored' = stored
        /\ pool' = pool \/ pool' = EmptyPool
    BY <1>7 DEF Finish, Restart, Idle, chain
  <2>2. (\A t \in pool.entries : CheckStructure(t))' /\ SizeExact(pool)'
    <3>1. SizeOf({}) = 0
      BY SumEmpty DEF SizeOf
    <3>2. (\A t \in EmptyPool.entries : CheckStructure(t)) /\ SizeExact(EmptyPool)
      BY <3>1, FS_EmptySet, PoolAssumption DEF SizeExact, EmptyPool
    <3> QED
      BY <2>1, <3>2 DEF RepairInv
  <2>3. Accounted({})'
    BY <2>1 DEF Accounted, Stranded
  <2>4. (\E E \in SUBSET Tx : Accounted(E))'
    BY <2>3
  <2>5. (\A b \in stored : SpentOnce(b))'
    BY <2>1 DEF RepairInv
  <2> QED
    BY <2>1, <2>2, <2>4, <2>5 DEF RepairInv
<1>8. CASE \E t \in Tx : SubmitTx(t)
  <2>1. PICK t \in Tx : SubmitTx(t)
    BY <1>8
  <2>2. /\ phase = "idle" /\ settling = {} /\ Accepts(pool, tip, t)
        /\ pool' = Accepted(pool, t) /\ UNCHANGED <<chain, repair>>
    BY <2>1 DEF SubmitTx, IInv, Scheduled
  <2>3. /\ SizeExact(pool')
        /\ \A u \in pool'.entries : CheckStructure(u)
        /\ D \cap pool'.entries = {}
    BY <1>0, <2>2, RepairAdmission
  <2>4. owed = {} /\ failing = {}
    BY <2>2 DEF RepairInv
  <2>5. /\ tip' = tip /\ stored' = stored /\ settling' = settling
        /\ phase' = phase /\ failing' = failing /\ owed' = owed
        /\ progressed' = progressed
    BY <2>2 DEF chain, repair
  <2>6. Accounted(D)'
    BY <1>0, <2>3, <2>4, <2>5 DEF Accounted
  <2>7. (\E E \in SUBSET Tx : Accounted(E))'
    BY <2>6
  <2> QED
    BY <2>3, <2>4, <2>5, <2>7 DEF RepairInv
<1>9. CASE UNCHANGED vars
  <2>1. Accounted(D)'
    BY <1>0, <1>9 DEF vars, chain, repair, Accounted
  <2>2. (\E E \in SUBSET Tx : Accounted(E))'
    BY <2>1
  <2> QED
    BY <1>9, <2>2 DEF vars, chain, repair, RepairInv, Refused
<1> QED
  BY <1>1, <1>2, <1>3, <1>4, <1>5, <1>6, <1>7, <1>8, <1>9 DEF Next

(* So it holds in every state. *)
LEMMA RepairInvariant == Spec => []RepairInv
<1>1. IInv /\ RepairInv /\ [Next]_vars => RepairInv'
  BY RepairPreserved
<1> QED
  BY <1>1, RepairStart, Invariant, PTL DEF Spec

(* Whatever was waiting or left the chain is accounted for when the repair *)
(* of _absorb ends.                                                        *)
THEOREM NothingIsLost == Spec => []NothingLost
<1>1. IInv /\ RepairInv => NothingLost
  <2> SUFFICES ASSUME IInv, RepairInv, Finished, NEW t \in owed
               PROVE  \/ t \in pool.entries
                      \/ t \in Confirmed(tip)
                      \/ ~Admissible(pool, tip, t)
                      \/ pool.size + Size[t] > MaxPoolSize
    BY DEF NothingLost
  <2>1. PICK D \in SUBSET Tx : Accounted(D)
    BY DEF RepairInv
  <2>2. CASE t \in D
    <3>1. PICK out \in Inputs[t] :
             ~OnChain(tip, out) /\ out[1] \in D \cup Confirmed(tip) \cup CoinbaseTx
      BY <2>1, <2>2 DEF Accounted, Stranded
    <3>2. out[1] \notin pool.entries
      <4>1. pool.entries \cap (Confirmed(tip) \cup CoinbaseTx) = {}
        BY DEF Finished, IInv, Scheduled, NoCoinbase
      <4> QED
        BY <2>1, <3>1, <4>1 DEF Accounted
    <3> QED
      BY <3>1, <3>2 DEF Admissible
  <2>3. CASE \E x \in pending \cup failing : At(x) = t
    BY <2>3 DEF Finished, RepairInv, Refused
  <2> QED
    BY <2>1, <2>2, <2>3 DEF Accounted
<1> QED
  BY <1>1, Invariant, RepairInvariant, PTL

-----------------------------------------------------------------------------
(* Templates. *)

(* Every payment finds its inputs on the chain, or made by one before it.  *)
Grounded(b, c) ==
    \A i \in 1..Len(c) : \A out \in Inputs[c[i]] :
        OnChain(b, out) \/ \E j \in 1..(i - 1) : out[1] = c[j]

(* No payment twice. *)
Different(c) == \A i, j \in 1..Len(c) : i # j => c[i] # c[j]

(* What a block may be made of. *)
Templates(p, b) ==
    {c \in Selections(p) :
        /\ Grounded(b, c)
        /\ Different(c)
        /\ SizeOf(ToSet(c)) <= MaxTemplateSize}

(* Taking or skipping an entry keeps a template one.                       *)
LEMMA StillTemplate ==
    ASSUME NEW p, p.entries \subseteq Tx, IsFiniteSet(p.entries), NEW b,
           NEW c \in Templates(p, b), NEW t \in p.entries
    PROVE  TakeOrSkip(p, b, c, t) \in Templates(p, b)
<1>1. c \in Seq(p.entries) /\ Len(c) \in Nat /\ ToSet(c) \subseteq p.entries
  BY DEF Templates, Selections, ToSet
<1> PICK d : d = Append(c, t)
  OBVIOUS
<1>2. /\ d \in Seq(p.entries) /\ Len(d) = Len(c) + 1
      /\ ToSet(d) = ToSet(c) \cup {t}
      /\ \A i \in 1..Len(c) : d[i] = c[i]
      /\ d[Len(c) + 1] = t
  BY <1>1, ToSetAppend
<1>3. CASE /\ t \notin ToSet(c)
           /\ SizeOf(ToSet(c)) + Size[t] <= MaxTemplateSize
           /\ Satisfiable(p, b, c, t)
  <2>1. TakeOrSkip(p, b, c, t) = d
    BY <1>3 DEF TakeOrSkip
  <2>2. d \in Selections(p)
    BY <2>1, TakenOrSkipped DEF Templates
  <2>3. SizeOf(ToSet(d)) <= MaxTemplateSize
    <3>1. ToSet(c) \in SUBSET Tx /\ IsFiniteSet(ToSet(c)) /\ t \in Tx \ ToSet(c)
      BY <1>1, <1>3, FS_Subset
    <3>2. SizeOf(ToSet(c) \cup {t}) = SizeOf(ToSet(c)) + Size[t]
      BY <3>1, SizeFacts
    <3> QED
      BY <1>2, <1>3, <3>2
  <2>4. \A i \in 1..Len(d) : i \in 1..Len(c) \/ i = Len(c) + 1
    BY <1>1, <1>2
  <2>5. \A i \in 1..Len(c) : c[i] \in ToSet(c)
    BY <1>1 DEF ToSet
  <2>6. Different(d)
    <3>1. \A i \in 1..Len(c) : d[i] # t
      BY <1>2, <1>3, <2>5
    <3>2. \A i, j \in 1..Len(c) : i # j => d[i] # d[j]
      BY <1>2 DEF Templates, Different
    <3> QED
      BY <1>2, <2>4, <3>1, <3>2 DEF Different
  <2>7. ASSUME NEW i \in 1..Len(d), NEW out \in Inputs[d[i]], ~OnChain(b, out)
        PROVE  \E j \in 1..(i - 1) : out[1] = d[j]
    <3>1. CASE i \in 1..Len(c)
      <4>1. PICK j \in 1..(i - 1) : out[1] = c[j]
        BY <1>2, <2>7, <3>1 DEF Templates, Grounded
      <4>2. j \in 1..Len(c)
        BY <1>1, <3>1, <4>1
      <4> QED
        BY <1>2, <4>1, <4>2
    <3>2. CASE i = Len(c) + 1
      <4>1. out[1] \in ToSet(c)
        BY <1>2, <1>3, <2>7, <3>2 DEF Satisfiable
      <4>2. PICK j \in 1..Len(c) : out[1] = c[j]
        BY <1>1, <4>1 DEF ToSet
      <4>3. j \in 1..(i - 1)
        BY <1>1, <3>2, <4>2
      <4> QED
        BY <1>2, <4>2, <4>3
    <3> QED
      BY <2>4, <3>1, <3>2
  <2>8. Grounded(b, d)
    BY <2>7 DEF Grounded
  <2>9. d \in Templates(p, b)
    BY <2>2, <2>3, <2>6, <2>8 DEF Templates
  <2> QED
    BY <2>1, <2>9
<1>4. CASE ~(/\ t \notin ToSet(c)
             /\ SizeOf(ToSet(c)) + Size[t] <= MaxTemplateSize
             /\ Satisfiable(p, b, c, t))
  BY <1>4 DEF TakeOrSkip
<1> QED
  BY <1>3, <1>4

(* What select_for_block returns is a template, and each entry it leaves   *)
(* out is too big for what room is left or lacks an input.                 *)
LEMMA SelectedFacts ==
    ASSUME NEW p, p.entries \subseteq Tx, IsFiniteSet(p.entries), NEW b
    PROVE  /\ Select(p, b) \in Templates(p, b)
           /\ \A t \in p.entries \ ToSet(Select(p, b)) :
                 \/ SizeOf(ToSet(Select(p, b))) + Size[t] > MaxTemplateSize
                 \/ ~Satisfiable(p, b, Select(p, b), t)
<1>1. <<>> \in Templates(p, b)
  <2>1. ToSet(<<>>) = {} /\ Cardinality({}) = 0
    BY FS_EmptySet DEF ToSet
  <2>2. SizeOf({}) = 0
    BY SumEmpty DEF SizeOf
  <2>3. <<>> \in Seq(p.entries) /\ Len(<<>>) = 0
    OBVIOUS
  <2>4. Grounded(b, <<>>) /\ Different(<<>>)
    BY <2>3 DEF Grounded, Different
  <2>5. SizeOf(ToSet(<<>>)) <= MaxTemplateSize
    <3>1. SizeOf(ToSet(<<>>)) = 0
      BY <2>1, <2>2, Zenon
    <3>2. MaxTemplateSize \in Nat
      BY PoolAssumption
    <3> QED
      BY <3>1, <3>2
  <2>6. Cardinality(ToSet(<<>>)) = Len(<<>>)
    BY <2>1, <2>3
  <2> QED
    BY <2>3, <2>4, <2>5, <2>6 DEF Templates, Selections
<1>2. Templates(p, b) \subseteq Selections(p)
  BY DEF Templates
<1>3. \A c \in Templates(p, b) : \A t \in p.entries : TakeOrSkip(p, b, c, t) \in Templates(p, b)
  BY StillTemplate
<1> PICK s : s = Select(p, b)
  OBVIOUS
<1>4. s \in Templates(p, b) /\ \A t \in p.entries \ ToSet(s) : TakeOrSkip(p, b, s, t) = s
  BY <1>1, <1>2, <1>3, SelectFacts
<1>5. ASSUME NEW t \in p.entries \ ToSet(s),
             ~(SizeOf(ToSet(s)) + Size[t] > MaxTemplateSize), Satisfiable(p, b, s, t)
      PROVE  FALSE
  <2>1. s \in Seq(p.entries)
    BY <1>4 DEF Templates, Selections
  <2>2. SizeOf(ToSet(s)) + Size[t] \in Int
    <3>1. ToSet(s) \in SUBSET Tx /\ ToSet(s) \subseteq p.entries
      BY <2>1 DEF ToSet
    <3>2. SizeOf(ToSet(s)) \in Nat
      BY <3>1, FS_Subset, SizeFacts
    <3> QED
      BY <3>2, PoolAssumption
  <2>3. SizeOf(ToSet(s)) + Size[t] <= MaxTemplateSize
    BY <1>5, <2>2, PoolAssumption
  <2>4. TakeOrSkip(p, b, s, t) = Append(s, t)
    BY <1>5, <2>3 DEF TakeOrSkip
  <2>5. Len(Append(s, t)) = Len(s) + 1 /\ Len(s) \in Nat
    BY <2>1
  <2> QED
    BY <1>4, <2>4, <2>5
<1> QED
  BY <1>4, <1>5

(* Whatever leaves and enters in between, a template built while the lock  *)
(* is free spends nothing twice, nothing that is not there and nothing     *)
(* confirmed.                                                              *)
THEOREM TemplatesAreSound == Spec => []TemplateSound
<1>1. IInv /\ RepairInv => TemplateSound
  <2> SUFFICES ASSUME IInv, RepairInv, Unlocked PROVE TemplateSound
    BY DEF TemplateSound
  <2> PICK c : c = Template
    OBVIOUS
  <2>1. pool.entries \subseteq Tx /\ IsFiniteSet(pool.entries) /\ tip \in Block /\ tip \in stored
    BY DEF IInv, TypeOK, RepairInv, SizeExact
  <2>2. c \in Templates(pool, tip)
    BY <2>1, SelectedFacts DEF Template
  <2>3. /\ c \in Seq(pool.entries) /\ Len(c) \in Nat /\ DOMAIN c = 1..Len(c)
        /\ \A i \in 1..Len(c) : c[i] \in pool.entries /\ c[i] \in Tx
    BY <2>1, <2>2 DEF Templates, Selections
  <2>4. ASSUME NEW i \in DOMAIN c, NEW out \in Inputs[c[i]]
        PROVE  OnChain(tip, out) \/ \E j \in 1..(i - 1) : out \in OutsOf(c[j])
    <3> SUFFICES ASSUME ~OnChain(tip, out) PROVE \E j \in 1..(i - 1) : out \in OutsOf(c[j])
      OBVIOUS
    <3>1. PICK j \in 1..(i - 1) : out[1] = c[j]
      BY <2>2, <2>3, <2>4 DEF Templates, Grounded
    <3>2. out \in OutPoint /\ out[2] \in DOMAIN Outputs[out[1]]
      BY <2>3, <2>4, TransactionAssumption, AmountAssumption
    <3>3. out = <<out[1], out[2]>>
      BY <3>2 DEF OutPoint
    <3>4. out \in OutsOf(c[j])
      BY <3>1, <3>2, <3>3 DEF OutsOf
    <3> QED
      BY <3>4
  <2>5. ASSUME NEW i \in DOMAIN c, NEW j \in DOMAIN c, i # j
        PROVE  Inputs[c[i]] \cap Inputs[c[j]] = {}
    <3>1. c[i] # c[j]
      BY <2>2, <2>3, <2>5 DEF Templates, Different
    <3> QED
      BY <2>3, <3>1 DEF IInv, IndexExact
  <2>6. ToSet(c) \cap Confirmed(tip) = {}
    <3> DEFINE Early == {i \in 1..Len(c) : c[i] \in Confirmed(tip)}
    <3>1. Early = {}
      <4> SUFFICES ASSUME Early # {} PROVE FALSE
        OBVIOUS
      <4>1. PICK i \in Early : \A k \in Early : i <= k
        <5>1. Early \in SUBSET Nat
          OBVIOUS
        <5> HIDE DEF Early
        <5> QED
          BY <5>1, LeastNumber
      <4>2. PICK x \in PlacesIn(Ancestors[tip]) : x[2] # 0 /\ At(x) = c[i]
        BY <4>1 DEF Confirmed, PaymentsIn
      <4>3. PICK out \in Inputs[c[i]] : TRUE
        BY <2>3, <4>1 DEF RepairInv, CheckStructure
      <4>4. out \in Spent(tip)
        BY <2>1, <4>2, <4>3, SpentAt
      <4>5. ~OnChain(tip, out)
        BY <2>1, <4>4 DEF OnChain, Keys, LedgerAt
      <4>6. PICK j \in 1..(i - 1) : out[1] = c[j]
        BY <2>2, <4>1, <4>3, <4>5 DEF Templates, Grounded
      <4>7. out[1] \in Confirmed(tip) \cup CoinbaseTx
        BY <2>1, <4>4, MakerConfirmed DEF IInv, Rooted
      <4>8. j \in 1..Len(c) /\ ~(i <= j)
        BY <2>3, <4>1, <4>6
      <4>9. c[j] \in Confirmed(tip)
        BY <2>3, <4>6, <4>7, <4>8 DEF IInv, NoCoinbase
      <4> QED
        BY <4>1, <4>8, <4>9
    <3> QED
      BY <2>3, <3>1 DEF ToSet
  <2>7. SizeOf(ToSet(c)) <= MaxTemplateSize
    BY <2>2 DEF Templates
  <2> QED
    BY <2>4, <2>5, <2>6, <2>7 DEF TemplateSound
<1> QED
  BY <1>1, Invariant, RepairInvariant, PTL

(* The passes over what was skipped leave nothing out that could still     *)
(* follow.                                                                 *)
THEOREM TemplatesAreComplete == Spec => []TemplateComplete
<1>1. IInv /\ RepairInv => TemplateComplete
  <2> SUFFICES ASSUME IInv, RepairInv PROVE TemplateComplete
    OBVIOUS
  <2>1. pool.entries \subseteq Tx /\ IsFiniteSet(pool.entries)
    BY DEF IInv, TypeOK, RepairInv, SizeExact
  <2> QED
    BY <2>1, SelectedFacts DEF TemplateComplete, Template, Satisfiable
<1> QED
  BY <1>1, Invariant, RepairInvariant, PTL

(* The size kept by hand is that of the entries, and never above the limit. *)
THEOREM SizeKept == Spec => []SizeExact(pool)
<1>1. RepairInv => SizeExact(pool)
  BY DEF RepairInv
<1> QED
  BY <1>1, RepairInvariant, PTL
=============================================================================
