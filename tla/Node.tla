--------------------------------- MODULE Node ---------------------------------
(***************************************************************************)
(* The chain state and the mempool behind the node's lock: submit_block,   *)
(* submit_tx and _absorb of p2p.py, through which every block and every    *)
(* transaction enters, whoever brings it.  They run on the network thread  *)
(* and none of them awaits between taking a block and having repaired the  *)
(* pool, so one block or transaction is dealt with at a time.  The lock is *)
(* let go once, between accept_block and the repair; there the miner's     *)
(* thread may build a template.                                            *)
(*                                                                         *)
(* The chain is seen through what ChainState was shown to promise: one     *)
(* step from a valid branch to a heavier one, and an answer that names     *)
(* exactly what left and what entered the active chain.                    *)
(***************************************************************************)
EXTENDS Mempool

(* check_block_structure: the first transaction of a block and no other is *)
(* a coinbase, and each of the others passes check_structure.  A block     *)
(* that fails it changes nothing.                                          *)
ASSUME StructureAssumption ==
    \A b \in Block :
        /\ Coinbase[b] \in CoinbaseTx
        /\ \A t \in PaymentSet(b) : t \notin CoinbaseTx /\ CheckStructure(t)

VARIABLES
    tip,          \* the tip of the chain
    stored,       \* the blocks the chain has
    pool,         \* the mempool
    phase,        \* where the network thread is
    settling,     \* transactions of connected blocks still to be settled
    pending,      \* disconnected payments still to be offered in this pass
    failing,      \* those this pass has refused
    progressed,   \* whether this pass has admitted any
    owed          \* history: what was waiting or confirmed before the tip
                  \* moved, less what better payers have displaced since

chain == <<tip, stored>>
repair == <<phase, settling, pending, failing, progressed, owed>>
vars == <<chain, pool, repair>>

(* A transaction by its place: its block and its number there, the         *)
(* coinbase being number 0.                                                *)
At(x) == IF x[2] = 0 THEN Coinbase[x[1]] ELSE Payments[x[1]][x[2]]

PlacesIn(B) == UNION {{b} \X (0..Len(Payments[b])) : b \in B}

PaymentsIn(B) == {At(x) : x \in {y \in PlacesIn(B) : y[2] # 0}}

(* Connected blocks oldest first, disconnected ones newest first; within a *)
(* block both in order.                                                    *)
OldestFirst(x, y) == Height[x[1]] < Height[y[1]] \/ (x[1] = y[1] /\ x[2] <= y[2])
NewestFirst(x, y) == Height[x[1]] > Height[y[1]] \/ (x[1] = y[1] /\ x[2] <= y[2])

(* Where the network thread may be: waiting for work, in submit_block with *)
(* the lock let go, or inside _absorb.                                     *)
Phases == {"idle", "taken", "settle", "reoffer"}

TypeOK ==
    /\ stored \subseteq Block
    /\ tip \in stored
    /\ pool.entries \subseteq Tx
    /\ pool.spends \in [DOMAIN pool.spends -> Tx]
    /\ phase \in Phases
    /\ settling \subseteq PlacesIn(Block)
    /\ pending \subseteq PlacesIn(Block)
    /\ failing \subseteq PlacesIn(Block)
    /\ progressed \in BOOLEAN
    /\ owed \subseteq Tx
    /\ phase = "idle" => settling \cup pending \cup failing = {}

Init ==
    /\ tip = Genesis
    /\ stored = {Genesis}
    /\ pool = EmptyPool
    /\ phase = "idle"
    /\ settling = {}
    /\ pending = {}
    /\ failing = {}
    /\ progressed = FALSE
    /\ owed = {}

-----------------------------------------------------------------------------
(* submit_block.  Duplicates, orphans and blocks of invalid branches leave *)
(* chain and pool alone.                                                   *)

(* accept_block, for a block that does not outweigh the tip: _absorb has   *)
(* nothing to do.                                                          *)
AcceptSidechain(b) ==
    /\ phase = "idle"
    /\ b \notin stored /\ Parent[b] \in stored
    /\ CumWork(b) <= CumWork(tip)
    /\ stored' = stored \cup {b}
    /\ UNCHANGED <<tip, pool, repair>>

AcceptHeavier(b) ==
    /\ phase = "idle"
    /\ b \notin stored /\ Parent[b] \in stored
    /\ CumWork(b) > CumWork(tip)
    /\ stored' = stored \cup {b}
    /\ tip' = b
    /\ phase' = "taken"
    /\ settling' = PlacesIn(Ancestors[b] \ Ancestors[tip])
    /\ pending' = {x \in PlacesIn(Ancestors[tip] \ Ancestors[b]) : x[2] # 0}
    /\ failing' = {}
    /\ progressed' = FALSE
    /\ owed' = pool.entries \cup PaymentsIn(Ancestors[tip] \ Ancestors[b])
    /\ UNCHANGED pool

(* _absorb takes the lock again. *)
Absorb ==
    /\ phase = "taken"
    /\ phase' = "settle"
    /\ UNCHANGED <<chain, pool, settling, pending, failing, progressed, owed>>

SettleNext ==
    /\ phase = "settle"
    /\ \E x \in settling :
         /\ \A y \in settling : OldestFirst(x, y)
         /\ pool' = Settled(pool, At(x))
         /\ settling' = settling \ {x}
    /\ UNCHANGED <<chain, phase, pending, failing, progressed, owed>>

Reconsider ==
    /\ phase = "settle"
    /\ settling = {}
    /\ phase' = "reoffer"
    /\ UNCHANGED <<chain, pool, settling, pending, failing, progressed, owed>>

(* One payment is offered back; a refusal is remembered for the next pass. *)
OfferNext ==
    /\ phase = "reoffer"
    /\ \E x \in pending :
         /\ \A y \in pending : NewestFirst(x, y)
         /\ pending' = pending \ {x}
         /\ \/ /\ Accepts(pool, tip, At(x))
               /\ pool' = Accepted(pool, At(x))
               /\ progressed' = TRUE
               /\ owed' = owed \ (pool.entries \ pool'.entries)
               /\ UNCHANGED failing
            \/ /\ ~Accepts(pool, tip, At(x))
               /\ failing' = failing \cup {x}
               /\ UNCHANGED <<pool, progressed, owed>>
    /\ UNCHANGED <<chain, phase, settling>>

(* A child can only come back after its parent, so what failed is tried    *)
(* again as long as something came back.                                   *)
FinishedAfterOnePass == phase = "reoffer" /\ pending = {}   \* mutant
Finished ==
    /\ phase = "reoffer"
    /\ pending = {}
    /\ failing = {} \/ ~progressed

NextPass ==
    /\ phase = "reoffer"
    /\ pending = {}
    /\ ~Finished
    /\ pending' = failing
    /\ failing' = {}
    /\ progressed' = FALSE
    /\ UNCHANGED <<chain, pool, phase, settling, owed>>

(* What is still failing is dropped. *)
Idle ==
    /\ phase' = "idle"
    /\ settling' = {}
    /\ pending' = {}
    /\ failing' = {}
    /\ progressed' = FALSE
    /\ owed' = {}

Finish ==
    /\ Finished
    /\ Idle
    /\ UNCHANGED <<chain, pool>>

(* submit_tx; a refusal leaves the pool alone. *)
SubmitTx(t) ==
    /\ phase = "idle"
    /\ Accepts(pool, tip, t)
    /\ pool' = Accepted(pool, t)
    /\ UNCHANGED <<chain, repair>>

(* The process dies and starts again: of all this only the chain is on disk. *)
Restart ==
    /\ pool' = EmptyPool
    /\ Idle
    /\ UNCHANGED chain

Next ==
    \/ \E b \in Block \ {Genesis} :
         /\ BranchValid(b)
         /\ AcceptSidechain(b) \/ AcceptHeavier(b)
    \/ Absorb
    \/ SettleNext
    \/ Reconsider
    \/ OfferNext
    \/ NextPass
    \/ Finish
    \/ \E t \in Tx : SubmitTx(t)
    \/ Restart

Spec == Init /\ [][Next]_vars

-----------------------------------------------------------------------------
(***************************************************************************)
(* What must hold of the pool.                                             *)
(***************************************************************************)

(* The double-spend index names, for each outpoint an entry spends, that   *)
(* very entry, and nothing else: no two entries share an input and no      *)
(* removal, whatever led to it, leaves a key behind that would refuse      *)
(* every later spend of the coin.                                          *)
IndexExact ==
    /\ \A t \in pool.entries : \A out \in Inputs[t] :
          out \in DOMAIN pool.spends /\ pool.spends[out] = t
    /\ \A out \in DOMAIN pool.spends :
          /\ pool.spends[out] \in pool.entries
          /\ out \in Inputs[pool.spends[out]]

(* Between two submissions nothing waits that the active chain has already *)
(* confirmed, or whose input it has given to another transaction.          *)
Confirmed(b) == PaymentsIn(Ancestors[b])

Unsettled ==
    phase = "idle" =>
        \A t \in pool.entries : t \notin Confirmed(tip) /\ Inputs[t] \cap Spent(tip) = {}

(* When the repair ends, every payment that was waiting or that the        *)
(* reorganisation took off the chain is confirmed, in the pool, displaced  *)
(* by a better payer, too large for the room there is, or inadmissible:    *)
(* "a payment caught on the losing side of a fork is re-mined rather than  *)
(* lost".                                                                  *)
NothingLost ==
    Finished =>
        \A t \in owed :
            \/ t \in pool.entries
            \/ t \in Confirmed(tip)
            \/ ~Admissible(pool, tip, t)
            \/ pool.size + Size[t] > MaxPoolSize

(***************************************************************************)
(* What must hold of a template built whenever the lock is free, also      *)
(* before the pool has been repaired.                                      *)
(***************************************************************************)
Unlocked == phase \in {"idle", "taken"}

Template == Select(pool, tip)

(* Each payment finds its inputs unspent on the chain or among the outputs *)
(* of payments before it, no two take the same one, none is on the chain   *)
(* already, and they fit.                                                  *)
TemplateSound ==
    Unlocked =>
        /\ \A i \in DOMAIN Template : \A out \in Inputs[Template[i]] :
              \/ OnChain(tip, out)
              \/ \E j \in 1..(i-1) : out \in OutsOf(Template[j])
        /\ \A i, j \in DOMAIN Template :
              i # j => Inputs[Template[i]] \cap Inputs[Template[j]] = {}
        /\ ToSet(Template) \cap Confirmed(tip) = {}
        /\ SizeOf(ToSet(Template)) <= MaxTemplateSize

(* Nothing is left out that could still follow. *)
TemplateComplete ==
    Unlocked =>
        \A t \in pool.entries \ ToSet(Template) :
            \/ SizeOf(ToSet(Template)) + Size[t] > MaxTemplateSize
            \/ \E out \in Inputs[t] :
                  ~OnChain(tip, out) /\ out[1] \notin ToSet(Template)

(***************************************************************************)
(* A transaction enters only if its inputs exist, in the chain or earlier  *)
(* in the pool, once it is in.                                             *)
(***************************************************************************)
EntersWithParents ==
    [][\A t \in pool'.entries \ pool.entries : \A out \in Inputs[t] :
          OnChain(tip, out) \/ out[1] \in pool'.entries]_vars
=============================================================================
