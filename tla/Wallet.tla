-------------------------------- MODULE Wallet --------------------------------
(***************************************************************************)
(* The wallet of a node behind its RPC server: keys made, saved and        *)
(* destroyed (wallet.py), coins reserved for payments and let go again     *)
(* (rpc_send), while the chain moves under it and the process may die.     *)
(*                                                                         *)
(* The RPC server answers every client on a thread of its own.  Methods    *)
(* that touch the wallet hold the node's lock, the one the network thread  *)
(* holds while it connects a block; rpc_send lets it go between building   *)
(* a payment and hearing what became of it.                                *)
(***************************************************************************)
EXTENDS Sums

CONSTANTS
    Client,             \* RPC clients, one call each at a time
    Key, FirstKey,      \* the keys that may be generated; Wallet.create's
    Deposit,            \* payments of others to the wallet
    Reward,             \* those that are mining rewards
    Owner,              \* [Deposit -> Key]: the key a deposit pays
    Worth,              \* [Deposit -> Nat]: its amount
    Payment,            \* the payments the wallet may make
    Amounts,            \* what may be asked of rpc_send
    FeeBase, FeePerInput, Dust,
    MaxReorgs, MaxCrashes

ASSUME KeyAssumption == FirstKey \in Key
ASSUME DepositAssumption ==
    /\ Reward \subseteq Deposit
    /\ Owner \in [Deposit -> Key]
    /\ Deposit \cap Payment = {}

VARIABLES
    ring,               \* the keys in memory, and the first of them
    saved,              \* the same in the wallet file
    generated,          \* keys that were ever generated
    returned,           \* keys whose address getnewaddress has returned
    forgotten,          \* keys somebody asked to delete and was not refused
    call,               \* what each client's thread is doing
    reserved,           \* _reserved
    stage,              \* what has become of each payment
    tx,                 \* the payments as they were built
    pool, relayed,      \* those in the mempool; those other nodes have seen
    confirmed,          \* deposits and payments on the active chain
    young,              \* rewards on it that are not mature
    stirred,            \* whether it was reorganised since the process started
    reorgs, crashes

keyVars == <<ring, saved, generated, returned, forgotten>>
chainVars == <<confirmed, young, stirred, reorgs>>
payments == <<stage, tx>>
vars == <<keyVars, call, reserved, payments, pool, relayed, chainVars, crashes>>

Transaction == Deposit \cup Payment

(* A coin is named by the transaction that makes it: a deposit has one     *)
(* output for the wallet, a payment its change, if that is worth having.   *)
NoPayment ==
    [spends |-> {}, change |-> 0, to |-> FirstKey, run |-> 0, late |-> FALSE]

Made == {p \in Payment : stage[p] # "none"}

Spends(t) == IF t \in Payment THEN tx[t].spends ELSE {}
HasOutput(t) == t \in Payment => tx[t].change > 0
OwnerOf(c) == IF c \in Payment THEN tx[c].to ELSE Owner[c]
AmountOf(c) == IF c \in Payment THEN tx[c].change ELSE Worth[c]

SpentBy(T) == UNION {Spends(t) : t \in T}
Unspent(T) == {t \in T : HasOutput(t)} \ SpentBy(T)
Ledger == Unspent(confirmed)

(* utxos_for_pubkey_hash and _utxos. *)
HeldBy(k) == {c \in Ledger : OwnerOf(c) = k}
Own == {c \in Ledger : OwnerOf(c) \in ring.keys}

Idle == [op |-> "idle"]

Init ==
    /\ ring = [first |-> FirstKey, keys |-> {FirstKey}]
    /\ saved = ring
    /\ generated = {FirstKey} /\ returned = {FirstKey} /\ forgotten = {}
    /\ call = [c \in Client |-> Idle]
    /\ reserved = {}
    /\ stage = [p \in Payment |-> "none"] /\ tx = [p \in Payment |-> NoPayment]
    /\ pool = {} /\ relayed = {}
    /\ confirmed = {} /\ young = {} /\ stirred = FALSE /\ reorgs = 0
    /\ crashes = 0

(* Nobody is inside new_address or forget_address.                         *)
UnlockedAlways == TRUE   \* mutant
Unlocked == \A c \in Client : call[c].op \in {"idle", "send"}

--------------------------------------------------------------------------------
(* Keys. *)

(* save takes down the keys as they are, then replaces the file in one     *)
(* step.                                                                   *)
Saving(op, k) == [op |-> op, key |-> k, ring |-> ring']

new_address(c, k) ==
    /\ call[c] = Idle /\ Unlocked
    /\ k \in Key \ generated
    /\ generated' = generated \cup {k}
    /\ ring' = [ring EXCEPT !.keys = @ \cup {k}]
    /\ call' = [call EXCEPT ![c] = Saving("new", k)]
    /\ UNCHANGED <<saved, returned, forgotten, reserved, payments, pool, relayed,
                   chainVars, crashes>>

MayForgetFirst(k) == k \in ring.keys /\ HeldBy(k) = {}   \* mutant
MayForget(k) ==
    /\ k \in ring.keys
    /\ k # ring.first
    /\ HeldBy(k) = {}

forget_address(c, k) ==
    /\ call[c] = Idle /\ Unlocked
    /\ MayForget(k)
    /\ ring' = [ring EXCEPT !.keys = @ \ {k}]
    /\ forgotten' = forgotten \cup {k}
    /\ call' = [call EXCEPT ![c] = Saving("forget", k)]
    /\ UNCHANGED <<saved, generated, returned, reserved, payments, pool, relayed,
                   chainVars, crashes>>

save(c) ==
    /\ call[c].op \in {"new", "forget"}
    /\ saved' = call[c].ring
    /\ returned' = IF call[c].op = "new" THEN returned \cup {call[c].key} ELSE returned
    /\ call' = [call EXCEPT ![c] = Idle]
    /\ UNCHANGED <<ring, generated, forgotten, reserved, payments, pool, relayed,
                   chainVars, crashes>>

(* The disk is full: the call fails, and the keys in memory stay as they   *)
(* were made or destroyed.                                                 *)
SaveFails(c) ==
    /\ call[c].op \in {"new", "forget"}
    /\ call' = [call EXCEPT ![c] = Idle]
    /\ UNCHANGED <<keyVars, reserved, payments, pool, relayed, chainVars, crashes>>

--------------------------------------------------------------------------------
(* Payments. *)

Fee(n) == FeeBase + FeePerInput * n
Value(S) == SumOver([c \in S |-> AmountOf(c)], S)
Covers(S, amount) == Value(S) >= amount + Fee(Cardinality(S))

(* What is let go when a payment is built: the coins that have left the    *)
(* chain.                                                                  *)
StillReserved == reserved \cap Own
spendable_utxos == Own \ (young \cup StillReserved)

LargestFirst(S) ==
    /\ S \subseteq spendable_utxos
    /\ \A a \in S : \A b \in spendable_utxos \ S : AmountOf(a) >= AmountOf(b)

(* The largest coins, no more of them than it takes.                       *)
Selected(S, amount) ==
    /\ LargestFirst(S) /\ Covers(S, amount)
    /\ \A T \in SUBSET S : LargestFirst(T) /\ Covers(T, amount) => T = S

Change(S, amount) ==
    LET rest == Value(S) - amount - Fee(Cardinality(S))
    IN  IF rest >= Dust THEN rest ELSE 0

ReservedNow(S) == StillReserved   \* mutant
Reserved(S) == StillReserved \cup S

create_transaction(c, p, amount, S) ==
    /\ call[c] = Idle /\ Unlocked
    /\ p \in Payment \ Made
    /\ Selected(S, amount)
    /\ stage' = [stage EXCEPT ![p] = "built"]
    /\ tx' = [tx EXCEPT ![p] = [spends |-> S, change |-> Change(S, amount),
                                to |-> ring.first, run |-> crashes, late |-> stirred]]
    /\ reserved' = Reserved(S)
    /\ call' = [call EXCEPT ![c] = [op |-> "send", pay |-> p]]
    /\ UNCHANGED <<keyVars, pool, relayed, chainVars, crashes>>

InsufficientFunds(c, amount) ==
    /\ call[c] = Idle /\ Unlocked
    /\ \A S \in SUBSET spendable_utxos : ~Selected(S, amount)
    /\ reserved' = StillReserved
    /\ reserved' # reserved
    /\ UNCHANGED <<keyVars, call, payments, pool, relayed, chainVars, crashes>>

(* submit_tx on the network thread.  An input may come from the pool.      *)
Conflicts(t) == {p \in pool : tx[p].spends \cap Spends(t) # {}}

Admissible(p) ==
    /\ Conflicts(p) = {}
    /\ tx[p].spends \subseteq (Ledger \ young) \cup {q \in pool : tx[q].change > 0}

Admitted(p) ==
    /\ stage[p] = "built" /\ Unlocked
    /\ Admissible(p)
    /\ stage' = [stage EXCEPT ![p] = "admitted"]
    /\ pool' = pool \cup {p} /\ relayed' = relayed \cup {p}
    /\ UNCHANGED <<keyVars, call, reserved, tx, chainVars, crashes>>

Refused(p) ==
    /\ stage[p] = "built" /\ Unlocked
    /\ ~Admissible(p)
    /\ stage' = [stage EXCEPT ![p] = "refused"]
    /\ UNCHANGED <<keyVars, call, reserved, tx, pool, relayed, chainVars, crashes>>

(* rpc_send hears what became of the payment ...                           *)
Answers(c) ==
    /\ call[c].op = "send"
    /\ stage[call[c].pay] = "admitted"
    /\ call' = [call EXCEPT ![c] = Idle]
    /\ UNCHANGED <<keyVars, reserved, payments, pool, relayed, chainVars, crashes>>

ReleasedNone(p) == reserved   \* mutant
Released(p) == reserved \ tx[p].spends

Releases(c) ==
    /\ call[c].op = "send"
    /\ stage[call[c].pay] = "refused"
    /\ reserved' = Released(call[c].pay)
    /\ stage' = [stage EXCEPT ![call[c].pay] = "released"]
    /\ call' = [call EXCEPT ![c] = Idle]
    /\ UNCHANGED <<keyVars, tx, pool, relayed, chainVars, crashes>>

(* ... or waits no longer, and lets nothing go: the payment is still on    *)
(* its way to the network thread.                                          *)
TimesOut(c) ==
    /\ call[c].op = "send"
    /\ stage[call[c].pay] = "built"
    /\ call' = [call EXCEPT ![c] = Idle]
    /\ UNCHANGED <<keyVars, reserved, payments, pool, relayed, chainVars, crashes>>

--------------------------------------------------------------------------------
(* The chain and the mempool, as far as the wallet can see them.           *)

(* T, and whatever in the pool needs a change of it.                       *)
Family(T) ==
    LET closed(S) == T \subseteq S /\ \A p \in pool : tx[p].spends \cap S # {} => p \in S
    IN  {p \in pool : \A S \in SUBSET (pool \cup T) : closed(S) => p \in S}

(* A block confirms t.  A deposit pays an address the wallet gave out,     *)
(* which may have been forgotten since.                                    *)
Confirm(t) ==
    /\ Unlocked
    /\ t \in Transaction \ confirmed
    /\ IF t \in Deposit THEN Owner[t] \in returned ELSE t \in relayed
    /\ Spends(t) \subseteq Ledger \ young
    /\ confirmed' = confirmed \cup {t}
    /\ young' = IF t \in Reward THEN young \cup {t} ELSE young
    /\ pool' = pool \ ({t} \cup Family(Conflicts(t) \ {t}))
    /\ UNCHANGED <<keyVars, call, reserved, payments, relayed, stirred, reorgs, crashes>>

(* A reorganisation takes T off the active chain.  Its payments are        *)
(* offered back to the pool, as often as one more of them can enter.       *)
Readmitted(T) ==
    UNION {R \in SUBSET (T \cap Payment) :
              \A p \in R : /\ Conflicts(p) = {}
                           /\ tx[p].spends \subseteq (Unspent(confirmed \ T) \ young) \cup pool \cup R}

Disconnect(T) ==
    /\ Unlocked
    /\ reorgs < MaxReorgs
    /\ T # {}
    /\ SpentBy(confirmed \ T) \cap T = {}
    /\ reorgs' = reorgs + 1
    /\ stirred' = TRUE
    /\ confirmed' = confirmed \ T
    /\ young' = young \ T
    /\ pool' = pool \cup Readmitted(T)
    /\ UNCHANGED <<keyVars, call, reserved, payments, relayed, crashes>>

Matures(d) ==
    /\ Unlocked
    /\ d \in young
    /\ young' = young \ {d}
    /\ UNCHANGED <<keyVars, call, reserved, payments, pool, relayed, confirmed, stirred, reorgs,
                   crashes>>

(* Better payers take the room of p.                                       *)
Evict(p) ==
    /\ p \in pool
    /\ pool' = pool \ Family({p})
    /\ UNCHANGED <<keyVars, call, reserved, payments, relayed, chainVars, crashes>>

(* A peer announces a payment of ours that the pool no longer has.         *)
Gossiped(p) ==
    /\ Unlocked
    /\ p \in relayed \ (pool \cup confirmed)
    /\ Admissible(p)
    /\ pool' = pool \cup {p}
    /\ UNCHANGED <<keyVars, call, reserved, payments, relayed, chainVars, crashes>>

(* The process dies and starts again: it has the file and the chain.       *)
Restart ==
    /\ crashes < MaxCrashes
    /\ crashes' = crashes + 1
    /\ ring' = saved
    /\ call' = [c \in Client |-> Idle]
    /\ reserved' = {} /\ pool' = {}
    /\ stage' = [p \in Payment |-> IF stage[p] = "built" THEN "lost" ELSE stage[p]]
    /\ stirred' = FALSE
    /\ UNCHANGED <<saved, generated, returned, forgotten, tx, relayed, confirmed, young, reorgs>>

Next ==
    \/ \E c \in Client :
         \/ \E k \in Key : new_address(c, k) \/ forget_address(c, k)
         \/ save(c) \/ SaveFails(c)
         \/ \E amount \in Amounts :
              \/ InsufficientFunds(c, amount)
              \/ \E p \in Payment, S \in SUBSET Own :
                   create_transaction(c, p, amount, S)
         \/ Answers(c) \/ Releases(c) \/ TimesOut(c)
    \/ \E p \in Payment : Admitted(p) \/ Refused(p) \/ Gossiped(p) \/ Evict(p)
    \/ \E t \in Transaction : Confirm(t)
    \/ \E T \in SUBSET confirmed : Disconnect(T)
    \/ \E d \in Deposit : Matures(d)
    \/ Restart

Spec == Init /\ [][Next]_vars

--------------------------------------------------------------------------------
Ring == [first : Key, keys : SUBSET Key]

Call ==
    {Idle} \cup [op : {"new", "forget"}, key : Key, ring : Ring]
           \cup [op : {"send"}, pay : Payment]

TypeOK ==
    /\ ring \in Ring /\ saved \in Ring
    /\ generated \subseteq Key /\ returned \subseteq Key /\ forgotten \subseteq Key
    /\ call \in [Client -> Call]
    /\ reserved \subseteq Transaction
    /\ stage \in [Payment -> {"none", "built", "admitted", "refused", "released", "lost"}]
    /\ tx \in [Payment -> [spends : SUBSET Transaction, change : Int, to : Key,
                           run : Nat, late : BOOLEAN]]
    /\ pool \subseteq Payment /\ relayed \subseteq Payment
    /\ confirmed \subseteq Transaction /\ young \subseteq Reward
    /\ stirred \in BOOLEAN /\ reorgs \in Nat /\ crashes \in Nat

(* An address that getnewaddress has returned and nobody asked to delete   *)
(* has its key in the wallet file, whichever threads make or destroy keys  *)
(* at the time, whether or not saving fails, and when the process dies:    *)
(* "safely on disk" before it is returned (wallet.py:287).                 *)
AddressIsDurable == returned \ forgotten \subseteq saved.keys

(* The change of every payment, still on its way or confirmed, goes to a   *)
(* key the wallet has in memory and on disk (wallet.py:313).               *)
ChangeComesBack == \A p \in Made : tx[p].to \in ring.keys \cap saved.keys

(* Payments built between a start of the process and the first             *)
(* reorganisation it sees draw on different coins, whatever is answered,   *)
(* times out, is evicted or confirmed in between; only a payment that was  *)
(* refused gives its coins back (wallet.py:24, 473).                       *)
PromisedOnce ==
    \A p, q \in Made :
        /\ p # q
        /\ tx[p].run = tx[q].run /\ ~tx[p].late /\ ~tx[q].late
        /\ stage[p] # "released" /\ stage[q] # "released"
        => tx[p].spends \cap tx[q].spends = {}

(* A coin is withheld only for a payment whose sender was not told that it *)
(* was refused: a refused one does not "strand its coins until restart"    *)
(* (wallet.py:474).                                                        *)
WithheldForPayment ==
    \A o \in reserved :
        \E p \in Made : o \in tx[p].spends /\ stage[p] \notin {"released", "lost"}

(* Every coin on the active chain can be spent with a key in memory or in  *)
(* the file.                                                               *)
CoinsReachable == \A o \in Ledger : OwnerOf(o) \in ring.keys \cup saved.keys
================================================================================
