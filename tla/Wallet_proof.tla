------------------------------ MODULE Wallet_proof ------------------------------
(***************************************************************************)
(* Proofs about the wallet, for every number of clients, keys, deposits,   *)
(* payments, reorganisations and restarts.                                 *)
(*                                                                         *)
(* KeysSafe is what the node's lock protects: while somebody is inside     *)
(* new_address or forget_address, nobody else is, and what is about to be  *)
(* written is the keys in memory.  CoinsPromised is why two payments never *)
(* draw on one coin before the process has seen a reorganisation: a coin   *)
(* that is promised is reserved and still the wallet's, or spent.          *)
(***************************************************************************)
EXTENDS Wallet, TLAPS

Saver(c) == call[c].op \in {"new", "forget"}

KeysSafe ==
    /\ ring \in Ring /\ saved \in Ring
    /\ ring.first = FirstKey /\ saved.first = FirstKey
    /\ FirstKey \in ring.keys /\ FirstKey \in saved.keys
    /\ returned \ forgotten \subseteq ring.keys
    /\ returned \ forgotten \subseteq saved.keys

SaversAlone ==
    /\ call = [c \in Client |-> call[c]]
    /\ \A c \in Client : Saver(c) =>
          /\ call[c].ring = ring
          /\ call[c].op = "new" => call[c].key \in ring.keys
          /\ \A d \in Client : d # c => ~Saver(d)

KInv == KeysSafe /\ SaversAlone

LEMMA KInvInit == Init => KInv
  BY KeyAssumption DEF Init, KInv, KeysSafe, SaversAlone, Saver, Ring, Idle

(* A call that starts while nobody is inside one is alone.                 *)
LEMMA NewKeepsK ==
  ASSUME KInv, NEW c \in Client, NEW k \in Key, new_address(c, k)
  PROVE  KInv'
<1>1. /\ ring' = [ring EXCEPT !.keys = @ \cup {k}]
      /\ UNCHANGED <<saved, returned, forgotten>>
      /\ call' = [call EXCEPT ![c] = [op |-> "new", key |-> k, ring |-> ring']]
      /\ \A d \in Client : ~Saver(d)
  BY DEF new_address, Saving, Unlocked, Saver
<1>2. KeysSafe'
  BY <1>1 DEF KInv, KeysSafe, Ring
<1>3. k \in ring'.keys
  BY <1>1 DEF KInv, KeysSafe, Ring
<1>4. SaversAlone'
  BY <1>1, <1>3 DEF KInv, SaversAlone, Saver
<1>5. QED
  BY <1>2, <1>4 DEF KInv

LEMMA ForgetKeepsK ==
  ASSUME KInv, NEW c \in Client, NEW k \in Key, forget_address(c, k)
  PROVE  KInv'
<1>1. /\ ring' = [ring EXCEPT !.keys = @ \ {k}]
      /\ forgotten' = forgotten \cup {k}
      /\ UNCHANGED <<saved, returned>>
      /\ call' = [call EXCEPT ![c] = [op |-> "forget", key |-> k, ring |-> ring']]
      /\ \A d \in Client : ~Saver(d)
      /\ k # ring.first
  BY DEF forget_address, MayForget, Saving, Unlocked, Saver
<1>2. KeysSafe'
  BY <1>1 DEF KInv, KeysSafe, Ring
<1>3. SaversAlone'
  BY <1>1 DEF KInv, SaversAlone, Saver
<1>4. QED
  BY <1>2, <1>3 DEF KInv

(* What is written is the keys in memory, whoever writes it.               *)
LEMMA SaveKeepsK ==
  ASSUME KInv, NEW c \in Client, save(c)
  PROVE  KInv'
<1>1. /\ Saver(c)
      /\ saved' = call[c].ring
      /\ returned' = IF call[c].op = "new" THEN returned \cup {call[c].key} ELSE returned
      /\ call' = [call EXCEPT ![c] = Idle]
      /\ UNCHANGED <<ring, forgotten>>
  BY DEF save, Saver
<1>2. saved' = ring
  BY <1>1 DEF KInv, SaversAlone
<1>3. returned' \subseteq returned \cup ring.keys
  BY <1>1 DEF KInv, SaversAlone
<1>4. KeysSafe'
  BY <1>1, <1>2, <1>3 DEF KInv, KeysSafe
<1>5. SaversAlone'
  BY <1>1 DEF KInv, SaversAlone, Saver, Idle
<1>6. QED
  BY <1>4, <1>5 DEF KInv

(* A call that is over, whether its save failed or its payment was         *)
(* answered, leaves the other calls as they were.                          *)
LEMMA CallEndsKeepsK ==
  ASSUME KInv, NEW c \in Client, call' = [call EXCEPT ![c] = Idle], UNCHANGED keyVars
  PROVE  KInv'
<1>1. KeysSafe'
  BY DEF KInv, KeysSafe, keyVars
<1>2. SaversAlone'
  BY DEF KInv, SaversAlone, Saver, Idle, keyVars
<1>3. QED
  BY <1>1, <1>2 DEF KInv

LEMMA SendKeepsK ==
  ASSUME KInv, NEW c \in Client, NEW p \in Payment, NEW amount \in Amounts, NEW S,
         create_transaction(c, p, amount, S)
  PROVE  KInv'
<1>1. /\ call' = [call EXCEPT ![c] = [op |-> "send", pay |-> p]]
      /\ UNCHANGED keyVars
  BY DEF create_transaction
<1>2. KeysSafe'
  BY <1>1 DEF KInv, KeysSafe, keyVars
<1>3. SaversAlone'
  BY <1>1 DEF KInv, SaversAlone, Saver, keyVars
<1>4. QED
  BY <1>2, <1>3 DEF KInv

LEMMA RestartKeepsK == KInv /\ Restart => KInv'
<1> SUFFICES ASSUME KInv, Restart PROVE KInv'
  OBVIOUS
<1>1. KeysSafe'
  BY DEF KInv, KeysSafe, Restart
<1>2. SaversAlone'
  BY DEF SaversAlone, Saver, Restart, Idle
<1>3. QED
  BY <1>1, <1>2 DEF KInv

(* Everything else leaves keys and calls alone.                            *)
LEMMA OthersKeepK == KInv /\ UNCHANGED <<keyVars, call>> => KInv'
  BY DEF KInv, KeysSafe, SaversAlone, Saver, keyVars

LEMMA KInvStep == KInv /\ [Next]_vars => KInv'
<1> SUFFICES ASSUME KInv, [Next]_vars PROVE KInv'
  OBVIOUS
<1>1. ASSUME NEW c \in Client, NEW k \in Key, new_address(c, k) PROVE KInv'
  BY <1>1, NewKeepsK
<1>2. ASSUME NEW c \in Client, NEW k \in Key, forget_address(c, k) PROVE KInv'
  BY <1>2, ForgetKeepsK
<1>3. ASSUME NEW c \in Client, save(c) PROVE KInv'
  BY <1>3, SaveKeepsK
<1>4. ASSUME NEW c \in Client, SaveFails(c) \/ Answers(c) \/ Releases(c) \/ TimesOut(c)
      PROVE  KInv'
  BY <1>4, CallEndsKeepsK DEF SaveFails, Answers, Releases, TimesOut, keyVars
<1>5. ASSUME NEW c \in Client, NEW amount \in Amounts, InsufficientFunds(c, amount)
      PROVE  KInv'
  BY <1>5, OthersKeepK DEF InsufficientFunds
<1>6. ASSUME NEW c \in Client, NEW amount \in Amounts, NEW p \in Payment, NEW S \in SUBSET Own,
             create_transaction(c, p, amount, S)
      PROVE  KInv'
  BY <1>6, SendKeepsK
<1>7. ASSUME NEW p \in Payment, Admitted(p) \/ Refused(p) \/ Gossiped(p) \/ Evict(p)
      PROVE  KInv'
  BY <1>7, OthersKeepK DEF Admitted, Refused, Gossiped, Evict
<1>8. ASSUME NEW t \in Transaction, Confirm(t) PROVE KInv'
  BY <1>8, OthersKeepK DEF Confirm
<1>9. ASSUME NEW T \in SUBSET confirmed, Disconnect(T) PROVE KInv'
  BY <1>9, OthersKeepK DEF Disconnect
<1>10. ASSUME NEW d \in Deposit, Matures(d) PROVE KInv'
  BY <1>10, OthersKeepK DEF Matures
<1>11. CASE Restart
  BY <1>11, RestartKeepsK
<1>12. CASE UNCHANGED vars
  BY <1>12, OthersKeepK DEF vars
<1>13. QED
  BY <1>1, <1>2, <1>3, <1>4, <1>5, <1>6, <1>7, <1>8, <1>9, <1>10, <1>11, <1>12 DEF Next

(* What the node's lock protects holds through every change of the keys,   *)
(* failed save and restart (wallet.py:291-295, 325-360).                   *)
THEOREM KeysKept == Spec => []KInv
<1>1. QED
  BY KInvInit, KInvStep, PTL DEF Spec

(* Every address that getnewaddress has returned and nobody asked to       *)
(* delete has its key in the wallet file (wallet.py new_address).          *)
THEOREM AddressesDurable == Spec => []AddressIsDurable
<1>1. KInv => AddressIsDurable
  BY DEF KInv, KeysSafe, AddressIsDurable
<1>2. QED
  BY <1>1, KeysKept, PTL

--------------------------------------------------------------------------------
(* Payments as they were built, and what has become of them: one of this   *)
(* run of the process is not late while no reorganisation was seen, and the    *)
(* threads that wait for a payment wait for one of this run.               *)
PaymentsKnown ==
    /\ stage = [p \in Payment |-> stage[p]]
    /\ tx = [p \in Payment |-> tx[p]]
    /\ crashes \in Nat
    /\ \A p \in Payment : tx[p].to = FirstKey
    /\ \A p \in Made : tx[p].run \in Nat /\ tx[p].run =< crashes
    /\ \A p \in Made : tx[p].run = crashes /\ ~stirred => ~tx[p].late
    /\ \A c \in Client : call[c].op = "send" =>
          call[c].pay \in Made /\ tx[call[c].pay].run = crashes
    /\ relayed \subseteq Made
    /\ confirmed \cap Payment \subseteq Made

Promised(p) == p \in Made /\ tx[p].run = crashes /\ stage[p] # "released"

CoinsPromised ==
    ~stirred => \A p \in Payment : Promised(p) =>
        \A o \in tx[p].spends : o \in SpentBy(confirmed) \/ (o \in reserved /\ o \in Own)

PInv == PaymentsKnown /\ CoinsPromised /\ PromisedOnce /\ WithheldForPayment

LEMMA PInvInit == Init => PInv
<1> SUFFICES ASSUME Init PROVE PInv
  OBVIOUS
<1>1. Made = {}
  BY DEF Init, Made, Promised
<1>2. PaymentsKnown
  BY <1>1, DepositAssumption DEF Init, PaymentsKnown, NoPayment, Idle
<1>3. CoinsPromised
  BY <1>1 DEF CoinsPromised, Promised
<1>4. PromisedOnce /\ WithheldForPayment
  BY <1>1 DEF PromisedOnce, WithheldForPayment, Init
<1>5. QED
  BY <1>2, <1>3, <1>4 DEF PInv

(* What the wallet holds depends on its keys, the payments and the chain.  *)
LEMMA SameHoldings ==
  UNCHANGED <<ring, tx, confirmed>> =>
      Own' = Own /\ SpentBy(confirmed)' = SpentBy(confirmed)
  BY DEF Own, Ledger, Unspent, HasOutput, OwnerOf, SpentBy, Spends

(* What keeps the payments as they are, loses no coin of the wallet but to *)
(* a payment that spends it, and takes no reservation off, keeps PInv.     *)
LEMMA PaymentsKept ==
  ASSUME PInv,
         UNCHANGED <<payments, stirred, crashes, relayed, reserved>>,
         confirmed' \cap Payment \subseteq Made,
         \A c \in Client : call'[c].op = "send" => call'[c] = call[c],
         \A o \in Own : o \in Own' \/ o \in SpentBy(confirmed)',
         SpentBy(confirmed) \subseteq SpentBy(confirmed)'
  PROVE  PInv'
<1>1. Made' = Made
  BY DEF Made, payments
<1>2. PaymentsKnown'
  BY <1>1 DEF PInv, PaymentsKnown, payments
<1>3. CoinsPromised'
  BY <1>1 DEF PInv, CoinsPromised, Promised, payments
<1>4. PromisedOnce' /\ WithheldForPayment'
  BY <1>1 DEF PInv, PromisedOnce, WithheldForPayment, payments
<1>5. QED
  BY <1>2, <1>3, <1>4 DEF PInv

LEMMA NewKeepsP ==
  ASSUME PInv, KInv, NEW c \in Client, NEW k \in Key, new_address(c, k)
  PROVE  PInv'
<1>1. /\ ring' = [ring EXCEPT !.keys = @ \cup {k}]
      /\ call' = [call EXCEPT ![c] = [op |-> "new", key |-> k, ring |-> ring']]
      /\ UNCHANGED <<payments, stirred, crashes, relayed, reserved, confirmed>>
  BY DEF new_address, Saving, chainVars
<1>2. \A d \in Client : call'[d].op = "send" => call'[d] = call[d]
  BY <1>1 DEF KInv, SaversAlone
<1>3. ring.keys \subseteq ring'.keys
  BY <1>1 DEF KInv, KeysSafe, Ring
<1>4. \A o \in Own : o \in Own'
  BY <1>1, <1>3 DEF Own, Ledger, Unspent, HasOutput, OwnerOf, SpentBy, Spends, payments
<1>5. SpentBy(confirmed)' = SpentBy(confirmed)
  BY <1>1 DEF SpentBy, Spends, payments
<1>6. confirmed' \cap Payment \subseteq Made
  BY <1>1 DEF PInv, PaymentsKnown
<1>7. QED
  BY <1>1, <1>2, <1>4, <1>5, <1>6, PaymentsKept

(* A key is destroyed only while it holds nothing.                         *)
LEMMA ForgetKeepsP ==
  ASSUME PInv, KInv, NEW c \in Client, NEW k \in Key, forget_address(c, k)
  PROVE  PInv'
<1>1. /\ ring' = [ring EXCEPT !.keys = @ \ {k}]
      /\ HeldBy(k) = {}
      /\ call' = [call EXCEPT ![c] = [op |-> "forget", key |-> k, ring |-> ring']]
      /\ UNCHANGED <<payments, stirred, crashes, relayed, reserved, confirmed>>
  BY DEF forget_address, MayForget, Saving, chainVars
<1>2. \A d \in Client : call'[d].op = "send" => call'[d] = call[d]
  BY <1>1 DEF KInv, SaversAlone
<1>3. ring'.keys = ring.keys \ {k}
  BY <1>1 DEF KInv, KeysSafe, Ring
<1>4. Ledger' = Ledger /\ \A o : OwnerOf(o)' = OwnerOf(o)
  BY <1>1 DEF Ledger, Unspent, HasOutput, OwnerOf, SpentBy, Spends, payments
<1>5. \A o \in Own : o \in Own'
  BY <1>1, <1>3, <1>4 DEF Own, HeldBy
<1>6. SpentBy(confirmed)' = SpentBy(confirmed)
  BY <1>1 DEF SpentBy, Spends, payments
<1>7. confirmed' \cap Payment \subseteq Made
  BY <1>1 DEF PInv, PaymentsKnown
<1>8. QED
  BY <1>1, <1>2, <1>5, <1>6, <1>7, PaymentsKept

(* The end of a call that touched no payment.                              *)
LEMMA CallEndsKeepsP ==
  ASSUME PInv, KInv, NEW c \in Client, call' = [call EXCEPT ![c] = Idle],
         UNCHANGED <<ring, payments, stirred, crashes, relayed, reserved, confirmed>>
  PROVE  PInv'
<1>1. \A d \in Client : call'[d].op = "send" => call'[d] = call[d]
  BY DEF KInv, SaversAlone, Idle
<1>2. Own' = Own /\ SpentBy(confirmed)' = SpentBy(confirmed)
  BY SameHoldings DEF payments
<1>3. confirmed' \cap Payment \subseteq Made
  BY DEF PInv, PaymentsKnown
<1>4. QED
  BY <1>1, <1>2, <1>3, PaymentsKept

LEMMA LateField ==
  ASSUME NEW f, NEW p, NEW S, NEW n, NEW k, NEW m, NEW x,
         f[p] = [spends |-> S, change |-> n, to |-> k, run |-> m, late |-> x]
  PROVE  f[p].late = x
  BY SMT

(* A payment is built on coins that no payment of this run is promised.    *)
LEMMA SendKeepsP ==
  ASSUME PInv, KInv, NEW c \in Client, NEW p \in Payment, NEW amount \in Amounts,
         NEW S \in SUBSET Own, create_transaction(c, p, amount, S)
  PROVE  PInv'
<1> DEFINE new == [spends |-> S, change |-> Change(S, amount),
                   to |-> ring.first, run |-> crashes, late |-> stirred]
<1>1. /\ p \notin Made
      /\ S \subseteq Own \ StillReserved
      /\ stage' = [stage EXCEPT ![p] = "built"]
      /\ tx' = [tx EXCEPT ![p] = new]
      /\ reserved' = StillReserved \cup S
      /\ call' = [call EXCEPT ![c] = [op |-> "send", pay |-> p]]
      /\ UNCHANGED <<ring, stirred, crashes, relayed, confirmed>>
  BY DEF create_transaction, Selected, LargestFirst, spendable_utxos, Reserved, keyVars,
         chainVars
<1>2. Made' = Made \cup {p}
  BY <1>1 DEF Made, PInv, PaymentsKnown
<1>3. tx'[p] = new /\ \A q \in Payment : q # p => tx'[q] = tx[q] /\ stage'[q] = stage[q]
  BY <1>1 DEF PInv, PaymentsKnown
<1>4. stage'[p] = "built"
  BY <1>1 DEF PInv, PaymentsKnown
<1>c. tx'[p].late = stirred
  BY <1>3, LateField
<1>s. tx'[p].spends = S /\ tx'[p].run = crashes /\ tx'[p].to = ring.first
  BY <1>3
<1>o. \A q \in Payment : q # p => tx'[q] = tx[q] /\ stage'[q] = stage[q]
  BY <1>3
<1> HIDE DEF new
<1>5. \A t \in confirmed : /\ Spends(t)' = Spends(t)
                           /\ HasOutput(t)' = HasOutput(t)
                           /\ OwnerOf(t)' = OwnerOf(t)
  BY <1>1, <1>3 DEF Spends, HasOutput, OwnerOf, PInv, PaymentsKnown
<1>6. SpentBy(confirmed)' = SpentBy(confirmed)
  BY <1>1, <1>5 DEF SpentBy
<1>7. Ledger' = Ledger
  BY <1>1, <1>5, <1>6 DEF Ledger, Unspent
<1>8. Own' = Own
  BY <1>1, <1>5, <1>7 DEF Own, Ledger, Unspent
<1>9. PaymentsKnown'
  <2>1. \A q \in Payment : tx'[q].to = FirstKey
    BY <1>s, <1>o DEF PInv, PaymentsKnown, KInv, KeysSafe
  <2>2. \A d \in Client : call'[d].op = "send" =>
            call'[d].pay \in Made' /\ tx'[call'[d].pay].run = crashes'
    <3> SUFFICES ASSUME NEW d \in Client, call'[d].op = "send"
                 PROVE  call'[d].pay \in Made' /\ tx'[call'[d].pay].run = crashes'
      OBVIOUS
    <3>1. CASE d = c
      BY <3>1, <1>1, <1>2, <1>s DEF KInv, SaversAlone
    <3>2. CASE d # c
      BY <3>2, <1>1, <1>2, <1>o DEF KInv, SaversAlone, PInv, PaymentsKnown, Made
    <3>3. QED
      BY <3>1, <3>2
  <2>3. \A q \in Made' : /\ tx'[q].run \in Nat /\ tx'[q].run =< crashes'
                         /\ tx'[q].run = crashes' /\ ~stirred' => ~tx'[q].late
    <3> SUFFICES ASSUME NEW q \in Made'
                 PROVE  /\ tx'[q].run \in Nat /\ tx'[q].run =< crashes'
                        /\ tx'[q].run = crashes' /\ ~stirred' => ~tx'[q].late
      OBVIOUS
    <3>1. CASE q = p
      BY <3>1, <1>1, <1>s, <1>c DEF PInv, PaymentsKnown
    <3>2. CASE q # p
      BY <3>2, <1>1, <1>2, <1>o DEF PInv, PaymentsKnown, Made
    <3>3. QED
      BY <3>1, <3>2
  <2>4. relayed' \subseteq Made' /\ confirmed' \cap Payment \subseteq Made'
    BY <1>1, <1>2 DEF PInv, PaymentsKnown
  <2>5. /\ stage' = [q \in Payment |-> stage'[q]]
        /\ tx' = [q \in Payment |-> tx'[q]]
        /\ crashes' \in Nat
    BY <1>1 DEF PInv, PaymentsKnown
  <2>6. QED
    BY <2>1, <2>2, <2>3, <2>4, <2>5 DEF PaymentsKnown
<1>10. CoinsPromised'
  <2> SUFFICES ASSUME ~stirred', NEW q \in Payment, Promised(q)', NEW o \in tx'[q].spends
               PROVE  o \in SpentBy(confirmed)' \/ (o \in reserved' /\ o \in Own')
    BY DEF CoinsPromised
  <2>1. CASE q = p
    BY <2>1, <1>1, <1>s, <1>8
  <2>2. CASE q # p
    <3>1. Promised(q)
      BY <2>2, <1>1, <1>2, <1>o DEF Promised
    <3>2. o \in SpentBy(confirmed) \/ (o \in reserved /\ o \in Own)
      BY <3>1, <2>2, <1>1, <1>o DEF PInv, CoinsPromised
    <3>3. QED
      BY <3>2, <1>1, <1>6, <1>8 DEF StillReserved
  <2>3. QED
    BY <2>1, <2>2
<1>11. ASSUME NEW q \in Made, tx[q].run = crashes, ~stirred, stage[q] # "released"
       PROVE  tx[q].spends \cap S = {}
  <2>1. q \in Payment /\ Promised(q)
    BY <1>11 DEF Promised, Made
  <2>2. \A o \in tx[q].spends : o \in SpentBy(confirmed) \/ (o \in reserved /\ o \in Own)
    BY <2>1, <1>11 DEF PInv, CoinsPromised
  <2>3. \A o \in Own : o \notin SpentBy(confirmed)
    BY DEF Own, Ledger, Unspent
  <2>4. QED
    BY <2>2, <2>3, <1>1 DEF StillReserved
<1>12. PromisedOnce'
  <2> SUFFICES ASSUME NEW q \in Made', NEW r \in Made', q # r,
                      tx'[q].run = tx'[r].run, ~tx'[q].late, ~tx'[r].late,
                      stage'[q] # "released", stage'[r] # "released"
               PROVE  tx'[q].spends \cap tx'[r].spends = {}
    BY DEF PromisedOnce
  <2>1. CASE q = p
    <3>1. r \in Made /\ r # p /\ r \in Payment
      BY <2>1, <1>2 DEF Made
    <3>2. ~stirred /\ tx[r].run = crashes /\ stage[r] # "released"
      BY <3>1, <2>1, <1>c, <1>s, <1>o
    <3>3. QED
      BY <3>1, <3>2, <2>1, <1>s, <1>o, <1>11
  <2>2. CASE r = p
    <3>1. q \in Made /\ q # p /\ q \in Payment
      BY <2>2, <1>2 DEF Made
    <3>2. ~stirred /\ tx[q].run = crashes /\ stage[q] # "released"
      BY <3>1, <2>2, <1>c, <1>s, <1>o
    <3>3. QED
      BY <3>1, <3>2, <2>2, <1>s, <1>o, <1>11
  <2>3. CASE q # p /\ r # p
    BY <2>3, <1>2, <1>o DEF Made, PInv, PromisedOnce
  <2>4. QED
    BY <2>1, <2>2, <2>3
<1>13. WithheldForPayment'
  <2> SUFFICES ASSUME NEW o \in reserved'
               PROVE  \E q \in Made' : /\ o \in tx'[q].spends
                                       /\ stage'[q] \notin {"released", "lost"}
    BY DEF WithheldForPayment
  <2>1. CASE o \in S
    BY <2>1, <1>2, <1>s, <1>4
  <2>2. CASE o \in reserved
    <3>1. PICK q \in Made : o \in tx[q].spends /\ stage[q] \notin {"released", "lost"}
      BY <2>2 DEF PInv, WithheldForPayment
    <3>2. q \in Payment /\ q # p
      BY <1>1 DEF Made
    <3>3. QED
      BY <3>1, <3>2, <1>2, <1>o
  <2>3. QED
    BY <2>1, <2>2, <1>1 DEF StillReserved
<1>14. QED
  BY <1>9, <1>10, <1>12, <1>13 DEF PInv

(* What became of a payment that was not refused to its sender.            *)
LEMMA OutcomeKeepsP ==
  ASSUME PInv, NEW p \in Payment, NEW outcome \in {"admitted", "refused"},
         stage[p] = "built", stage' = [stage EXCEPT ![p] = outcome],
         relayed' \subseteq relayed \cup {p},
         UNCHANGED <<ring, call, reserved, tx, confirmed, stirred, crashes>>
  PROVE  PInv'
<1>1. Made' = Made /\ p \in Made
  BY DEF Made, PInv, PaymentsKnown
<1>2. \A q \in Payment : /\ stage'[q] # "released" <=> stage[q] # "released"
                         /\ stage[q] \notin {"released", "lost"} =>
                              stage'[q] \notin {"released", "lost"}
  BY DEF PInv, PaymentsKnown
<1>3. Own' = Own /\ SpentBy(confirmed)' = SpentBy(confirmed)
  BY SameHoldings
<1>4. PaymentsKnown'
  BY <1>1 DEF PInv, PaymentsKnown
<1>5. CoinsPromised'
  BY <1>1, <1>2, <1>3 DEF PInv, CoinsPromised, Promised
<1>6. PromisedOnce'
  BY <1>1, <1>2 DEF PInv, PromisedOnce, Made
<1>7. WithheldForPayment'
  BY <1>1, <1>2 DEF PInv, WithheldForPayment, Made
<1>8. QED
  BY <1>4, <1>5, <1>6, <1>7 DEF PInv

(* Reservations of coins that are the wallet's no more are let go.         *)
LEMMA LettingGoKeepsP ==
  ASSUME PInv, NEW c \in Client, NEW amount \in Amounts, InsufficientFunds(c, amount)
  PROVE  PInv'
<1>1. /\ reserved' = reserved \cap Own
      /\ UNCHANGED <<ring, call, stage, tx, relayed, confirmed, stirred, crashes>>
  BY DEF InsufficientFunds, StillReserved, keyVars, payments, chainVars
<1>2. Own' = Own /\ SpentBy(confirmed)' = SpentBy(confirmed)
  BY <1>1, SameHoldings
<1>3. Made' = Made
  BY <1>1 DEF Made
<1>4. PaymentsKnown'
  BY <1>1, <1>3 DEF PInv, PaymentsKnown
<1>5. CoinsPromised'
  BY <1>1, <1>2, <1>3 DEF PInv, CoinsPromised, Promised
<1>6. PromisedOnce' /\ WithheldForPayment'
  BY <1>1, <1>3 DEF PInv, PromisedOnce, WithheldForPayment
<1>7. QED
  BY <1>4, <1>5, <1>6 DEF PInv

(* A refused payment gives back its own coins only: while the process has  *)
(* seen no reorganisation, no other payment of this run draws on them.     *)
LEMMA ReleaseKeepsP ==
  ASSUME PInv, KInv, NEW c \in Client, Releases(c)
  PROVE  PInv'
<1> DEFINE p == call[c].pay
<1>1. /\ call[c].op = "send"
      /\ stage[p] = "refused"
      /\ reserved' = reserved \ tx[p].spends
      /\ stage' = [stage EXCEPT ![p] = "released"]
      /\ call' = [call EXCEPT ![c] = Idle]
      /\ UNCHANGED <<ring, tx, relayed, confirmed, stirred, crashes>>
  BY DEF Releases, Released, keyVars, chainVars
<1>2. p \in Made /\ tx[p].run = crashes
  BY <1>1 DEF PInv, PaymentsKnown
<1>3. /\ stage'[p] = "released"
      /\ \A q \in Payment : q # p => stage'[q] = stage[q]
  BY <1>1, <1>2 DEF PInv, PaymentsKnown, Made
<1> HIDE DEF p
<1>4. Made' = Made
  BY <1>2, <1>3 DEF Made
<1>5. Own' = Own /\ SpentBy(confirmed)' = SpentBy(confirmed)
  BY <1>1, SameHoldings
<1>6. PaymentsKnown'
  <2>1. \A d \in Client : call'[d].op = "send" => call'[d] = call[d]
    BY <1>1 DEF KInv, SaversAlone, Idle
  <2>2. stage' = [q \in Payment |-> stage'[q]]
    BY <1>1 DEF PInv, PaymentsKnown
  <2>3. \A d \in Client : call'[d].op = "send" =>
            call'[d].pay \in Made' /\ tx'[call'[d].pay].run = crashes'
    BY <2>1, <1>1, <1>4 DEF PInv, PaymentsKnown
  <2>4. QED
    BY <2>2, <2>3, <1>1, <1>4 DEF PInv, PaymentsKnown
<1>7. CoinsPromised'
  <2> SUFFICES ASSUME ~stirred', NEW q \in Payment, Promised(q)', NEW o \in tx'[q].spends
               PROVE  o \in SpentBy(confirmed)' \/ (o \in reserved' /\ o \in Own')
    BY DEF CoinsPromised
  <2>1. q # p /\ q \in Made /\ tx[q].run = crashes /\ stage[q] # "released"
    BY <1>1, <1>3, <1>4 DEF Promised
  <2>2. ~tx[p].late /\ ~tx[q].late
    BY <2>1, <1>1, <1>2 DEF PInv, PaymentsKnown
  <2>3. stage[p] # "released"
    BY <1>1 DEF p
  <2>4. tx[p].spends \cap tx[q].spends = {}
    BY <2>1, <2>2, <2>3, <1>2 DEF PInv, PromisedOnce
  <2>5. o \in SpentBy(confirmed) \/ (o \in reserved /\ o \in Own)
    BY <2>1, <1>1 DEF PInv, CoinsPromised, Promised
  <2>6. QED
    BY <2>4, <2>5, <1>1, <1>5
<1>8. PromisedOnce'
  <2> SUFFICES ASSUME NEW q \in Made', NEW r \in Made', q # r,
                      tx'[q].run = tx'[r].run, ~tx'[q].late, ~tx'[r].late,
                      stage'[q] # "released", stage'[r] # "released"
               PROVE  tx'[q].spends \cap tx'[r].spends = {}
    BY DEF PromisedOnce
  <2>1. q # p /\ r # p /\ q \in Made /\ r \in Made /\ q \in Payment /\ r \in Payment
    BY <1>3, <1>4 DEF Made
  <2>2. stage[q] # "released" /\ stage[r] # "released"
    BY <2>1, <1>3
  <2>3. QED
    BY <2>1, <2>2, <1>1 DEF PInv, PromisedOnce
<1>9. WithheldForPayment'
  <2> SUFFICES ASSUME NEW o \in reserved'
               PROVE  \E q \in Made' : /\ o \in tx'[q].spends
                                       /\ stage'[q] \notin {"released", "lost"}
    BY DEF WithheldForPayment
  <2>1. PICK q \in Made : o \in tx[q].spends /\ stage[q] \notin {"released", "lost"}
    BY <1>1 DEF PInv, WithheldForPayment
  <2>2. q # p /\ q \in Payment
    BY <2>1, <1>1 DEF Made
  <2>3. QED
    BY <2>1, <2>2, <1>1, <1>3, <1>4
<1>10. QED
  BY <1>6, <1>7, <1>8, <1>9 DEF PInv

(* A block spends a coin of the wallet by a transaction it confirms.       *)
LEMMA ConfirmKeepsP ==
  ASSUME PInv, NEW t \in Transaction, Confirm(t)
  PROVE  PInv'
<1>1. /\ confirmed' = confirmed \cup {t}
      /\ t \notin Deposit => t \in relayed
      /\ UNCHANGED <<ring, call, payments, reserved, relayed, stirred, crashes>>
  BY DEF Confirm, keyVars
<1>2. SpentBy(confirmed) \subseteq SpentBy(confirmed)'
  BY <1>1 DEF SpentBy, Spends, payments
<1>3. \A o \in confirmed : HasOutput(o)' = HasOutput(o) /\ OwnerOf(o)' = OwnerOf(o)
  BY <1>1 DEF HasOutput, OwnerOf, payments
<1>4. \A o \in Own : o \in Own' \/ o \in SpentBy(confirmed)'
  BY <1>1, <1>3 DEF Own, Ledger, Unspent
<1>5. confirmed' \cap Payment \subseteq Made
  BY <1>1, DepositAssumption DEF PInv, PaymentsKnown
<1>6. QED
  BY <1>1, <1>2, <1>4, <1>5, PaymentsKept

(* After a reorganisation nothing is promised for certain.                 *)
LEMMA DisconnectKeepsP ==
  ASSUME PInv, NEW T \in SUBSET confirmed, Disconnect(T)
  PROVE  PInv'
<1>1. /\ stirred' = TRUE /\ confirmed' = confirmed \ T
      /\ UNCHANGED <<call, payments, reserved, relayed, crashes>>
  BY DEF Disconnect
<1>2. Made' = Made
  BY <1>1 DEF Made, payments
<1>3. PaymentsKnown'
  BY <1>1, <1>2 DEF PInv, PaymentsKnown, payments
<1>4. CoinsPromised'
  BY <1>1 DEF CoinsPromised
<1>5. PromisedOnce' /\ WithheldForPayment'
  BY <1>1, <1>2 DEF PInv, PromisedOnce, WithheldForPayment, payments
<1>6. QED
  BY <1>3, <1>4, <1>5 DEF PInv

(* A start of the process promises nothing yet.                            *)
LEMMA RestartKeepsP == PInv /\ Restart => PInv'
<1> SUFFICES ASSUME PInv, Restart PROVE PInv'
  OBVIOUS
<1>1. /\ crashes' = crashes + 1 /\ reserved' = {}
      /\ call' = [c \in Client |-> Idle]
      /\ stage' = [p \in Payment |-> IF stage[p] = "built" THEN "lost" ELSE stage[p]]
      /\ UNCHANGED <<tx, relayed, confirmed>>
  BY DEF Restart
<1>2. Made' = Made
  BY <1>1 DEF Made
<1>3. crashes \in Nat /\ \A p \in Made : tx'[p].run \in Nat /\ tx'[p].run < crashes'
  <2>1. crashes \in Nat /\ \A p \in Made : tx[p].run \in Nat /\ tx[p].run =< crashes
    BY DEF PInv, PaymentsKnown
  <2>2. tx' = tx /\ crashes' = crashes + 1
    BY <1>1
  <2>3. QED
    BY <2>1, <2>2
<1>4. PaymentsKnown'
  <2>1. \A c \in Client : call'[c].op = "idle"
    BY <1>1 DEF Idle
  <2>2. stage' = [p \in Payment |-> stage'[p]]
    BY <1>1
  <2>3. \A p \in Made' : tx'[p].run \in Nat /\ tx'[p].run =< crashes' /\ tx'[p].run # crashes'
    BY <1>1, <1>2, <1>3 DEF PInv, PaymentsKnown
  <2>4. \A p \in Made' : tx'[p].run = crashes' /\ ~stirred' => ~tx'[p].late
    BY <2>3
  <2>5. \A c \in Client : call'[c].op = "send" =>
            call'[c].pay \in Made' /\ tx'[call'[c].pay].run = crashes'
    BY <2>1
  <2>6. /\ tx' = [p \in Payment |-> tx'[p]]
        /\ \A p \in Payment : tx'[p].to = FirstKey
        /\ crashes' \in Nat
        /\ relayed' \subseteq Made' /\ confirmed' \cap Payment \subseteq Made'
    BY <1>1, <1>2 DEF PInv, PaymentsKnown
  <2>7. QED
    BY <2>2, <2>3, <2>4, <2>5, <2>6 DEF PaymentsKnown
<1>5. CoinsPromised'
  BY <1>2, <1>3 DEF CoinsPromised, Promised
<1>6. PromisedOnce'
  BY <1>1, <1>2 DEF PInv, PromisedOnce, Made
<1>7. WithheldForPayment'
  BY <1>1 DEF WithheldForPayment
<1>8. QED
  BY <1>4, <1>5, <1>6, <1>7 DEF PInv

LEMMA UntouchedKeepsP ==
  ASSUME PInv, UNCHANGED <<ring, call, reserved, payments, relayed, confirmed, stirred, crashes>>
  PROVE  PInv'
<1>1. Own' = Own /\ SpentBy(confirmed)' = SpentBy(confirmed)
  BY SameHoldings DEF payments
<1>2. confirmed' \cap Payment \subseteq Made
  BY DEF PInv, PaymentsKnown
<1>3. QED
  BY <1>1, <1>2, PaymentsKept

LEMMA PInvStep == KInv /\ PInv /\ [Next]_vars => PInv'
<1> SUFFICES ASSUME KInv, PInv, [Next]_vars PROVE PInv'
  OBVIOUS
<1>1. ASSUME NEW c \in Client, NEW k \in Key, new_address(c, k) PROVE PInv'
  BY <1>1, NewKeepsP
<1>2. ASSUME NEW c \in Client, NEW k \in Key, forget_address(c, k) PROVE PInv'
  BY <1>2, ForgetKeepsP
<1>3. ASSUME NEW c \in Client, save(c) \/ SaveFails(c) \/ Answers(c) \/ TimesOut(c)
      PROVE  PInv'
  BY <1>3, CallEndsKeepsP DEF save, SaveFails, Answers, TimesOut, keyVars, chainVars
<1>4. ASSUME NEW c \in Client, Releases(c) PROVE PInv'
  BY <1>4, ReleaseKeepsP
<1>5. ASSUME NEW c \in Client, NEW amount \in Amounts, InsufficientFunds(c, amount)
      PROVE  PInv'
  BY <1>5, LettingGoKeepsP
<1>6. ASSUME NEW c \in Client, NEW amount \in Amounts, NEW p \in Payment, NEW S \in SUBSET Own,
             create_transaction(c, p, amount, S)
      PROVE  PInv'
  BY <1>6, SendKeepsP
<1>7. ASSUME NEW p \in Payment, Admitted(p) \/ Refused(p) PROVE PInv'
  <2>1. CASE Admitted(p)
    BY <2>1, OutcomeKeepsP DEF Admitted, keyVars, chainVars
  <2>2. CASE Refused(p)
    BY <2>2, OutcomeKeepsP DEF Refused, keyVars, chainVars
  <2>3. QED
    BY <1>7, <2>1, <2>2
<1>8. ASSUME NEW p \in Payment, Gossiped(p) \/ Evict(p) PROVE PInv'
  BY <1>8, UntouchedKeepsP DEF Gossiped, Evict, keyVars, chainVars
<1>9. ASSUME NEW t \in Transaction, Confirm(t) PROVE PInv'
  BY <1>9, ConfirmKeepsP
<1>10. ASSUME NEW T \in SUBSET confirmed, Disconnect(T) PROVE PInv'
  BY <1>10, DisconnectKeepsP
<1>11. ASSUME NEW d \in Deposit, Matures(d) PROVE PInv'
  BY <1>11, UntouchedKeepsP DEF Matures, keyVars
<1>12. CASE Restart
  BY <1>12, RestartKeepsP
<1>13. CASE UNCHANGED vars
  BY <1>13, UntouchedKeepsP DEF vars, keyVars, chainVars
<1>14. QED
  BY <1>1, <1>2, <1>3, <1>4, <1>5, <1>6, <1>7, <1>8, <1>9, <1>10, <1>11, <1>12, <1>13 DEF Next

(* A reservation always stands for a payment, and a coin that is promised  *)
(* is reserved until it is spent or the payment refused (wallet.py:398-409,*)
(* 469-477, rpc.py:450-456).                                               *)
THEOREM PaymentsAccounted == Spec => []PInv
<1>1. Init => KInv /\ PInv
  BY KInvInit, PInvInit
<1>2. KInv /\ PInv /\ [Next]_vars => (KInv /\ PInv)'
  BY KInvStep, PInvStep
<1>3. QED
  BY <1>1, <1>2, PTL DEF Spec

(* Payments built between a start of the process and the first             *)
(* reorganisation it sees draw on different coins (wallet.py               *)
(* create_transaction, spendable_utxos, release).                          *)
THEOREM NothingPromisedTwice == Spec => []PromisedOnce
<1>1. PInv => PromisedOnce
  BY DEF PInv
<1>2. QED
  BY <1>1, PaymentsAccounted, PTL

(* A coin is withheld only for a payment whose sender was not told that it *)
(* was refused (rpc.py rpc_send, wallet.py release).                       *)
THEOREM NothingStranded == Spec => []WithheldForPayment
<1>1. PInv => WithheldForPayment
  BY DEF PInv
<1>2. QED
  BY <1>1, PaymentsAccounted, PTL

(* The change of every payment goes to a key in memory and in the file     *)
(* (wallet.py forget_address, create_transaction).                         *)
THEOREM ChangeKept == Spec => []ChangeComesBack
<1>1. KInv /\ PInv => ChangeComesBack
  BY DEF KInv, KeysSafe, PInv, PaymentsKnown, ChangeComesBack, Made
<1>2. QED
  BY <1>1, KeysKept, PaymentsAccounted, PTL
================================================================================
