----------------------------- MODULE Bridge_proof -----------------------------
(***************************************************************************)
(* Proofs about the bridge, for every set of deposits and addresses and    *)
(* every value of the bounds.  The invariant is MinterInv (no deposit has  *)
(* two requests, what was sent stays on the books, what each stage of a    *)
(* pass relies on), WatchInv (what the poll knows of the chain), DepthInv  *)
(* (as long as there is no reorganisation) and SupplyInv (what is done on  *)
(* the books exists).                                                      *)
(***************************************************************************)
EXTENDS Bridge, Sums_proof

(***************************************************************************)
(* The inductive invariant.                                                *)
(***************************************************************************)

Sent == landed \cup afloat

SentFor(d) == \E request \in Sent : request[1] = d

(* With definite answers, no deposit ever has a second request. *)
OneRequest == \A one, other \in Sent : one[1] = other[1] => one = other

(* What the pass relies on, stage by stage. *)
PassInv ==
    /\ pass \in {"resolving", "settling"} =>
        /\ todo \subseteq InState({"in_flight"})
        /\ InState({"in_flight"}) \subseteq todo \cup unresolved
    /\ pass = "settling" =>
        /\ current \in todo
        /\ answer = "none" => ~SentFor(current)
    /\ pass \in {"minting", "intent", "awaiting", "recording"} =>
        todo \subseteq InState({"ready", "abandoned"})
    /\ pass \in {"intent", "awaiting", "recording"} => events[current].state = "in_flight"
    /\ pass = "intent" => ~SentFor(current)

(* What the ledger and the poll know of the chain. *)
Traced(d) == placed[d] > 0 \/ d \in vanished

WatchInv ==
    /\ \A d \in Deposit : placed[d] > 0 => AddressOf[d] \in assigned
    /\ \A d \in Deposit : seen[d] > 0 => Traced(d)
    /\ \A d \in Deposit \ InState({"absent"}) :
        Creditable(d) /\ Traced(d) /\ AddressOf[d] \in assigned
    /\ \A d \in Deposit : seen[d] > 0 => AddressOf[d] \in assigned
    /\ stage = "reading" =>
        \A d \in Deposit \ InState({"absent"}) :
            AddressOf[d] \notin unread => seen[d] > 0 \/ d \in vanished
    /\ \A d \in toRecord : seen[d] > 0 /\ Creditable(d)
    /\ stage # "applying" => toRecord = {}
    /\ toAbandon \subseteq vanished

MinterInv == OneRequest /\ MintedOnRecord /\ PassInv /\ EarlierResolvedFirst

(***************************************************************************)
(* Types.                                                                  *)
(***************************************************************************)

Fields == [state : State, height : 0..MaxHeight]

LEMMA InitTypes == Init => TypeOK
  BY WatcherAssumption, MinterAssumption, CrashAssumption
  DEF Init, TypeOK, LedgerInit, WatcherInit, MinterInit, State

LEMMA ChainTypes == TypeOK /\ Chain /\ UNCHANGED <<events, minterVars, crashes>> => TypeOK'
  <1> SUFFICES ASSUME TypeOK, Chain, UNCHANGED <<events, minterVars, crashes>>
               PROVE  TypeOK'
    OBVIOUS
  <1> USE WatcherAssumption
  <1>1. ASSUME NEW D \in SUBSET Deposit, MineBlock(D)
        PROVE  TypeOK'
    BY <1>1 DEF MineBlock, ChainBecomes, TypeOK, minterVars, solanaVars, passVars, pollVars
  <1>2. ASSUME NEW fork \in 0..MaxHeight, NEW top \in 0..MaxHeight, Reorganise(fork, top)
        PROVE  TypeOK'
    BY <1>2 DEF Reorganise, ChainBecomes, TypeOK, minterVars, solanaVars, passVars, pollVars
  <1> QED
    BY <1>1, <1>2 DEF Chain

LEMMA WatcherTypes ==
  ASSUME TypeOK, Watcher \/ CallFails \/ \E a \in Address :
             AllocateDepositAddress(a) /\ UNCHANGED events,
         UNCHANGED <<minterVars, crashes>>
  PROVE  TypeOK'
  <1> USE WatcherAssumption
      DEF TypeOK, minterVars, solanaVars, passVars, chainVars, pollVars, PollEnds
  <1>1. CASE GetInfo /\ UNCHANGED events
    BY <1>1 DEF GetInfo
  <1>2. CASE ReadDestinations /\ UNCHANGED events
    BY <1>2 DEF ReadDestinations
  <1>3. CASE (\E a \in Address : GetAddressUtxos(a)) /\ UNCHANGED events
    BY <1>3 DEF GetAddressUtxos
  <1>4. CASE Reconcile /\ UNCHANGED events
    BY <1>4 DEF Reconcile, StillPresent, Alarming, InState
  <1>5. CASE \E d \in Deposit : ApplyRecord(d)
    BY <1>5 DEF ApplyRecord, RecordDeposit, State
  <1>6. CASE \E d \in Deposit : ApplyAbandon(d)
    BY <1>6 DEF ApplyAbandon, Abandon, Moved, State
  <1>7. CASE \E d \in Deposit : AbandonRefused(d)
    BY <1>7 DEF AbandonRefused
  <1>8. CASE AlertAndPromote
    BY <1>8 DEF AlertAndPromote, PromoteConfirmed, State
  <1>9. CASE CallFails
    BY <1>9 DEF CallFails
  <1>10. CASE \E a \in Address : AllocateDepositAddress(a) /\ UNCHANGED events
    BY <1>10 DEF AllocateDepositAddress
  <1> QED
    BY <1>1, <1>2, <1>3, <1>4, <1>5, <1>6, <1>7, <1>8, <1>9, <1>10
    DEF Watcher, PollReads, PollWrites

LEMMA MinterTypes ==
  ASSUME TypeOK, Cluster \/ PassStep, UNCHANGED <<watcherVars, crashes>>
  PROVE  TypeOK'
  <1> USE MinterAssumption
      DEF TypeOK, solanaVars, passVars, watcherVars, chainVars, pollVars, PassEnds
  <1>1. CASE \E request \in afloat : Land(request) \/ Lose(request)
    BY <1>1 DEF Land, Lose
  <1>2. CASE BeginPass
    BY <1>2 DEF BeginPass, InState
  <1>3. CASE \E d \in Deposit, found \in BOOLEAN : FindMint(d, found)
    BY <1>3 DEF FindMint
  <1>4. CASE \E d \in Deposit : FindMintRaises(d)
    BY <1>4 DEF FindMintRaises, Unresolved
  <1>5. CASE Settle
    <2>1. current \in Deposit
      BY <1>5 DEF Settle
    <2>2. \E s \in {"done", "ready"} : events' = Moved(current, s)
      BY <1>5 DEF Settle, Settled, MarkDone, ReturnToQueue
    <2>3. events' \in [Deposit -> [state : State, height : 0..MaxHeight]]
      BY <2>1, <2>2 DEF Moved, State
    <2> QED
      BY <1>5, <2>3 DEF Settle
  <1>6. CASE Blocked \/ PassReturns \/ \E d \in Deposit : IntentRefused(d)
    BY <1>6 DEF Blocked, PassReturns, IntentRefused
  <1>7. CASE Proceed
    BY <1>7 DEF Proceed, InState
  <1>8. CASE \E d \in Deposit : DeclareIntent(d)
    BY <1>8 DEF DeclareIntent, MarkInFlight, Moved, State
  <1>9. CASE CallMint
    BY <1>9 DEF CallMint
  <1>10. CASE MintReturns
    BY <1>10 DEF MintReturns
  <1>11. CASE MintRaises
    BY <1>11 DEF MintRaises, AfterError
  <1>12. CASE RecordMint
    BY <1>12 DEF RecordMint, MarkDone, Moved, State
  <1> QED
    BY <1>1, <1>2, <1>3, <1>4, <1>5, <1>6, <1>7, <1>8, <1>9, <1>10, <1>11, <1>12
    DEF Cluster, PassStep

LEMMA CrashTypes == TypeOK /\ Crash => TypeOK'
  BY CrashAssumption, WatcherAssumption, MinterAssumption
  DEF TypeOK, Crash, PollEnds, PassEnds, chainVars, solanaVars

(* TypeOK at every step of the bridge (the tables and locals of            *)
(* bridge/ledger.py, watcher.py and minting.py).                           *)
THEOREM TypesCorrect == Spec => []TypeOK
  <1>1. TypeOK /\ [Next]_vars => TypeOK'
    <2> SUFFICES ASSUME TypeOK, [Next]_vars
                 PROVE  TypeOK'
      OBVIOUS
    <2>1. CASE UNCHANGED vars
      BY <2>1 DEF TypeOK, vars, watcherVars, minterVars, solanaVars, passVars, chainVars, pollVars
    <2>2. CASE Next
      BY <2>2, ChainTypes, WatcherTypes, MinterTypes, CrashTypes DEF Next
    <2> QED
      BY <2>1, <2>2
  <1> QED
    BY <1>1, InitTypes, PTL DEF Spec

(***************************************************************************)
(* The minter.  Only its own steps send a request or put a deposit in      *)
(* flight; the others can disturb its invariant only through the ledger.   *)
(***************************************************************************)

LEMMA InitMinter == Init => MinterInv
  BY DEF Init, MinterInv, MinterInit, LedgerInit, OneRequest, MintedOnRecord, PassInv,
         EarlierResolvedFirst, Sent

(* What the watcher may do to the rows: nothing to those in flight or      *)
(* done, and a row that is ready only becomes abandoned.                   *)
LEMMA WatcherSpares ==
  ASSUME TypeOK, Watcher \/ UNCHANGED events, NEW d \in Deposit
  PROVE  /\ events[d].state \in {"in_flight", "done"} => events'[d].state = events[d].state
         /\ events[d].state \in {"ready", "abandoned"} => events'[d].state \in {"ready", "abandoned"}
         /\ events'[d].state = "in_flight" => events[d].state = "in_flight"
  <1> USE DEF TypeOK
  <1>1. CASE UNCHANGED events
    BY <1>1
  <1>2. CASE \E e \in Deposit : ApplyRecord(e)
    BY <1>2 DEF ApplyRecord, RecordDeposit
  <1>3. CASE \E e \in Deposit : ApplyAbandon(e)
    BY <1>3 DEF ApplyAbandon, Abandon, Moved
  <1>4. CASE \E e \in Deposit : AbandonRefused(e)
    BY <1>4 DEF AbandonRefused
  <1>5. CASE AlertAndPromote
    BY <1>5 DEF AlertAndPromote, PromoteConfirmed
  <1> QED
    BY <1>1, <1>2, <1>3, <1>4, <1>5 DEF Watcher, PollWrites

LEMMA OthersKeepMinter ==
  ASSUME TypeOK, MinterInv, Watcher \/ UNCHANGED events, UNCHANGED minterVars
  PROVE  MinterInv'
  <1>1. UNCHANGED <<landed, afloat, pass, todo, current, answer, unresolved, tried>>
    BY DEF minterVars, solanaVars, passVars
  <1>2. \A d \in Deposit :
          /\ events[d].state \in {"in_flight", "done"} => events'[d].state = events[d].state
          /\ events[d].state \in {"ready", "abandoned"} => events'[d].state \in {"ready", "abandoned"}
          /\ events'[d].state = "in_flight" => events[d].state = "in_flight"
    BY WatcherSpares
  <1>3. OneRequest'
    BY <1>1 DEF MinterInv, OneRequest, Sent
  <1>4. MintedOnRecord'
    BY <1>1, <1>2 DEF MinterInv, MintedOnRecord, TypeOK
  <1>5. PassInv'
    BY <1>1, <1>2 DEF MinterInv, PassInv, InState, TypeOK, SentFor, Sent
  <1>6. EarlierResolvedFirst'
    BY <1>1, <1>2 DEF MinterInv, EarlierResolvedFirst, InState
  <1> QED
    BY <1>3, <1>4, <1>5, <1>6 DEF MinterInv

LEMMA PassKeepsMinter ==
  ASSUME Definite, TypeOK, MinterInv, Cluster \/ PassStep
  PROVE  MinterInv'
  <1> USE MinterAssumption
      DEF TypeOK, MinterInv, OneRequest, MintedOnRecord, PassInv, EarlierResolvedFirst, Sent, SentFor, InState,
          solanaVars, passVars, PassEnds
  <1>1. CASE \E request \in afloat : Land(request)
    BY <1>1 DEF Land
  <1>2. CASE \E request \in afloat : Lose(request)
    BY <1>2 DEF Lose
  <1>3. CASE BeginPass
    BY <1>3 DEF BeginPass
  <1>4. CASE \E d \in Deposit, found \in BOOLEAN : FindMint(d, found)
    BY <1>4 DEF FindMint, Minted, Outstanding
  <1>5. CASE \E d \in Deposit : FindMintRaises(d)
    BY <1>5 DEF FindMintRaises, Unresolved
  <1>6. CASE Settle
    BY <1>6 DEF Settle, Settled, MarkDone, ReturnToQueue, Moved
  <1>7. CASE Blocked \/ PassReturns \/ \E d \in Deposit : IntentRefused(d)
    BY <1>7 DEF Blocked, PassReturns, IntentRefused
  <1>8. CASE Proceed
    BY <1>8 DEF Proceed
  <1>9. CASE \E d \in Deposit : DeclareIntent(d)
    BY <1>9 DEF DeclareIntent, MarkInFlight, Moved
  <1>10. CASE CallMint
    BY <1>10 DEF CallMint
  <1>11. CASE MintReturns
    BY <1>11 DEF MintReturns
  <1>12. CASE MintRaises
    BY <1>12 DEF MintRaises, AfterError
  <1>13. CASE RecordMint
    BY <1>13 DEF RecordMint, MarkDone, Moved
  <1> QED
    BY <1>1, <1>2, <1>3, <1>4, <1>5, <1>6, <1>7, <1>8, <1>9, <1>10, <1>11, <1>12, <1>13
    DEF Cluster, PassStep

LEMMA CrashKeepsMinter == MinterInv /\ Crash => MinterInv'
  BY DEF Crash, MinterInv, OneRequest, MintedOnRecord, PassInv, EarlierResolvedFirst, Sent, PassEnds,
         solanaVars

(* What the minter knows of every row that is in flight or done stays true *)
(* through lost requests, late landings and deaths (minting.py run_once).  *)
THEOREM MinterCorrect == ASSUME Definite PROVE Spec => [](TypeOK /\ MinterInv)
  <1>1. TypeOK /\ MinterInv /\ [Next]_vars => MinterInv'
    <2> SUFFICES ASSUME TypeOK, MinterInv, [Next]_vars
                 PROVE  MinterInv'
      OBVIOUS
    <2>1. CASE UNCHANGED vars
      BY <2>1, OthersKeepMinter DEF vars
    <2>2. CASE Next
      <3>1. CASE Chain /\ UNCHANGED <<events, minterVars, crashes>>
        BY <3>1, OthersKeepMinter
      <3>2. CASE \E a \in Address :
                   AllocateDepositAddress(a) /\ UNCHANGED <<events, minterVars, crashes>>
        BY <3>2, OthersKeepMinter
      <3>3. CASE (Watcher \/ CallFails) /\ UNCHANGED <<minterVars, crashes>>
        BY <3>3, OthersKeepMinter DEF CallFails
      <3>4. CASE Cluster \/ PassStep
        BY <3>4, PassKeepsMinter
      <3>5. CASE Crash
        BY <3>5, CrashKeepsMinter
      <3> QED
        BY <2>2, <3>1, <3>2, <3>3, <3>4, <3>5 DEF Next
    <2> QED
      BY <2>1, <2>2
  <1> QED
    BY <1>1, InitMinter, TypesCorrect, PTL DEF Spec

(* No deposit is minted a second time (BridgeLedger, MintService), as long *)
(* as find_mint keeps its contract.                                        *)
THEOREM NoDoubleMint == ASSUME Definite PROVE Spec => []MintedOnce
  <1>1. MinterInv => MintedOnce
    BY DEF MinterInv, OneRequest, Sent, MintedOnce
  <1> QED
    BY <1>1, MinterCorrect, PTL

(* A mint that exists or may come to exist stays on the ledger as in       *)
(* flight or done (mark_in_flight, mark_done, abandon).                    *)
THEOREM MintsStayOnRecord == ASSUME Definite PROVE Spec => []MintedOnRecord
  <1>1. MinterInv => MintedOnRecord
    BY DEF MinterInv
  <1> QED
    BY <1>1, MinterCorrect, PTL

(* Nothing is minted by a pass while the outcome of a mint of an earlier   *)
(* pass is unknown, wherever the process died (run_once).                  *)
THEOREM UnknownsComeFirst == ASSUME Definite PROVE Spec => []EarlierResolvedFirst
  <1>1. MinterInv => EarlierResolvedFirst
    BY DEF MinterInv
  <1> QED
    BY <1>1, MinterCorrect, PTL

(* Done and abandoned rows never change again, although one UPDATE of      *)
(* _resolve_in_flight asks for no state.                                   *)
THEOREM FinalIsFinal == ASSUME Definite PROVE Spec => FinalStates
  <1>1. ASSUME TypeOK, MinterInv, [Next]_vars
        PROVE  \A d \in Deposit :
                   events[d].state \in {"done", "abandoned"} => events'[d] = events[d]
    <2> USE <1>1 DEF TypeOK
    <2>1. CASE UNCHANGED events
      BY <2>1
    <2>2. CASE \E d \in Deposit : ApplyRecord(d) \/ ApplyAbandon(d)
      BY <2>2 DEF ApplyRecord, RecordDeposit, ApplyAbandon, Abandon, Moved
    <2>3. CASE AlertAndPromote
      BY <2>3 DEF AlertAndPromote, PromoteConfirmed
    <2>4. CASE Settle
      BY <2>4 DEF Settle, Settled, MarkDone, ReturnToQueue, Moved, MinterInv, PassInv, InState
    <2>5. CASE \E d \in Deposit : DeclareIntent(d)
      BY <2>5 DEF DeclareIntent, MarkInFlight, Moved
    <2>6. CASE RecordMint
      BY <2>6 DEF RecordMint, MarkDone, Moved, MinterInv, PassInv
    <2>7. ASSUME Next
          PROVE  \/ UNCHANGED events
                 \/ \E d \in Deposit : ApplyRecord(d) \/ ApplyAbandon(d) \/ DeclareIntent(d)
                 \/ AlertAndPromote \/ Settle \/ RecordMint
      <3>1. CASE Cluster \/ PassStep
        BY <3>1
        DEF Cluster, Land, Lose, PassStep, BeginPass, FindMint, FindMintRaises, IntentRefused, Blocked,
            Proceed, CallMint, MintReturns, MintRaises, AfterError, PassReturns
      <3>2. CASE Watcher \/ CallFails \/ Crash
        BY <3>2 DEF Watcher, PollWrites, AbandonRefused, CallFails, Crash
      <3> QED
        BY <2>7, <3>1, <3>2 DEF Next
    <2> QED
      BY <2>1, <2>2, <2>3, <2>4, <2>5, <2>6, <2>7 DEF vars
  <1>2. TypeOK /\ MinterInv /\ [Next]_vars =>
            [\A d \in Deposit :
                events[d].state \in {"done", "abandoned"} => events'[d] = events[d]]_vars
    BY <1>1
  <1> QED
    BY <1>2, MinterCorrect, PTL DEF Spec, FinalStates

(***************************************************************************)
(* The watcher.                                                            *)
(***************************************************************************)

LEMMA InitWatch == Init => WatchInv
  BY DEF Init, WatchInv, WatcherInit, LedgerInit, InState

LEMMA ChainKeepsWatch ==
  ASSUME TypeOK, WatchInv, Chain, UNCHANGED events
  PROVE  WatchInv'
  <1> USE DEF TypeOK, WatchInv, ChainBecomes, pollVars, Traced, Creditable, InState
  <1>1. CASE \E D \in SUBSET Deposit : MineBlock(D)
    BY <1>1, WatcherAssumption DEF MineBlock
  <1>2. CASE \E fork, top \in 0..MaxHeight : Reorganise(fork, top)
    <2>1. PICK fork \in 0..MaxHeight, top \in 0..MaxHeight : Reorganise(fork, top)
      BY <1>2
    <2>2. \A d \in Deposit : placed'[d] > 0 => placed[d] > 0
      BY <2>1 DEF Reorganise
    <2>3. \A d \in Deposit : placed[d] > 0 => placed'[d] > 0 \/ d \in vanished'
      BY <2>1, WatcherAssumption DEF Reorganise
    <2>4. /\ vanished \subseteq vanished'
          /\ UNCHANGED <<assigned, stage, tipHeight, unread, seen, toRecord, toAbandon, toAlert>>
      BY <2>1 DEF Reorganise
    <2> QED
      BY <2>2, <2>3, <2>4
  <1> QED
    BY <1>1, <1>2 DEF Chain

LEMMA PollKeepsWatch ==
  ASSUME TypeOK, WatchInv, Watcher \/ CallFails
  PROVE  WatchInv'
  <1> USE WatcherAssumption
      DEF TypeOK, WatchInv, Traced, Creditable, InState, chainVars, pollVars, PollEnds
  <1>1. CASE GetInfo /\ UNCHANGED events
    BY <1>1 DEF GetInfo
  <1>2. CASE ReadDestinations /\ UNCHANGED events
    BY <1>2 DEF ReadDestinations
  <1>3. CASE (\E a \in Address : GetAddressUtxos(a)) /\ UNCHANGED events
    <2>1. PICK a \in Address : GetAddressUtxos(a)
      BY <1>3
    <2>2. \A d \in Deposit : seen'[d] = IF AddressOf[d] = a THEN placed[d] ELSE seen[d]
      BY <2>1 DEF GetAddressUtxos
    <2>3. /\ unread' = unread \ {a} /\ stage' = stage
          /\ UNCHANGED <<events, placed, vanished, assigned, toAbandon>>
      BY <1>3, <2>1 DEF GetAddressUtxos
    <2>4. toRecord = {} /\ toRecord' = {}
      BY <2>1 DEF GetAddressUtxos
    <2> QED
      BY <2>2, <2>3, <2>4
  <1>4. CASE Reconcile /\ UNCHANGED events
    BY <1>4 DEF Reconcile, StillPresent, Alarming
  <1>5. CASE \E d \in Deposit : ApplyRecord(d)
    BY <1>5 DEF ApplyRecord, RecordDeposit
  <1>6. CASE \E d \in Deposit : ApplyAbandon(d)
    BY <1>6 DEF ApplyAbandon, Abandon, Moved
  <1>7. CASE \E d \in Deposit : AbandonRefused(d)
    BY <1>7 DEF AbandonRefused
  <1>8. CASE AlertAndPromote
    BY <1>8 DEF AlertAndPromote, PromoteConfirmed
  <1>9. CASE CallFails
    BY <1>9 DEF CallFails
  <1> QED
    BY <1>1, <1>2, <1>3, <1>4, <1>5, <1>6, <1>7, <1>8, <1>9
    DEF Watcher, PollReads, PollWrites

LEMMA AllocationKeepsWatch ==
  ASSUME TypeOK, WatchInv, NEW a \in Address, AllocateDepositAddress(a), UNCHANGED events
  PROVE  WatchInv'
  BY DEF AllocateDepositAddress, TypeOK, WatchInv, Traced, Creditable, InState, chainVars, pollVars

(* A transition of the ledger writes the state of one row and nothing else. *)
LEMMA MovedRow ==
  ASSUME TypeOK, NEW c \in Deposit, NEW s, events' = Moved(c, s)
  PROVE  \A d \in Deposit : /\ events'[d].state = IF d = c THEN s ELSE events[d].state
                            /\ events'[d].height = events[d].height
  <1> SUFFICES ASSUME NEW d \in Deposit
               PROVE  /\ events'[d].state = IF d = c THEN s ELSE events[d].state
                      /\ events'[d].height = events[d].height
    OBVIOUS
  <1>1. events \in [Deposit -> [state : State, height : 0..MaxHeight]]
    BY DEF TypeOK
  <1>2. events[d] \in [state : State, height : 0..MaxHeight]
    BY <1>1
  <1>3. CASE d = c
    BY <1>1, <1>2, <1>3 DEF Moved
  <1>4. CASE d # c
    BY <1>1, <1>4 DEF Moved
  <1> QED
    BY <1>3, <1>4

(* The minter moves rows that exist; that is all the watcher needs.        *)
LEMMA PassKeepsRows ==
  ASSUME TypeOK, MinterInv, Cluster \/ PassStep
  PROVE  \A d \in Deposit : /\ events'[d].state = "absent" <=> events[d].state = "absent"
                            /\ events'[d].state = "abandoned" => events[d].state = "abandoned"
                            /\ events'[d].state \in {"ready", "in_flight", "done"} =>
                                   events[d].state \in {"ready", "in_flight", "done"}
                            /\ events'[d].state = "pending" => events[d].state = "pending"
                            /\ events'[d].height = events[d].height
  <1> DEFINE Kept(d) ==
        /\ events'[d].state = "absent" <=> events[d].state = "absent"
        /\ events'[d].state = "abandoned" => events[d].state = "abandoned"
        /\ events'[d].state \in {"ready", "in_flight", "done"} =>
               events[d].state \in {"ready", "in_flight", "done"}
        /\ events'[d].state = "pending" => events[d].state = "pending"
        /\ events'[d].height = events[d].height
  <1> SUFFICES \A d \in Deposit : Kept(d)
    OBVIOUS
  <1>1. CASE Settle
    <2>1. current \in Deposit /\ events[current].state = "in_flight"
      BY <1>1 DEF Settle, MinterInv, PassInv, InState
    <2>2. PICK s \in {"done", "ready"} : events' = Moved(current, s)
      BY <1>1 DEF Settle, Settled, MarkDone, ReturnToQueue
    <2>3. \A d \in Deposit : /\ events'[d].state = IF d = current THEN s ELSE events[d].state
                             /\ events'[d].height = events[d].height
      BY <2>1, <2>2, MovedRow
    <2> QED
      BY <2>1, <2>2, <2>3
  <1>2. ASSUME NEW c \in Deposit, DeclareIntent(c) PROVE \A d \in Deposit : Kept(d)
    <2>1. events[c].state \in {"ready", "in_flight"} /\ events' = Moved(c, "in_flight")
      BY <1>2 DEF DeclareIntent, MarkInFlight
    <2>2. \A d \in Deposit : /\ events'[d].state = IF d = c THEN "in_flight" ELSE events[d].state
                             /\ events'[d].height = events[d].height
      BY <2>1, MovedRow
    <2> QED
      BY <2>1, <2>2
  <1>3. CASE RecordMint
    <2>1. current \in Deposit /\ events[current].state \in {"ready", "in_flight", "done"}
      BY <1>3 DEF RecordMint, MarkDone, TypeOK
    <2>2. events' = Moved(current, "done")
      BY <1>3 DEF RecordMint, MarkDone
    <2>3. \A d \in Deposit : /\ events'[d].state = IF d = current THEN "done" ELSE events[d].state
                             /\ events'[d].height = events[d].height
      BY <2>1, <2>2, MovedRow
    <2> QED
      BY <2>1, <2>3
  <1>4. CASE UNCHANGED events
    BY <1>4
  <1>5. Cluster => UNCHANGED events
    BY DEF Cluster, Land, Lose
  <1>6. PassStep =>
            UNCHANGED events \/ Settle \/ RecordMint \/ \E d \in Deposit : DeclareIntent(d)
    BY DEF PassStep, BeginPass, FindMint, FindMintRaises, IntentRefused, Blocked,
           Proceed, CallMint, MintReturns, MintRaises, AfterError, PassReturns
  <1> HIDE DEF Kept
  <1> QED
    BY <1>1, <1>2, <1>3, <1>4, <1>5, <1>6

LEMMA MinterKeepsWatch ==
  ASSUME TypeOK, MinterInv, WatchInv, Cluster \/ PassStep, UNCHANGED watcherVars
  PROVE  WatchInv'
  <1>1. \A d \in Deposit : events'[d].state = "absent" <=> events[d].state = "absent"
    BY PassKeepsRows
  <1> QED
    BY <1>1
    DEF TypeOK, WatchInv, Traced, Creditable, InState, watcherVars, chainVars, pollVars

LEMMA CrashKeepsWatch == TypeOK /\ WatchInv /\ Crash => WatchInv'
  BY DEF Crash, TypeOK, WatchInv, Traced, Creditable, InState, PollEnds, chainVars

LEMMA OnlyPollAbandons ==
  ASSUME TypeOK, MinterInv, WatchInv, OnlyVanishedAbandoned, [Next]_vars
  PROVE  OnlyVanishedAbandoned'
  <1> USE DEF TypeOK, OnlyVanishedAbandoned, InState
  <1>1. vanished \subseteq vanished'
    BY DEF Next, Chain, MineBlock, Reorganise, ChainBecomes, AllocateDepositAddress, Watcher, PollReads,
           PollWrites, GetInfo, ReadDestinations, GetAddressUtxos, Reconcile, ApplyRecord, ApplyAbandon,
           AbandonRefused, AlertAndPromote, CallFails, Crash, vars, watcherVars, chainVars
  <1>2. \A d \in Deposit : events'[d].state = "abandoned" =>
            events[d].state = "abandoned" \/ d \in vanished
    <2>1. CASE UNCHANGED events
      BY <2>1
    <2>2. CASE Cluster \/ PassStep
      BY <2>2, PassKeepsRows
    <2>3. CASE \E d \in Deposit : ApplyRecord(d)
      BY <2>3 DEF ApplyRecord, RecordDeposit
    <2>4. CASE \E d \in Deposit : ApplyAbandon(d)
      BY <2>4 DEF ApplyAbandon, Abandon, Moved, WatchInv
    <2>5. CASE AlertAndPromote
      BY <2>5 DEF AlertAndPromote, PromoteConfirmed
    <2> QED
      BY <2>1, <2>2, <2>3, <2>4, <2>5
      DEF Next, Watcher, PollWrites, AbandonRefused, CallFails, Crash, vars
  <1> QED
    BY <1>1, <1>2

(* A poll gives up only what has left the chain, and what it believes of   *)
(* the answers it has so far is true (watcher.py poll, reconcile).         *)
THEOREM WatcherCorrect == ASSUME Definite PROVE Spec => [](WatchInv /\ OnlyVanishedAbandoned)
  <1>1. Init => OnlyVanishedAbandoned
    BY DEF Init, LedgerInit, OnlyVanishedAbandoned, InState
  <1>2. TypeOK /\ MinterInv /\ WatchInv /\ [Next]_vars => WatchInv'
    <2> SUFFICES ASSUME TypeOK, MinterInv, WatchInv, [Next]_vars
                 PROVE  WatchInv'
      OBVIOUS
    <2>1. CASE UNCHANGED vars
      BY <2>1 DEF vars, watcherVars, chainVars, pollVars, WatchInv, Traced, Creditable, InState
    <2>2. CASE Next
      BY <2>2, ChainKeepsWatch, PollKeepsWatch, AllocationKeepsWatch, MinterKeepsWatch, CrashKeepsWatch
      DEF Next
    <2> QED
      BY <2>1, <2>2
  <1> QED
    BY <1>1, <1>2, InitWatch, OnlyPollAbandons, MinterCorrect, PTL DEF Spec

(* Only a deposit that left the active chain is given up (reconcile).      *)
THEOREM AbandonedVanished == ASSUME Definite PROVE Spec => []OnlyVanishedAbandoned
  BY WatcherCorrect, PTL

(***************************************************************************)
(* Depth.  As long as the chain only grew, the height the ledger recorded is   *)
(* where the deposit still is, and a height read earlier only understates  *)
(* its depth.                                                              *)
(***************************************************************************)

DepthInv ==
    /\ vanished = {}
    /\ tipHeight <= tip
    /\ \A d \in Deposit : Deep(d, tip, placed[d]) => d \in buried
    /\ \A d \in Deposit : seen[d] > 0 => seen[d] = placed[d]
    /\ \A d \in Deposit \ InState({"absent"}) : events[d].height = placed[d]
    /\ InState({"ready", "in_flight", "done"}) \subseteq buried

LEMMA InitDepth == Init => DepthInv
  BY LedgerAssumption DEF Init, DepthInv, WatcherInit, LedgerInit, InState, Deep

(* No step takes a reorganisation back. *)
LEMMA ReorgsOnlyGrow == ASSUME TypeOK, [Next]_vars, reorgs' = 0 PROVE reorgs = 0
  <1>1. CASE Chain
    <2>1. CASE \E D \in SUBSET Deposit : MineBlock(D)
      BY <2>1 DEF MineBlock
    <2>2. CASE \E fork, top \in 0..MaxHeight : Reorganise(fork, top)
      BY <2>2 DEF Reorganise, TypeOK
    <2> QED
      BY <1>1, <2>1, <2>2 DEF Chain
  <1>2. CASE UNCHANGED reorgs
    BY <1>2
  <1>3. (PollReads \/ PollWrites \/ CallFails \/ Crash
         \/ \E a \in Address : AllocateDepositAddress(a)) => UNCHANGED reorgs
    BY DEF PollReads, GetInfo, ReadDestinations, GetAddressUtxos, Reconcile, PollWrites,
           ApplyRecord, ApplyAbandon, AbandonRefused, AlertAndPromote, CallFails, Crash,
           AllocateDepositAddress, chainVars
  <1> QED
    BY <1>1, <1>2, <1>3 DEF Next, Watcher, vars, watcherVars, chainVars

LEMMA ChainKeepsDepth ==
  ASSUME reorgs' = 0, TypeOK, WatchInv, DepthInv, Chain, UNCHANGED events
  PROVE  DepthInv'
  <1> USE DEF TypeOK, WatchInv, DepthInv, Traced, InState
  <1>1. PICK D \in SUBSET Deposit : MineBlock(D)
    BY DEF Chain, Reorganise
  <1>2. /\ tip' = tip + 1
        /\ placed' = [d \in Deposit |-> IF d \in D THEN tip + 1 ELSE placed[d]]
        /\ D \subseteq {d \in Deposit : placed[d] = 0}
        /\ UNCHANGED <<seen, tipHeight>>
    BY <1>1 DEF MineBlock, ChainBecomes, pollVars
  <1>3. buried' = buried \cup {d \in Deposit : Deep(d, tip', placed'[d])}
    BY <1>1 DEF MineBlock, ChainBecomes
  <1>4. vanished' = {}
    BY <1>1, <1>2 DEF MineBlock, ChainBecomes
  <1>5. \A d \in Deposit : seen[d] > 0 => placed[d] > 0
    OBVIOUS
  <1>6. \A d \in Deposit \ InState({"absent"}) : placed[d] > 0
    OBVIOUS
  <1> QED
    BY <1>2, <1>3, <1>4, <1>5, <1>6

LEMMA PollKeepsDepth ==
  ASSUME TypeOK, WatchInv, DepthInv,
         \/ Watcher
         \/ CallFails
         \/ (\E a \in Address : AllocateDepositAddress(a)) /\ UNCHANGED events
  PROVE  DepthInv'
  <1> USE DEF TypeOK, WatchInv, DepthInv, Traced, InState, Deep, chainVars, pollVars, PollEnds
  <1>1. CASE CallFails \/ ((PollReads \/ \E a \in Address : AllocateDepositAddress(a)) /\ UNCHANGED events)
    BY <1>1
    DEF PollReads, GetInfo, ReadDestinations, GetAddressUtxos, Reconcile, CallFails, AllocateDepositAddress
  <1>2. CASE \E d \in Deposit : ApplyRecord(d)
    BY <1>2 DEF ApplyRecord, RecordDeposit
  <1>3. CASE \E d \in Deposit : ApplyAbandon(d)
    BY <1>3 DEF ApplyAbandon, Abandon, Moved
  <1>4. CASE \E d \in Deposit : AbandonRefused(d)
    BY <1>4 DEF AbandonRefused
  <1>5. CASE AlertAndPromote
    BY <1>5, LedgerAssumption DEF AlertAndPromote, PromoteConfirmed, Buried
  <1> QED
    BY <1>1, <1>2, <1>3, <1>4, <1>5 DEF Watcher, PollWrites

LEMMA MinterKeepsDepth ==
  ASSUME TypeOK, MinterInv, DepthInv, Cluster \/ PassStep, UNCHANGED watcherVars
  PROVE  DepthInv'
  <1>1. \A d \in Deposit : /\ events'[d].state = "absent" <=> events[d].state = "absent"
                           /\ events'[d].state \in {"ready", "in_flight", "done"} =>
                                  events[d].state \in {"ready", "in_flight", "done"}
                           /\ events'[d].height = events[d].height
    BY PassKeepsRows
  <1> QED
    BY <1>1 DEF DepthInv, InState, Deep, watcherVars, chainVars, pollVars

(* As long as the chain does not change its mind, nothing is minted that   *)
(* was not Confirmations deep, and never a mining reward or dust           *)
(* (promote_confirmed, reconcile, BRIDGE.md).                              *)
THEOREM NothingShallow == ASSUME Definite PROVE Spec => []MintedWasBuried
  <1> DEFINE SteadyDepth == reorgs = 0 => DepthInv
  <1>1. TypeOK /\ MinterInv /\ WatchInv /\ SteadyDepth /\ [Next]_vars => SteadyDepth'
    <2> SUFFICES ASSUME TypeOK, MinterInv, WatchInv, SteadyDepth, [Next]_vars, reorgs' = 0
                 PROVE  DepthInv'
      OBVIOUS
    <2> DepthInv
      BY ReorgsOnlyGrow
    <2>1. CASE UNCHANGED vars
      BY <2>1 DEF vars, watcherVars, chainVars, pollVars, DepthInv, InState, Deep
    <2>2. CASE Crash
      BY <2>2 DEF Crash, PollEnds, chainVars, DepthInv, InState, Deep, TypeOK
    <2>3. CASE Chain /\ UNCHANGED <<events, minterVars, crashes>>
      BY <2>3, ChainKeepsDepth
    <2>4. CASE \E a \in Address :
                 AllocateDepositAddress(a) /\ UNCHANGED <<events, minterVars, crashes>>
      BY <2>4, PollKeepsDepth
    <2>5. CASE (Watcher \/ CallFails) /\ UNCHANGED <<minterVars, crashes>>
      BY <2>5, PollKeepsDepth
    <2>6. CASE (Cluster \/ PassStep) /\ UNCHANGED <<watcherVars, crashes>>
      BY <2>6, MinterKeepsDepth
    <2> QED
      BY <2>1, <2>2, <2>3, <2>4, <2>5, <2>6 DEF Next
  <1>2. TypeOK /\ MinterInv /\ WatchInv /\ SteadyDepth => MintedWasBuried
    BY DEF TypeOK, MinterInv, MintedOnRecord, WatchInv, DepthInv, MintedWasBuried, Minted, InState
  <1>3. Init => SteadyDepth
    BY InitDepth
  <1> QED
    BY <1>1, <1>2, <1>3, MinterCorrect, WatcherCorrect, PTL DEF Spec

(***************************************************************************)
(* The supply.                                                             *)
(***************************************************************************)

(* What is done on the books exists on the cluster; what has landed is no  *)
(* longer under way.                                                       *)
SupplyInv ==
    /\ IsFiniteSet(landed)
    /\ landed \cap afloat = {}
    /\ \A d \in InState({"done"}) : Minted(d)
    /\ pass = "settling" /\ answer = "signature" => Minted(current)
    /\ pass = "recording" => Minted(current)

LEMMA InitSupply == Init => SupplyInv
  BY FS_EmptySet DEF Init, SupplyInv, MinterInit, LedgerInit, InState

LEMMA OthersKeepSupply ==
  ASSUME TypeOK, SupplyInv, Watcher \/ UNCHANGED events, UNCHANGED minterVars
  PROVE  SupplyInv'
  <1>1. UNCHANGED <<landed, afloat, pass, current, answer>>
    BY DEF minterVars, solanaVars, passVars
  <1>2. \A d \in Deposit : events'[d].state = "done" => events[d].state = "done"
    <2> USE DEF TypeOK
    <2>1. CASE UNCHANGED events
      BY <2>1
    <2>2. CASE \E e \in Deposit : ApplyRecord(e)
      BY <2>2 DEF ApplyRecord, RecordDeposit
    <2>3. CASE \E e \in Deposit : ApplyAbandon(e)
      BY <2>3 DEF ApplyAbandon, Abandon, Moved
    <2>4. CASE \E e \in Deposit : AbandonRefused(e)
      BY <2>4 DEF AbandonRefused
    <2>5. CASE AlertAndPromote
      BY <2>5 DEF AlertAndPromote, PromoteConfirmed
    <2> QED
      BY <2>1, <2>2, <2>3, <2>4, <2>5 DEF Watcher, PollWrites
  <1> QED
    BY <1>1, <1>2 DEF SupplyInv, InState, Minted

LEMMA CrashKeepsSupply == TypeOK /\ SupplyInv /\ Crash => SupplyInv'
  BY DEF Crash, TypeOK, SupplyInv, PassEnds, solanaVars, InState, Minted

LEMMA PassKeepsSupply ==
  ASSUME Definite, TypeOK, MinterInv, SupplyInv, Cluster \/ PassStep
  PROVE  SupplyInv'
  <1> USE MinterAssumption
      DEF TypeOK, SupplyInv, InState, Minted, solanaVars, passVars, PassEnds
  <1>1. ASSUME NEW request \in afloat, Land(request) PROVE SupplyInv'
    <2>1. IsFiniteSet(landed')
      BY <1>1, FS_AddElement DEF Land
    <2> QED
      BY <1>1, <2>1 DEF Land
  <1>2. CASE \E request \in afloat : Lose(request)
    BY <1>2 DEF Lose
  <1>3. CASE BeginPass
    BY <1>3 DEF BeginPass
  <1>4. CASE \E d \in Deposit, found \in BOOLEAN : FindMint(d, found)
    BY <1>4 DEF FindMint
  <1>5. CASE \E d \in Deposit : FindMintRaises(d)
    BY <1>5 DEF FindMintRaises, Unresolved
  <1>6. CASE Settle
    BY <1>6 DEF Settle, Settled, MarkDone, ReturnToQueue, Moved
  <1>7. CASE Blocked \/ PassReturns \/ \E d \in Deposit : IntentRefused(d)
    BY <1>7 DEF Blocked, PassReturns, IntentRefused
  <1>8. CASE Proceed
    BY <1>8 DEF Proceed
  <1>9. ASSUME NEW d \in Deposit, DeclareIntent(d) PROVE SupplyInv'
    <2> HIDE DEF TypeOK, SupplyInv, InState, Minted
    <2>1. /\ events' = Moved(d, "in_flight") /\ events[d].state # "done"
          /\ landed' = landed /\ afloat' = afloat /\ pass' = "intent"
      BY <1>9 DEF DeclareIntent, MarkInFlight
    <2>2. \A e \in Deposit :
              events'[e].state = IF e = d THEN "in_flight" ELSE events[e].state
      BY <2>1, MovedRow
    <2>3. InState({"done"})' = InState({"done"})
      BY <2>1, <2>2 DEF InState
    <2>4. \A e \in InState({"done"})' : Minted(e)'
      BY <2>1, <2>3 DEF SupplyInv, Minted
    <2> QED
      BY <2>1, <2>4 DEF SupplyInv
  <1>10. CASE CallMint
    <2>1. current \in Deposit /\ ~SentFor(current)
      BY <1>10 DEF CallMint, MinterInv, PassInv
    <2>2. <<current, attempts[current] + 1>> \notin landed
      BY <2>1 DEF SentFor, Sent
    <2> HIDE DEF TypeOK, SupplyInv, InState, Minted
    <2>3. /\ landed' = landed /\ events' = events /\ pass' = "awaiting"
          /\ afloat' = afloat \cup {<<current, attempts[current] + 1>>}
      BY <1>10 DEF CallMint
    <2>4. landed' \cap afloat' = {}
      BY <2>2, <2>3 DEF SupplyInv
    <2>5. \A d \in InState({"done"})' : Minted(d)'
      BY <2>3 DEF SupplyInv, InState, Minted
    <2> QED
      BY <2>3, <2>4, <2>5 DEF SupplyInv
  <1>11. CASE MintReturns
    BY <1>11 DEF MintReturns, ThisRequest
  <1>12. CASE MintRaises
    BY <1>12 DEF MintRaises, AfterError
  <1>13. CASE RecordMint
    BY <1>13 DEF RecordMint, MarkDone, Moved
  <1> QED
    BY <1>1, <1>2, <1>3, <1>4, <1>5, <1>6, <1>7, <1>8, <1>9, <1>10, <1>11, <1>12, <1>13
    DEF Cluster, PassStep

LEMMA SupplyCorrect == ASSUME Definite PROVE Spec => []SupplyInv
  <1>1. TypeOK /\ MinterInv /\ SupplyInv /\ [Next]_vars => SupplyInv'
    <2> SUFFICES ASSUME TypeOK, MinterInv, SupplyInv, [Next]_vars
                 PROVE  SupplyInv'
      OBVIOUS
    <2>1. CASE UNCHANGED vars
      BY <2>1, OthersKeepSupply DEF vars
    <2>2. CASE Next
      <3>1. CASE Chain /\ UNCHANGED <<events, minterVars, crashes>>
        BY <3>1, OthersKeepSupply
      <3>2. CASE \E a \in Address :
                   AllocateDepositAddress(a) /\ UNCHANGED <<events, minterVars, crashes>>
        BY <3>2, OthersKeepSupply
      <3>3. CASE (Watcher \/ CallFails) /\ UNCHANGED <<minterVars, crashes>>
        BY <3>3, OthersKeepSupply DEF CallFails
      <3>4. CASE Cluster \/ PassStep
        BY <3>4, PassKeepsSupply
      <3>5. CASE Crash
        BY <3>5, CrashKeepsSupply
      <3> QED
        BY <2>2, <3>1, <3>2, <3>3, <3>4, <3>5 DEF Next
    <2> QED
      BY <2>1, <2>2
  <1> QED
    BY <1>1, InitSupply, MinterCorrect, PTL DEF Spec

(* The mints that exist, counted by deposit. *)
LEMMA IssuedByDeposit ==
  ASSUME TypeOK, MinterInv, SupplyInv
  PROVE  /\ IsFiniteSet({d \in Deposit : Minted(d)})
         /\ Issued = SumOver(Amount, {d \in Deposit : Minted(d)})
  <1> DEFINE depositOf == [request \in landed |-> request[1]]
             f == [request \in landed |-> Amount[request[1]]]
             D == {depositOf[x] : x \in landed}
  <1>1. \A x \in landed : f[x] \in Int /\ Amount[depositOf[x]] = f[x]
    BY LedgerAssumption DEF TypeOK
  <1>2. \A x, y \in landed : depositOf[x] = depositOf[y] => x = y
    BY DEF MinterInv, OneRequest, Sent
  <1>3. D = {d \in Deposit : Minted(d)}
    BY DEF TypeOK, Minted
  <1>4. Issued = SumOver(f, landed)
    BY DEF Issued
  <1>5. IsFiniteSet(landed)
    BY DEF SupplyInv
  <1> HIDE DEF depositOf, f
  <1>6. IsFiniteSet(D) /\ SumOver(Amount, D) = SumOver(f, landed)
    BY <1>1, <1>2, <1>5, SumRenamed
  <1> QED
    BY <1>3, <1>4, <1>6

(* The books never claim more wrapped coins than exist, and while nothing  *)
(* is in flight they claim exactly those (wrapped_supply in ledger.py).    *)
THEOREM BooksAgree == ASSUME Definite PROVE Spec => []SupplyAgrees
  <1>1. TypeOK /\ MinterInv /\ SupplyInv => SupplyAgrees
    <2> SUFFICES ASSUME TypeOK, MinterInv, SupplyInv PROVE SupplyAgrees
      OBVIOUS
    <2> DEFINE M == {d \in Deposit : Minted(d)}
               done == InState({"done"})
    <2>1. IsFiniteSet(M) /\ Issued = SumOver(Amount, M)
      BY IssuedByDeposit
    <2>2. done \in SUBSET M /\ \A d \in M : Amount[d] \in Nat
      BY LedgerAssumption DEF SupplyInv, InState
    <2>3. InState({"in_flight"}) = {} => done = M
      BY <2>2 DEF MinterInv, MintedOnRecord, Minted, InState, TypeOK
    <2>4. WrappedSupply = SumOver(Amount, done)
      BY DEF WrappedSupply
    <2> HIDE DEF M, done
    <2>5. SumOver(Amount, done) <= SumOver(Amount, M)
      BY <2>1, <2>2, SumPart
    <2> QED
      BY <2>1, <2>3, <2>4, <2>5 DEF SupplyAgrees
  <1> QED
    BY <1>1, MinterCorrect, SupplyCorrect, PTL

(***************************************************************************)
(* The promise.                                                            *)
(***************************************************************************)

(* What an outsider sees of a deposit. *)
Seen(d) ==
    IF Minted(d) THEN "minted"
    ELSE CASE events[d].state = "absent" -> "unknown"
           [] events[d].state = "abandoned" -> "given up"
           [] OTHER -> "owed"

(* Steps that mint nothing: a row may be put on the books, or given up.    *)
LEMMA BooksMove ==
  ASSUME TypeOK, TypeOK', MinterInv, landed' = landed,
         \/ UNCHANGED events
         \/ \E d \in Deposit : ApplyRecord(d)
         \/ \E d \in Deposit : ApplyAbandon(d)
         \/ AlertAndPromote
         \/ Cluster \/ PassStep
  PROVE  Once!Next \/ UNCHANGED <<[d \in Deposit |-> Seen(d)], Issued>>
  <1> DEFINE S == [d \in Deposit |-> Seen(d)]
  <1>1. \A d \in Deposit : Minted(d)' = Minted(d)
    BY DEF Minted
  <1>2. Issued' = Issued
    BY DEF Issued
  <1>3. \A d \in Deposit : Minted(d) => events[d].state \in {"in_flight", "done"}
    BY DEF MinterInv, MintedOnRecord, Minted
  <1>4. ASSUME \A d \in Deposit :
                  /\ events'[d].state = "absent" <=> events[d].state = "absent"
                  /\ events'[d].state = "abandoned" <=> events[d].state = "abandoned"
        PROVE  S' = S
    BY <1>1, <1>4 DEF Seen
  <1>5. CASE UNCHANGED events
    BY <1>2, <1>4, <1>5
  <1>6. ASSUME NEW d \in Deposit, ApplyRecord(d) PROVE Once!Next \/ S' = S
    <2>1. CASE events[d].state = "absent"
      <3>1. events' = [events EXCEPT ![d] = [state |-> "pending", height |-> seen[d]]]
        BY <1>6, <2>1 DEF ApplyRecord, RecordDeposit
      <3>2. S' = [e \in Deposit |-> IF e \in {d} THEN "owed" ELSE S[e]]
        BY <1>1, <1>3, <2>1, <3>1 DEF Seen, TypeOK
      <3>3. S[d] = "unknown"
        BY <1>3, <2>1 DEF Seen
      <3>4. {d} \in SUBSET Deposit
        OBVIOUS
      <3>5. \A e \in {d} : S[e] = "unknown"
        BY <3>3
      <3> HIDE DEF S
      <3> QED
        BY <1>2, <3>2, <3>4, <3>5 DEF Once!Next, Once!Owe, S, Seen
    <2>2. CASE events[d].state # "absent"
      BY <1>4, <1>6, <2>2 DEF ApplyRecord, RecordDeposit
    <2> QED
      BY <2>1, <2>2
  <1>7. ASSUME NEW d \in Deposit, ApplyAbandon(d) PROVE Once!Next \/ S' = S
    <2>1. CASE events[d].state \in {"pending", "ready"}
      <3>1. events' = Moved(d, "abandoned")
        BY <1>7, <2>1 DEF ApplyAbandon, Abandon
      <3>2. ~Minted(d) /\ S[d] = "owed"
        BY <1>3, <2>1 DEF Seen
      <3>3. S' = [S EXCEPT ![d] = "given up"]
        <4>1. \A e \in Deposit :
                  events'[e].state = IF e = d THEN "abandoned" ELSE events[e].state
          BY <3>1, MovedRow
        <4>2. \A e \in Deposit : Seen(e)' = IF e = d THEN "given up" ELSE Seen(e)
          BY <1>1, <3>2, <4>1 DEF Seen
        <4> QED
          BY <4>2
      <3> QED
        BY <1>2, <3>2, <3>3 DEF Once!Next, Once!GiveUp, Seen
    <2>2. CASE events[d].state \notin {"pending", "ready"}
      <3>1. events' = events
        BY <1>7, <2>2 DEF ApplyAbandon, Abandon, Moved, TypeOK, State
      <3> QED
        BY <1>4, <3>1
    <2> QED
      BY <2>1, <2>2
  <1>8. CASE AlertAndPromote
    BY <1>2, <1>4, <1>8 DEF AlertAndPromote, PromoteConfirmed, TypeOK
  <1>9. CASE Cluster \/ PassStep
    <2>1. \A d \in Deposit :
             /\ events'[d].state = "absent" <=> events[d].state = "absent"
             /\ events'[d].state = "abandoned" => events[d].state = "abandoned"
             /\ events'[d].state \in {"ready", "in_flight", "done"} =>
                    events[d].state \in {"ready", "in_flight", "done"}
             /\ events'[d].state = "pending" => events[d].state = "pending"
             /\ events'[d].height = events[d].height
      BY <1>9, PassKeepsRows
    <2>2. \A d \in Deposit : events'[d].state \in State
      BY DEF TypeOK
    <2>3. S' = S
      BY <1>4, <2>1, <2>2 DEF State
    <2> QED
      BY <1>2, <2>3
  <1> QED
    BY <1>2, <1>5, <1>6, <1>7, <1>8, <1>9

(* A request lands: one deposit is minted, that was owed.                  *)
LEMMA LandingMints ==
  ASSUME TypeOK, MinterInv, SupplyInv, MinterInv', SupplyInv',
         NEW request \in afloat, Land(request)
  PROVE  Once!Next
  <1> DEFINE S == [d \in Deposit |-> Seen(d)]
             d == request[1]
             f == [r \in landed |-> Amount[r[1]]]
             g == [r \in landed' |-> Amount[r[1]]]
  <1>1. d \in Deposit /\ landed' = landed \cup {request} /\ request \notin landed /\ events' = events
    BY DEF Land, TypeOK, SupplyInv
  <1>2. \A other \in landed : other[1] # d
    BY <1>1 DEF MinterInv, OneRequest, Sent
  <1>3. ~Minted(d) /\ \A e \in Deposit : Minted(e)' = (Minted(e) \/ e = d)
    BY <1>1, <1>2 DEF Minted
  <1>4. events[d].state \in {"in_flight", "done"}
    BY DEF MinterInv, MintedOnRecord
  <1>5. S[d] = "owed" /\ S' = [S EXCEPT ![d] = "minted"]
    BY <1>1, <1>3, <1>4 DEF Seen
  <1>6. Issued' = Issued + Amount[d]
    <2>1. IsFiniteSet(landed)
      BY DEF SupplyInv
    <2>2. \A r \in landed \cup {request} : g[r] \in Int
      BY <1>1, LedgerAssumption DEF TypeOK
    <2>3. \A r \in landed : f[r] = g[r]
      BY <1>1
    <2>4. g[request] = Amount[d]
      BY <1>1
    <2>5. Issued = SumOver(f, landed) /\ Issued' = SumOver(g, landed')
      BY DEF Issued
    <2> HIDE DEF f, g, d
    <2>6. SumOver(g, landed \cup {request}) = SumOver(g, landed) + g[request]
      BY <1>1, <2>1, <2>2, SumAdd
    <2>7. SumOver(f, landed) = SumOver(g, landed)
      BY <2>1, <2>3, SumSame
    <2> QED
      BY <1>1, <2>4, <2>5, <2>6, <2>7
  <1> QED
    BY <1>1, <1>5, <1>6 DEF Once!Next, Once!Mint, Seen

(* Every step of the bridge is one of the promise, or none: each deposit   *)
(* is put on the books, then minted once or given up for good, and the     *)
(* supply grows by nothing else (bridge/ledger.py, minting.py).            *)
THEOREM PromiseHolds == ASSUME Definite PROVE Spec => PromiseKept
  <1> DEFINE S == [d \in Deposit |-> Seen(d)]
  <1>1. Init => Once!Init
    <2> SUFFICES ASSUME Init PROVE Once!Init
      OBVIOUS
    <2>1. landed = {} /\ \A d \in Deposit : ~Minted(d) /\ events[d].state = "absent"
      BY DEF Init, MinterInit, LedgerInit, Minted
    <2>2. Issued = 0
      BY <2>1, SumEmpty DEF Issued
    <2> QED
      BY <2>1, <2>2 DEF Once!Init
  <1>2. ASSUME TypeOK, TypeOK', MinterInv, SupplyInv, MinterInv', SupplyInv', [Next]_vars
        PROVE  Once!Next \/ UNCHANGED <<S, Issued>>
    <2>1. CASE \E request \in afloat : Land(request)
      BY <1>2, <2>1, LandingMints
    <2>2. CASE Cluster /\ ~\E request \in afloat : Land(request)
      BY <1>2, <2>2, BooksMove DEF Cluster, Lose
    <2>3. CASE PassStep
      <3>1. landed' = landed
        BY <2>3
        DEF PassStep, BeginPass, FindMint, FindMintRaises, Settle, IntentRefused, Blocked, Proceed,
            DeclareIntent, CallMint, MintReturns, MintRaises, RecordMint, PassReturns, solanaVars
      <3> QED
        BY <1>2, <2>3, <3>1, BooksMove
    <2>4. CASE Watcher /\ UNCHANGED <<minterVars, crashes>>
      BY <1>2, <2>4, BooksMove DEF Watcher, PollWrites, AbandonRefused, minterVars, solanaVars
    <2>5. CASE UNCHANGED <<events, landed>>
      BY <1>2, <2>5, BooksMove
    <2>6. UNCHANGED vars \/ Crash \/ Next => UNCHANGED <<events, landed>> \/ Cluster \/ PassStep
             \/ (Watcher /\ UNCHANGED <<minterVars, crashes>>)
      BY DEF Next, vars, Crash, CallFails, minterVars, solanaVars
    <2> QED
      BY <1>2, <2>1, <2>2, <2>3, <2>4, <2>5, <2>6
  <1>3. TypeOK /\ TypeOK' /\ MinterInv /\ SupplyInv /\ MinterInv' /\ SupplyInv' /\ [Next]_vars
          => [Once!Next]_<<S, Issued>>
    BY <1>2
  <1> QED
    BY <1>1, <1>3, MinterCorrect, SupplyCorrect, PTL DEF Spec, PromiseKept, Once!Spec, Seen
=============================================================================
