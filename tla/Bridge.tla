-------------------------------- MODULE Bridge --------------------------------
(***************************************************************************)
(* The bridge: the watcher and the minter at work on one ledger, between a *)
(* chain that can change its mind and a cluster that may not answer.       *)
(***************************************************************************)
EXTENDS BridgeWatcher, MintService

CONSTANT MaxCrashes    \* bound on deaths of the process

ASSUME CrashAssumption == MaxCrashes \in Nat

VARIABLE crashes

vars == <<events, watcherVars, minterVars, crashes>>

Init == LedgerInit /\ WatcherInit /\ MinterInit /\ crashes = 0

Chain ==
    \/ \E D \in SUBSET Deposit : MineBlock(D)
    \/ \E fork, top \in 0..MaxHeight : Reorganise(fork, top)

Watcher ==
    \/ PollReads /\ UNCHANGED events
    \/ PollWrites

Cluster == \E request \in afloat : Land(request) \/ Lose(request)

(* The process dies; the ledger, the chain and the cluster do not. *)
Crash ==
    /\ crashes < MaxCrashes
    /\ crashes' = crashes + 1
    /\ PollEnds /\ PassEnds
    /\ UNCHANGED <<events, chainVars, assigned, alerted, outages, solanaVars>>

Next ==
    \/ Chain /\ UNCHANGED <<events, minterVars, crashes>>
    \/ \E a \in Address :
        AllocateDepositAddress(a) /\ UNCHANGED <<events, minterVars, crashes>>
    \/ Watcher /\ UNCHANGED <<minterVars, crashes>>
    \/ CallFails /\ UNCHANGED <<minterVars, crashes>>
    \/ Cluster /\ UNCHANGED <<watcherVars, crashes>>
    \/ PassStep /\ UNCHANGED <<watcherVars, crashes>>
    \/ Crash

Spec == Init /\ [][Next]_vars

(* Both services are run again and again and their calls return; a request *)
(* does not travel for ever.                                               *)
FairSpec ==
    /\ Spec
    /\ WF_vars(Watcher /\ UNCHANGED <<minterVars, crashes>>)
    /\ WF_vars(PassStep /\ UNCHANGED <<watcherVars, crashes>>)
    /\ WF_vars(Cluster /\ UNCHANGED <<watcherVars, crashes>>)

-----------------------------------------------------------------------------
TypeOK ==
    /\ events \in [Deposit -> [state : State, height : 0..MaxHeight]]
    /\ tip \in 0..MaxHeight /\ placed \in [Deposit -> 0..MaxHeight]
    /\ reorgs \in 0..MaxReorgs /\ vanished \subseteq Deposit /\ buried \subseteq Deposit
    /\ assigned \subseteq Address /\ unread \subseteq assigned
    /\ stage \in {"idle", "destinations", "reading", "applying"}
    /\ tipHeight \in 0..MaxHeight /\ seen \in [Deposit -> 0..MaxHeight]
    /\ toRecord \subseteq Deposit /\ toAbandon \subseteq Deposit /\ toAlert \subseteq Deposit
    /\ alerted \subseteq Deposit
    /\ attempts \in [Deposit -> Nat] /\ failures \in Nat
    /\ afloat \subseteq Deposit \X Nat /\ landed \subseteq Deposit \X Nat
    /\ pass \in {"idle", "resolving", "settling", "minting", "intent", "awaiting", "recording"}
    /\ todo \subseteq Deposit /\ unresolved \subseteq Deposit /\ tried \subseteq Deposit
    /\ current \in IF pass \in {"settling", "intent", "awaiting", "recording"}
                   THEN Deposit ELSE {NoDeposit}
    /\ answer \in {"none", "signature"}
    /\ crashes \in 0..MaxCrashes /\ outages \in 0..MaxOutages

(* Mint twice for one deposit and there is unbacked wOBSD in circulation   *)
(* (bridge/ledger.py:3): no deposit is ever minted a second time, whatever *)
(* crashes, errors and lost answers come between.                          *)
MintedOnce == \A one, other \in landed : one[1] = other[1] => one = other

(* A mint that exists, or may come to exist, is never forgotten: the       *)
(* ledger holds its deposit as in flight or done until the end, so that    *)
(* neither an abandonment nor a new attempt can start from it.             *)
MintedOnRecord ==
    \A request \in landed \cup afloat : events[request[1]].state \in {"in_flight", "done"}

Issued == SumOver([request \in landed |-> Amount[request[1]]], landed)

(* wrapped_supply, the number an operator compares with the token's real   *)
(* supply, never claims more than exists, and while nothing is in flight   *)
(* it is exactly that.                                                     *)
SupplyAgrees ==
    /\ WrappedSupply <= Issued
    /\ InState({"in_flight"}) = {} => WrappedSupply = Issued

(* What an earlier pass, or a process that died, left unknown is settled   *)
(* before a pass mints anything: in flight is then only what this pass has *)
(* tried itself.  A mint of its own that raised does not stop it: see      *)
(* NothingBesideUnknown (run_once, minting.py:95-114).                     *)
EarlierResolvedFirst ==
    pass \in {"minting", "intent", "awaiting", "recording"} => InState({"in_flight"}) \subseteq tried

(* Only a deposit that a reorganisation took off the chain is given up,    *)
(* however the poll's questions interleave with the chain.                 *)
OnlyVanishedAbandoned == InState({"abandoned"}) \subseteq vanished

(* What is minted is a deposit (no mining reward, no dust), and, unless the *)
(* chain has reorganised, one that was Confirmations deep, although height *)
(* and outputs are read by separate calls.                                 *)
MintedWasBuried ==
    \A d \in Deposit : Minted(d) => Creditable(d) /\ (reorgs = 0 => d \in buried)

(* Done and abandoned are final, for every caller in every order.          *)
FinalStates ==
    [][\A d \in Deposit : events[d].state \in {"done", "abandoned"} => events'[d] = events[d]]_vars

Once == INSTANCE MintOnce WITH
    issued <- Issued,
    status <- [d \in Deposit |->
        IF Minted(d) THEN "minted"
        ELSE CASE events[d].state = "absent" -> "unknown"
               [] events[d].state = "abandoned" -> "given up"
               [] OTHER -> "owed"]

(* Seen from outside, every deposit is minted at most once, out of what is *)
(* owed, or given up for good, and the supply grows by nothing else.       *)
PromiseKept == Once!Spec

(* Buried, counted from the later of where it is and where the watcher saw *)
(* it first: a chain that never stops growing buries every deposit so.     *)
BuriedByAllCounts(d) ==
    placed[d] > 0 /\ Deep(d, tip, Max({placed[d], events[d].height}))

(* A deposit that stays on the chain is minted in the end, over crashes,   *)
(* lost requests, lost answers and reorganisations that spare it ("it must *)
(* not strand the deposit forever").                                       *)
BuriedIsMinted ==
    \A d \in Deposit :
        <>[](Creditable(d) /\ BuriedByAllCounts(d) /\ d \notin vanished) => <>Minted(d)

(* A deposit that vanishes although it was minted is brought before the    *)
(* operator, unless it comes back first.                                   *)
VanishedIsAlerted ==
    \A d \in Deposit : (Minted(d) /\ placed[d] = 0) ~> (d \in alerted \/ placed[d] > 0)

-----------------------------------------------------------------------------
(* "While any deposit's outcome is unknown, no other deposit is minted"    *)
(* (BRIDGE.md:158-160).                                                    *)
NothingBesideUnknown == pass = "awaiting" => InState({"in_flight"}) \subseteq {current}

(* "v1 waits 20 confirmations before minting" (BRIDGE.md), whatever the    *)
(* chain does.                                                             *)
WaitsConfirmations == \A d \in Deposit : Minted(d) => d \in buried

(* A reorganised deposit is treated "as never having happened" (BRIDGE.md): *)
(* mined again and buried for good, it is minted like any other.           *)
ReturnIsMinted ==
    \A d \in Deposit :
        <>[](Creditable(d) /\ BuriedByAllCounts(d)) => <>Minted(d)
=============================================================================
