---------------------------- MODULE BridgeWatcher ----------------------------
(***************************************************************************)
(* bridge/watcher.py: a poll asks the node for its height, then for the    *)
(* unspent outputs of each deposit address, then reads the ledger, decides *)
(* and applies.  Every question is a call of its own, and neither the      *)
(* chain nor the minter waits for the poll to end.                         *)
(***************************************************************************)
EXTENDS BridgeLedger

CONSTANTS
    Address,
    AddressOf,        \* deposit -> the address it pays
    Coinbase,         \* the outputs that are mining rewards
    MinimumShards,
    MaxHeight,        \* bound on the height of the chain
    MaxReorgs,        \* bound on reorganisations
    MaxOutages        \* bound on RPC calls that fail

ASSUME WatcherAssumption ==
    /\ AddressOf \in [Deposit -> Address]
    /\ MaxHeight \in Nat /\ MaxReorgs \in Nat /\ MaxOutages \in Nat

VARIABLES
    tip, placed,      \* the node: its height; deposit -> height, 0 if not on the active chain
    reorgs, vanished, \* history: reorganisations so far, deposits one of them took off
    buried,           \* history: deposits that have been Confirmations deep
    assigned,         \* table destinations: the addresses handed out
    stage, tipHeight, unread, seen,       \* locals of poll
    toRecord, toAbandon, toAlert,         \* Actions
    alerted,          \* deposits the operator was told about
    outages           \* RPC calls that failed

chainVars == <<tip, placed, reorgs, vanished, buried>>
pollVars == <<stage, tipHeight, unread, seen, toRecord, toAbandon, toAlert>>
watcherVars == <<chainVars, assigned, pollVars, alerted, outages>>

WatcherInit ==
    /\ tip = 0 /\ placed = [d \in Deposit |-> 0]
    /\ reorgs = 0 /\ vanished = {} /\ buried = {}
    /\ assigned = {} /\ alerted = {} /\ outages = 0
    /\ stage = "idle" /\ tipHeight = 0 /\ unread = {}
    /\ seen = [d \in Deposit |-> 0]
    /\ toRecord = {} /\ toAbandon = {} /\ toAlert = {}

-----------------------------------------------------------------------------
(* The node's chain, as getinfo and getaddressutxos show it.  *)

Deep(d, height, position) == position > 0 /\ height - position + 1 >= Confirmations

ChainBecomes(height, position) ==
    /\ tip' = height
    /\ placed' = position
    /\ buried' = buried \cup {d \in Deposit : Deep(d, height, position[d])}
    /\ vanished' = vanished \cup {d \in Deposit : placed[d] > 0 /\ position[d] = 0}
    /\ UNCHANGED <<assigned, pollVars, alerted, outages>>

(* Coins reach an address only after it was handed out. *)
MineBlock(D) ==
    /\ tip < MaxHeight
    /\ D \subseteq {d \in Deposit : placed[d] = 0 /\ AddressOf[d] \in assigned}
    /\ ChainBecomes(tip + 1, [d \in Deposit |-> IF d \in D THEN tip + 1 ELSE placed[d]])
    /\ UNCHANGED reorgs

(* The branch above height fork is replaced by one up to height top; what  *)
(* it held is mined again somewhere on the new branch, or not.             *)
Reorganise(fork, top) ==
    /\ reorgs < MaxReorgs
    /\ reorgs' = reorgs + 1
    /\ fork < tip /\ fork < top
    /\ \E moved \in [{d \in Deposit : placed[d] > fork} -> {0} \cup (fork + 1)..top] :
        ChainBecomes(top, [d \in Deposit |->
                              IF d \in DOMAIN moved THEN moved[d] ELSE placed[d]])

-----------------------------------------------------------------------------
(* allocate_deposit_address: getnewaddress never returns an address twice. *)
AllocateDepositAddress(a) ==
    /\ a \notin assigned
    /\ assigned' = assigned \cup {a}
    /\ UNCHANGED <<chainVars, pollVars, alerted, outages>>

GetInfo ==
    /\ stage = "idle"
    /\ stage' = "destinations"
    /\ tipHeight' = tip
    /\ UNCHANGED <<unread, seen, toRecord, toAbandon, toAlert>>
    /\ UNCHANGED <<chainVars, assigned, alerted, outages>>

ReadDestinations ==
    /\ stage = "destinations"
    /\ stage' = "reading"
    /\ unread' = assigned
    /\ UNCHANGED <<tipHeight, seen, toRecord, toAbandon, toAlert>>
    /\ UNCHANGED <<chainVars, assigned, alerted, outages>>

GetAddressUtxos(a) ==
    /\ stage = "reading" /\ a \in unread
    /\ unread' = unread \ {a}
    /\ seen' = [d \in Deposit |-> IF AddressOf[d] = a THEN placed[d] ELSE seen[d]]
    /\ UNCHANGED <<stage, tipHeight, toRecord, toAbandon, toAlert>>
    /\ UNCHANGED <<chainVars, assigned, alerted, outages>>

(* Mining rewards and dust are passed over. *)
Creditable(d) == d \notin Coinbase /\ Amount[d] >= MinimumShards

StillPresentNew ==   \* mutant
    {d \in Deposit : seen[d] > 0 /\ Creditable(d) /\ events[d].state = "absent"}
StillPresent == {d \in Deposit : seen[d] > 0 /\ Creditable(d)}

AlarmingInFlight == InState({"in_flight"}) \ StillPresent   \* mutant
Alarming == InState({"in_flight", "done"}) \ StillPresent

Reconcile ==
    /\ stage = "reading" /\ unread = {}
    /\ stage' = "applying"
    /\ toRecord' = StillPresent \cap InState({"absent"})
    /\ toAbandon' = InState({"pending", "ready"}) \ StillPresent
    /\ toAlert' = Alarming
    /\ UNCHANGED <<tipHeight, unread, seen, chainVars, assigned, alerted, outages>>

ApplyRecord(d) ==
    /\ stage = "applying" /\ d \in toRecord
    /\ RecordDeposit(d, seen[d])
    /\ toRecord' = toRecord \ {d}
    /\ UNCHANGED <<stage, tipHeight, unread, seen, toAbandon, toAlert>>
    /\ UNCHANGED <<chainVars, assigned, alerted, outages>>

ApplyAbandon(d) ==
    /\ stage = "applying" /\ toRecord = {} /\ d \in toAbandon
    /\ Abandon(d)
    /\ toAbandon' = toAbandon \ {d}
    /\ UNCHANGED <<stage, tipHeight, unread, seen, toRecord, toAlert>>
    /\ UNCHANGED <<chainVars, assigned, alerted, outages>>

(* The locals go with the call; what was applied so far stays. *)
PollEnds ==
    /\ stage' = "idle" /\ tipHeight' = 0
    /\ unread' = {} /\ seen' = [d \in Deposit |-> 0]
    /\ toRecord' = {} /\ toAbandon' = {} /\ toAlert' = {}

(* ... because the ledger refuses: meanwhile the deposit was handed to the *)
(* other chain.  No alert is raised and nothing is promoted by this poll.  *)
AbandonRefused(d) ==
    /\ stage = "applying" /\ toRecord = {} /\ d \in toAbandon
    /\ events[d].state \in {"done", "in_flight"}
    /\ PollEnds
    /\ UNCHANGED <<events, chainVars, assigned, alerted, outages>>

(* ... because the node does not answer. *)
CallFails ==
    /\ stage = "idle" \/ (stage = "reading" /\ unread # {})
    /\ outages < MaxOutages /\ outages' = outages + 1
    /\ PollEnds
    /\ UNCHANGED <<events, chainVars, assigned, alerted>>

AlertAndPromote ==
    /\ stage = "applying" /\ toRecord = {} /\ toAbandon = {}
    /\ alerted' = alerted \cup toAlert
    /\ PromoteConfirmed(tipHeight)
    /\ PollEnds
    /\ UNCHANGED <<chainVars, assigned, outages>>

(* The steps of a poll that only reads and decides. *)
PollReads ==
    \/ GetInfo
    \/ ReadDestinations
    \/ \E a \in Address : GetAddressUtxos(a)
    \/ Reconcile

PollWrites ==
    \/ \E d \in Deposit : ApplyRecord(d) \/ ApplyAbandon(d) \/ AbandonRefused(d)
    \/ AlertAndPromote
=============================================================================
