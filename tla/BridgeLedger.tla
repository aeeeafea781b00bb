----------------------------- MODULE BridgeLedger -----------------------------
(***************************************************************************)
(* The deposits in the events table of bridge/ledger.py.  Every operation  *)
(* is one SQLite transaction, taken under the ledger's lock, and durable.  *)
(* A deposit is its outpoint.  Where the code raises, the operation has no *)
(* step; its callers say what the exception does to them.                  *)
(***************************************************************************)
EXTENDS Sums

CONSTANTS
    Deposit,         \* outpoints that pay, or may come to pay, the bridge
    Amount,          \* shards, by deposit
    Confirmations    \* blocks a deposit must be buried under

ASSUME LedgerAssumption ==
    /\ Confirmations \in Nat \ {0}
    /\ Amount \in [Deposit -> Nat \ {0}]

VARIABLE events      \* deposit -> its row; state "absent" is no row

State == {"absent", "pending", "ready", "in_flight", "done", "abandoned"}

InState(S) == {d \in Deposit : events[d].state \in S}

LedgerInit == events = [d \in Deposit |-> [state |-> "absent", height |-> 0]]

Moved(d, state) == [events EXCEPT ![d].state = state]

(* Re-seeing a deposit changes nothing, not even its height. *)
RecordDeposit(d, height) ==
    events' = IF events[d].state = "absent"
              THEN [events EXCEPT ![d] = [state |-> "pending", height |-> height]]
              ELSE events

BuriedEarly(d, tipHeight) ==   \* mutant
    tipHeight - events[d].height + 2 >= Confirmations
Buried(d, tipHeight) == tipHeight - events[d].height + 1 >= Confirmations

PromoteConfirmed(tipHeight) ==
    events' = [d \in Deposit |->
        IF events[d].state = "pending" /\ Buried(d, tipHeight)
        THEN [events[d] EXCEPT !.state = "ready"]
        ELSE events[d]]

MarkInFlightAny(d) == events' = Moved(d, "in_flight")   \* mutant
MarkInFlight(d) ==
    /\ events[d].state \in {"ready", "in_flight"}
    /\ events' = Moved(d, "in_flight")

MarkDone(d) ==
    /\ events[d].state \in {"ready", "in_flight", "done"}
    /\ events' = Moved(d, "done")

Abandon(d) ==
    /\ events[d].state \notin {"done", "in_flight"}
    /\ events' = IF events[d].state = "absent" THEN events ELSE Moved(d, "abandoned")

(* The bare UPDATE of _resolve_in_flight, which asks for no state. *)
ReturnToQueue(d) == events' = Moved(d, "ready")

WrappedSupply == SumOver(Amount, InState({"done"}))
=============================================================================
