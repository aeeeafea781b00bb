----------------------------- MODULE MintService -----------------------------
(***************************************************************************)
(* bridge/minting.py: one pass settles what is in flight by asking Solana, *)
(* and only then mints what is ready.  The cluster is known to the code    *)
(* only through mint and find_mint: a request travels, lands or is lost,   *)
(* and its caller may never hear which.                                    *)
(***************************************************************************)
EXTENDS BridgeLedger

CONSTANTS
    NoDeposit,
    Definite,         \* find_mint answers None only when no request can still land
    MaxFailures       \* bound on lost requests, lost answers and failed lookups

ASSUME MinterAssumption ==
    /\ NoDeposit \notin Deposit
    /\ Definite \in BOOLEAN
    /\ MaxFailures \in Nat

VARIABLES
    afloat, landed,   \* the cluster: requests under way; mints that exist
    attempts,         \* deposit -> mint calls so far; <<d, n>> is the nth request for d
    failures,
    pass,             \* where run_once has got to
    todo, current,    \* locals of its two loops
    answer,           \* what find_mint said of current
    unresolved,       \* MintReport.unresolved
    tried             \* history: what this pass has marked in flight

solanaVars == <<afloat, landed, attempts, failures>>
passVars == <<pass, todo, current, answer, unresolved, tried>>
minterVars == <<solanaVars, passVars>>

MinterInit ==
    /\ afloat = {} /\ landed = {} /\ failures = 0
    /\ attempts = [d \in Deposit |-> 0]
    /\ pass = "idle" /\ todo = {} /\ current = NoDeposit /\ answer = "none"
    /\ unresolved = {} /\ tried = {}

Minted(d) == \E request \in landed : request[1] = d

Outstanding(d) == \E request \in afloat : request[1] = d

-----------------------------------------------------------------------------
(* The cluster. *)

Land(request) ==
    /\ request \in afloat
    /\ afloat' = afloat \ {request}
    /\ landed' = landed \cup {request}
    /\ UNCHANGED <<attempts, failures, passVars, events>>

Lose(request) ==
    /\ request \in afloat /\ failures < MaxFailures
    /\ afloat' = afloat \ {request}
    /\ failures' = failures + 1
    /\ UNCHANGED <<landed, attempts, passVars, events>>

-----------------------------------------------------------------------------
(* _resolve_in_flight. *)

BeginPass ==
    /\ pass = "idle"
    /\ pass' = "resolving"
    /\ todo' = InState({"in_flight"})
    /\ unresolved' = {} /\ tried' = {}
    /\ UNCHANGED <<current, answer, solanaVars, events>>

FindMint(d, found) ==
    /\ pass = "resolving" /\ d \in todo
    /\ IF found THEN Minted(d) ELSE ~Minted(d) /\ (Definite => ~Outstanding(d))
    /\ pass' = "settling" /\ current' = d
    /\ answer' = IF found THEN "signature" ELSE "none"
    /\ UNCHANGED <<todo, unresolved, tried, solanaVars, events>>

UnresolvedDropped(d) == unresolved' = unresolved   \* mutant
Unresolved(d) == unresolved' = unresolved \cup {d}

(* The lookup raises: the cluster is out of reach, or cannot tell. *)
FindMintRaises(d) ==
    /\ pass = "resolving" /\ d \in todo
    /\ \/ Definite /\ ~Minted(d) /\ Outstanding(d) /\ UNCHANGED failures
       \/ failures < MaxFailures /\ failures' = failures + 1
    /\ Unresolved(d)
    /\ todo' = todo \ {d}
    /\ UNCHANGED <<pass, current, answer, tried, afloat, landed, attempts, events>>

SettledBlindly(d) == ReturnToQueue(d)   \* mutant
SettledIfFound(d) ==   \* mutant
    IF answer = "signature" THEN MarkDone(d) ELSE UNCHANGED events
Settled(d) == IF answer = "signature" THEN MarkDone(d) ELSE ReturnToQueue(d)

Settle ==
    /\ pass = "settling"
    /\ Settled(current)
    /\ todo' = todo \ {current}
    /\ pass' = "resolving" /\ current' = NoDeposit /\ answer' = "none"
    /\ UNCHANGED <<unresolved, tried, solanaVars>>

PassEnds ==
    /\ pass' = "idle" /\ todo' = {} /\ current' = NoDeposit /\ answer' = "none"
    /\ unresolved' = {} /\ tried' = {}

(* The report is blocked: this pass mints nothing. *)
Blocked ==
    /\ pass = "resolving" /\ todo = {} /\ unresolved # {}
    /\ PassEnds
    /\ UNCHANGED <<solanaVars, events>>

Proceed ==
    /\ pass = "resolving" /\ todo = {} /\ unresolved = {}
    /\ pass' = "minting"
    /\ todo' = InState({"ready"})
    /\ UNCHANGED <<current, answer, unresolved, tried, solanaVars, events>>

-----------------------------------------------------------------------------
(* _mint_one, over the list that actionable returned when the loop began.  *)

DeclareIntent(d) ==
    /\ pass = "minting" /\ d \in todo
    /\ MarkInFlight(d)
    /\ pass' = "intent" /\ current' = d
    /\ todo' = todo \ {d} /\ tried' = tried \cup {d}
    /\ UNCHANGED <<answer, unresolved, solanaVars>>

(* mark_in_flight raises out of run_once: the watcher gave the deposit up. *)
IntentRefused(d) ==
    /\ pass = "minting" /\ d \in todo
    /\ events[d].state \notin {"ready", "in_flight"}
    /\ PassEnds
    /\ UNCHANGED <<solanaVars, events>>

CallMint ==
    /\ pass = "intent"
    /\ pass' = "awaiting"
    /\ attempts' = [attempts EXCEPT ![current] = @ + 1]
    /\ afloat' = afloat \cup {<<current, attempts[current] + 1>>}
    /\ UNCHANGED <<todo, current, answer, unresolved, tried, landed, failures, events>>

ThisRequest == <<current, attempts[current]>>

MintReturns ==
    /\ pass = "awaiting" /\ ThisRequest \in landed
    /\ pass' = "recording"
    /\ UNCHANGED <<todo, current, answer, unresolved, tried, solanaVars, events>>

AfterErrorDone == MarkDone(current)   \* mutant
AfterError == UNCHANGED events

(* mint raises, or returns no signature, because the request was lost, or  *)
(* although it landed or may still land.  The deposit is left in flight    *)
(* and the loop goes on to the next one.                                   *)
MintRaises ==
    /\ pass = "awaiting"
    /\ \/ ThisRequest \notin afloat \cup landed /\ UNCHANGED failures
       \/ failures < MaxFailures /\ failures' = failures + 1
    /\ AfterError
    /\ pass' = "minting" /\ current' = NoDeposit
    /\ UNCHANGED <<todo, answer, unresolved, tried, afloat, landed, attempts>>

RecordMint ==
    /\ pass = "recording"
    /\ MarkDone(current)
    /\ pass' = "minting" /\ current' = NoDeposit
    /\ UNCHANGED <<todo, answer, unresolved, tried, solanaVars>>

PassReturns ==
    /\ pass = "minting" /\ todo = {}
    /\ PassEnds
    /\ UNCHANGED <<solanaVars, events>>

PassStep ==
    \/ BeginPass
    \/ \E d \in Deposit, found \in BOOLEAN : FindMint(d, found)
    \/ \E d \in Deposit : FindMintRaises(d) \/ DeclareIntent(d) \/ IntentRefused(d)
    \/ Settle \/ Blocked \/ Proceed
    \/ CallMint \/ MintReturns \/ MintRaises \/ RecordMint \/ PassReturns
=============================================================================
