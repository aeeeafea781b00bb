-------------------------------- MODULE Upkeep --------------------------------
(***************************************************************************)
(* How one node stays connected: its address book, the addresses that did  *)
(* not answer, the hosts it has banned, the pings to silent peers and the  *)
(* dialling toward TARGET_OUTBOUND (p2p.py, _maintain and what it calls).  *)
(*                                                                         *)
(* The other hosts come and go.  A host is its address: each listens on    *)
(* one port, and tells that port in its version message.                   *)
(***************************************************************************)
EXTENDS Integers, FiniteSets

CONSTANTS
    Host,
    Self,               \* the node's own address, or no host at all
    Seeds,              \* the configured seeds
    TargetOutbound,
    Slot,               \* numbers for the connections there may be at a time
    MaxChanges          \* how often a host goes down, comes up, hangs up, is slow
                        \* or misbehaves

ASSUME HostAssumption == IsFiniteSet(Host)
ASSUME SeedsAssumption == Seeds \subseteq Host
ASSUME TargetAssumption == TargetOutbound \in Nat
ASSUME SlotAssumption == Slot \subseteq Nat /\ IsFiniteSet(Slot)
ASSUME ChangesAssumption == MaxChanges \in Nat

VARIABLES
    up,                 \* hosts that run a node and can be reached
    changes,
    conn,               \* the peers: a connection per slot, or None
    addrbook, failed, banned,
    phase,              \* what _maintain is doing
    left                \* the peers still to check, or addresses to dial

peerVars == <<conn, addrbook, failed, banned>>
vars == <<up, changes, conn, addrbook, failed, banned, phase, left>>

None == [host |-> "none"]

(* live: the other end still knows the connection.  told: its version      *)
(* message has been handled.  quiet: PING_AFTER_IDLE has passed since a    *)
(* message of its was read.  clogged: the send buffer is above its high-   *)
(* water mark, and whoever sends more waits in drain.  pinging: upkeep     *)
(* waits there to send it a ping.  unread: it has said something that its  *)
(* task has not read.  slow: since that task last read, it, or the task at *)
(* the other end, has had to wait in drain for a peer to take what it was  *)
(* sent: this one, or any other to which a block was announced.            *)
Peer(h, outbound) ==
    [host |-> h, outbound |-> outbound, live |-> TRUE, told |-> FALSE,
     quiet |-> FALSE, awaiting_pong |-> FALSE, clogged |-> FALSE,
     pinging |-> FALSE, unread |-> FALSE, slow |-> FALSE]

Peers == {c \in Slot : conn[c] # None}
Dropped(c) == [conn EXCEPT ![c] = None]

Outbound == {c \in Peers : conn[c].outbound}
Full == Cardinality(Outbound) >= TargetOutbound

IsFree(c) == c \in Slot \ Peers /\ \A d \in Slot \ Peers : c <= d

(* The addresses of the peers, as far as they have told them.              *)
Engaged == {conn[c].host : c \in {c \in Peers : conn[c].told}}

PeerRecord ==
    [host : Host, outbound : BOOLEAN, live : BOOLEAN, told : BOOLEAN,
     quiet : BOOLEAN, awaiting_pong : BOOLEAN, clogged : BOOLEAN,
     pinging : BOOLEAN, unread : BOOLEAN, slow : BOOLEAN]

TypeOK ==
    /\ up \subseteq Host /\ changes \in 0..MaxChanges
    /\ conn \in [Slot -> PeerRecord \cup {None}]
    /\ addrbook \subseteq Host /\ failed \subseteq Host /\ banned \subseteq Host
    /\ \/ phase = "sleep" /\ left = {}
       \/ phase \in {"check", "closing"} /\ left \subseteq Slot
       \/ phase = "dial" /\ left \subseteq Host

(* A node that boots dials its seeds before anything else.                 *)
Init ==
    /\ up \in SUBSET Host
    /\ Self \in Host => Self \in up
    /\ changes = 0
    /\ conn = [c \in Slot |-> None]
    /\ addrbook = {} /\ failed = {} /\ banned = {}
    /\ phase = "dial" /\ left = Seeds

--------------------------------------------------------------------------------
(* The other hosts and the network. *)

(* A host goes away without a word: TCP goes on holding the connections.   *)
GoesDown(h) ==
    /\ h \in up /\ h # Self /\ changes < MaxChanges
    /\ up' = up \ {h}
    /\ changes' = changes + 1
    /\ conn' = [c \in Slot |-> IF c \in Peers /\ conn[c].host = h
                               THEN [conn[c] EXCEPT !.live = FALSE] ELSE conn[c]]
    /\ UNCHANGED <<addrbook, failed, banned, phase, left>>

ComesUp(h) ==
    /\ h \notin up /\ changes < MaxChanges
    /\ up' = up \cup {h}
    /\ changes' = changes + 1
    /\ UNCHANGED <<peerVars, phase, left>>

(* A peer hangs up, and the read of its task fails.                        *)
HangsUp(c) ==
    /\ c \in Peers /\ conn[c].live /\ changes < MaxChanges
    /\ changes' = changes + 1
    /\ conn' = Dropped(c)
    /\ UNCHANGED <<up, addrbook, failed, banned, phase, left>>

(* More is sent to a peer than it takes: blocks to a slow one that asked   *)
(* for them, anything to one that is gone.                                 *)
Clogs(c) ==
    /\ c \in Peers /\ ~conn[c].clogged
    /\ IF conn[c].live
       THEN changes < MaxChanges /\ changes' = changes + 1
       ELSE UNCHANGED changes
    /\ conn' = [conn EXCEPT ![c].clogged = TRUE, ![c].slow = TRUE]
    /\ UNCHANGED <<up, addrbook, failed, banned, phase, left>>

(* A live peer has taken what it was sent; a ping that waited goes out.    *)
Drains(c) ==
    /\ c \in Peers /\ conn[c].live /\ conn[c].clogged
    /\ conn' = [conn EXCEPT ![c].clogged = FALSE, ![c].pinging = FALSE]
    /\ UNCHANGED <<up, changes, addrbook, failed, banned, phase, left>>

(* A handler has to wait in drain: here, for this peer or in a broadcast   *)
(* for another, or at the other end.  Until it goes on, nothing more is    *)
(* read from the connection.                                               *)
Stalls(c) ==
    /\ c \in Peers /\ conn[c].live /\ ~conn[c].slow /\ changes < MaxChanges
    /\ changes' = changes + 1
    /\ conn' = [conn EXCEPT ![c].slow = TRUE]
    /\ UNCHANGED <<up, addrbook, failed, banned, phase, left>>

(* What was sent is not acknowledged, and the kernel gives up on it.       *)
Breaks(c) ==
    /\ c \in Peers /\ ~conn[c].live
    /\ conn' = Dropped(c)
    /\ UNCHANGED <<up, changes, addrbook, failed, banned, phase, left>>

(* PING_AFTER_IDLE passes.                                                 *)
FallsQuiet(c) ==
    /\ c \in Peers /\ ~conn[c].quiet
    /\ conn' = [conn EXCEPT ![c].quiet = TRUE]
    /\ UNCHANGED <<up, changes, addrbook, failed, banned, phase, left>>

--------------------------------------------------------------------------------
(* What a peer says. *)

(* A host dials this node.  The code sets no limit to inbound peers; here  *)
(* they leave TargetOutbound slots free.                                   *)
_on_inbound(h, c) ==
    /\ h \in up /\ h # Self /\ h \notin banned
    /\ \A d \in Peers : conn[d].host = h => conn[d].outbound
    /\ Cardinality(Peers \ Outbound) < Cardinality(Slot) - TargetOutbound
    /\ IsFree(c)
    /\ conn' = [conn EXCEPT ![c] = Peer(h, FALSE)]
    /\ UNCHANGED <<up, changes, addrbook, failed, banned, phase, left>>

(* A live peer says something: its version, an answer, anything else.  It  *)
(* is left out where reading it would change nothing: a peer that is       *)
(* neither new nor quiet nor slow.                                         *)
Says(c) ==
    /\ c \in Peers /\ conn[c].live /\ ~conn[c].unread
    /\ ~conn[c].told \/ conn[c].quiet \/ conn[c].slow
    /\ conn' = [conn EXCEPT ![c].unread = TRUE]
    /\ UNCHANGED <<up, changes, addrbook, failed, banned, phase, left>>

(* Its task reads that, which takes until the handler of the message       *)
(* before has returned.  Any message shows that the peer is alive.         *)
Read(c) == [conn EXCEPT ![c].unread = FALSE, ![c].slow = FALSE]
HeardOnly(c) == [Read(c) EXCEPT ![c].quiet = FALSE]   \* mutant
Heard(c) == [Read(c) EXCEPT ![c].quiet = FALSE, ![c].awaiting_pong = FALSE]

Speaks(c) == c \in Peers /\ conn[c].unread

(* A ping, a pong, or anything that is of no concern here.                 *)
Message(c) ==
    /\ Speaks(c) /\ conn[c].told
    /\ conn' = Heard(c)
    /\ UNCHANGED <<up, changes, addrbook, failed, banned, phase, left>>

(* The node knows itself by the nonce.                                     *)
_handle_version(c) ==
    /\ Speaks(c) /\ ~conn[c].told
    /\ IF conn[c].host = Self
       THEN conn' = Dropped(c) /\ UNCHANGED addrbook
       ELSE /\ conn' = [Heard(c) EXCEPT ![c].told = TRUE]
            /\ addrbook' = addrbook \cup {conn[c].host}
    /\ UNCHANGED <<up, changes, failed, banned, phase, left>>

_handle_addr(c, h) ==
    /\ Speaks(c) /\ conn[c].told
    /\ h \notin banned /\ h \notin addrbook
    /\ addrbook' = addrbook \cup {h}
    /\ conn' = Heard(c)
    /\ UNCHANGED <<up, changes, failed, banned, phase, left>>

(* A peer reaches BAN_SCORE.  Only this connection is dropped.             *)
_misbehave(c) ==
    /\ Speaks(c) /\ conn[c].told /\ conn[c].host \notin banned
    /\ changes < MaxChanges
    /\ changes' = changes + 1
    /\ banned' = banned \cup {conn[c].host}
    /\ conn' = Dropped(c)
    /\ UNCHANGED <<up, addrbook, failed, phase, left>>

--------------------------------------------------------------------------------
(* The maintenance loop. *)

Unanswered(c) == conn[c].quiet /\ conn[c].awaiting_pong

(* A round begins MAINTENANCE_INTERVAL after the last: long enough for a   *)
(* peer that lives to send its version, or to answer a ping, and for that  *)
(* to be read, unless somebody had to wait in drain on the way.            *)
_maintain ==
    /\ phase = "sleep"
    /\ \A c \in Peers :
          conn[c].live /\ ~conn[c].slow => conn[c].told /\ ~Unanswered(c)
    /\ phase' = "check" /\ left' = Peers
    /\ UNCHANGED <<up, changes, peerVars>>

Waiting == \E c \in Peers : conn[c].pinging

(* The mark is set before the ping is sent, which may have to wait.        *)
PingedUnmarked(c) ==   \* mutant
    [conn EXCEPT ![c].pinging = conn[c].clogged,
                 ![c].slow = conn[c].slow \/ conn[c].clogged]
Pinged(c) ==
    [conn EXCEPT ![c].awaiting_pong = TRUE,
                 ![c].pinging = conn[c].clogged,
                 ![c].slow = conn[c].slow \/ conn[c].clogged]

(* One peer of the list.  A drop is waited for until the connection is     *)
(* closed.                                                                 *)
_check_liveness(c) ==
    /\ phase = "check" /\ c \in left /\ ~Waiting
    /\ left' = left \ {c}
    /\ \/ /\ c \in Peers => ~conn[c].quiet
          /\ UNCHANGED <<conn, phase>>
       \/ /\ c \in Peers /\ Unanswered(c)
          /\ conn' = Dropped(c)
          /\ phase' = "closing"
       \/ /\ c \in Peers /\ conn[c].quiet /\ ~conn[c].awaiting_pong
          /\ conn' = Pinged(c)
          /\ UNCHANGED phase
    /\ UNCHANGED <<up, changes, addrbook, failed, banned>>

Closed ==
    /\ phase = "closing"
    /\ phase' = "check"
    /\ UNCHANGED <<up, changes, peerVars, left>>

Fresh == addrbook \ (Engaged \cup failed \cup banned)
Fallback == Seeds \ Engaged

(* Nothing new to try: past failures are forgotten, and the seeds tried.   *)
RunDryOfAll == addrbook \ Engaged = {}   \* mutant
RunDry == Fresh = {}
Candidates == IF RunDry THEN Fallback ELSE Fresh

(* Some of the candidates, as many as are needed.                          *)
Chosen(S) ==
    LET needed == TargetOutbound - Cardinality(Outbound)
    IN  /\ S \subseteq Candidates
        /\ Cardinality(S) <= needed
        /\ Cardinality(S) < needed => S = Candidates

_top_up_outbound ==
    /\ phase = "check" /\ left = {} /\ ~Waiting
    /\ IF Full
       THEN phase' = "sleep" /\ left' = {} /\ UNCHANGED failed
       ELSE /\ phase' = "dial"
            /\ failed' = IF RunDry THEN {} ELSE failed
            /\ \E S \in SUBSET Host : Chosen(S) /\ left' = S
    /\ UNCHANGED <<up, changes, conn, addrbook, banned>>

connect(h, c) ==
    /\ phase = "dial" /\ h \in left
    /\ left' = left \ {h}
    /\ \/ /\ h \in up /\ IsFree(c)
          /\ conn' = [conn EXCEPT ![c] = Peer(h, TRUE)]
          /\ addrbook' = addrbook \cup {h}
          /\ failed' = failed \ {h}
       \/ /\ h \notin up
          /\ failed' = failed \cup {h}
          /\ UNCHANGED <<conn, addrbook>>
    /\ UNCHANGED <<up, changes, banned, phase>>

RoundEnds ==
    /\ phase = "dial" /\ left = {}
    /\ phase' = "sleep"
    /\ UNCHANGED <<up, changes, peerVars, left>>

Upkeeps ==
    \/ _maintain \/ Closed \/ _top_up_outbound \/ RoundEnds
    \/ \E c \in Slot : _check_liveness(c) \/ \E h \in Host : connect(h, c)

Next ==
    \/ Upkeeps
    \/ \E h \in Host : GoesDown(h) \/ ComesUp(h)
    \/ \E c \in Slot :
         \/ HangsUp(c) \/ Clogs(c) \/ Drains(c) \/ Breaks(c)
         \/ Stalls(c) \/ FallsQuiet(c)
         \/ Says(c) \/ Message(c) \/ _handle_version(c) \/ _misbehave(c)
         \/ \E h \in Host : _on_inbound(h, c) \/ _handle_addr(c, h)

Spec == Init /\ [][Next]_vars

(* The loop goes on as long as the node runs; a live peer takes what it is *)
(* sent, says its version, answers pings, and is read in the end; time     *)
(* passes; a connection that cannot deliver what was sent breaks.          *)
FairSpec ==
    /\ Spec
    /\ WF_vars(Upkeeps)
    /\ \A c \in Slot :
         /\ WF_vars(_handle_version(c)) /\ WF_vars(Message(c))
         /\ WF_vars(Says(c)) /\ WF_vars(Drains(c))
         /\ WF_vars(c \in Peers /\ ~conn[c].live /\ FallsQuiet(c))
         /\ WF_vars(c \in Peers /\ conn[c].clogged /\ Breaks(c))

--------------------------------------------------------------------------------
DroppedByUpkeep(c) == c \in Peers /\ conn'[c] = None /\ left' # left

(* Upkeep drops no peer that is alive and with which nobody had to wait:   *)
(* its task reads the answer to one ping before the next round, whatever   *)
(* the rounds wait for and whatever else is dropped (p2p.py:449).          *)
PromptPeersStay ==
    [][\A c \in Slot : DroppedByUpkeep(c) => ~conn[c].live \/ conn[c].slow]_vars

(* Only "a peer that has said nothing for PING_AFTER_IDLE" and "still      *)
(* nothing by the next round" is dropped (p2p.py:430).  It does not hold:  *)
(* what a peer said may wait to be read until after the next round.        *)
OnlySilentDropped ==
    [][\A c \in Slot : DroppedByUpkeep(c) => ~conn[c].unread]_vars

(* A peer that is gone gives its slot back (p2p.py:430).                   *)
SilentIsDropped ==
    \A c \in Slot : (c \in Peers /\ ~conn[c].live) ~> c \notin Peers

(* A seed that stays reachable is a peer again and again, however long it  *)
(* was away, unless enough others are (p2p.py:431).                        *)
SeedsComeBack ==
    \A h \in Seeds :
        <>[](h \in up) =>
            []<>(Full \/ \E c \in Peers : conn[c].host = h)
================================================================================
