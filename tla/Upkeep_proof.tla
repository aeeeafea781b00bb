----------------------------- MODULE Upkeep_proof -----------------------------
(***************************************************************************)
(* What Upkeep keeps for any hosts, seeds, slots and number of outbound    *)
(* peers: its types, which peers upkeep drops, how many outbound peers     *)
(* there are at most, and that every round comes to an end.                *)
(***************************************************************************)
EXTENDS Upkeep, FiniteSetTheorems, TLAPS

LEMMA NoneIsNoPeer == None \notin PeerRecord
  BY DEF None, PeerRecord

LEMMA PeerIsRecord ==
  ASSUME NEW h \in Host, NEW o \in BOOLEAN
  PROVE  Peer(h, o) \in PeerRecord
  BY DEF Peer, PeerRecord

LEMMA PeersAreRecords ==
  ASSUME TypeOK
  PROVE  /\ Peers \subseteq Slot
         /\ \A c \in Peers : conn[c] \in PeerRecord
  BY DEF TypeOK, Peers

LEMMA DroppedTyped ==
  ASSUME TypeOK, NEW c
  PROVE  Dropped(c) \in [Slot -> PeerRecord \cup {None}]
  BY DEF TypeOK, Dropped

(* The state of one peer changes in fields that tell whether it answers.   *)
LEMMA HeardTyped ==
  ASSUME TypeOK, NEW c \in Peers
  PROVE  /\ Heard(c) \in [Slot -> PeerRecord \cup {None}]
         /\ Pinged(c) \in [Slot -> PeerRecord \cup {None}]
         /\ [Heard(c) EXCEPT ![c].told = TRUE] \in [Slot -> PeerRecord \cup {None}]
         /\ [conn EXCEPT ![c].quiet = TRUE] \in [Slot -> PeerRecord \cup {None}]
         /\ [conn EXCEPT ![c].clogged = TRUE, ![c].slow = TRUE]
               \in [Slot -> PeerRecord \cup {None}]
         /\ [conn EXCEPT ![c].clogged = FALSE, ![c].pinging = FALSE]
               \in [Slot -> PeerRecord \cup {None}]
         /\ [conn EXCEPT ![c].slow = TRUE] \in [Slot -> PeerRecord \cup {None}]
         /\ [conn EXCEPT ![c].unread = TRUE] \in [Slot -> PeerRecord \cup {None}]
  <1>1. c \in Slot /\ conn[c] \in PeerRecord
    BY PeersAreRecords
  <1>2. conn \in [Slot -> PeerRecord \cup {None}]
    BY DEF TypeOK
  <1>3. Heard(c) \in [Slot -> PeerRecord \cup {None}] /\ Heard(c)[c] \in PeerRecord
    BY <1>1, <1>2 DEF Heard, Read, PeerRecord
  <1>4. [Heard(c) EXCEPT ![c].told = TRUE] \in [Slot -> PeerRecord \cup {None}]
    BY <1>1, <1>3 DEF PeerRecord
  <1>5. Pinged(c) \in [Slot -> PeerRecord \cup {None}]
    BY <1>1, <1>2 DEF Pinged, PeerRecord
  <1>6. /\ [conn EXCEPT ![c].quiet = TRUE] \in [Slot -> PeerRecord \cup {None}]
        /\ [conn EXCEPT ![c].slow = TRUE] \in [Slot -> PeerRecord \cup {None}]
        /\ [conn EXCEPT ![c].unread = TRUE] \in [Slot -> PeerRecord \cup {None}]
    BY <1>1, <1>2 DEF PeerRecord
  <1>7. [conn EXCEPT ![c].clogged = TRUE, ![c].slow = TRUE]
          \in [Slot -> PeerRecord \cup {None}]
    BY <1>1, <1>2 DEF PeerRecord
  <1>8. [conn EXCEPT ![c].clogged = FALSE, ![c].pinging = FALSE]
          \in [Slot -> PeerRecord \cup {None}]
    BY <1>1, <1>2 DEF PeerRecord
  <1> QED
    BY <1>3, <1>4, <1>5, <1>6, <1>7, <1>8

LEMMA TypeInit == Init => TypeOK
  <1> SUFFICES ASSUME Init PROVE TypeOK
    OBVIOUS
  <1>1. conn \in [Slot -> PeerRecord \cup {None}]
    BY DEF Init
  <1> QED
    BY <1>1, SeedsAssumption, ChangesAssumption DEF Init, TypeOK

LEMMA TypeStep == TypeOK /\ [Next]_vars => TypeOK'
  <1> SUFFICES ASSUME TypeOK, [Next]_vars PROVE TypeOK'
    OBVIOUS
  <1>1. ASSUME NEW h \in Host, GoesDown(h) PROVE TypeOK'
    <2>1. conn' \in [Slot -> PeerRecord \cup {None}]
      <3>1. ASSUME NEW c \in Slot
            PROVE  (IF c \in Peers /\ conn[c].host = h
                    THEN [conn[c] EXCEPT !.live = FALSE] ELSE conn[c])
                      \in PeerRecord \cup {None}
        <4>1. CASE c \in Peers
          BY <4>1, PeersAreRecords DEF PeerRecord
        <4>2. CASE c \notin Peers
          BY <4>2 DEF TypeOK
        <4> QED BY <4>1, <4>2
      <3> QED BY <1>1, <3>1 DEF GoesDown
    <2> QED BY <1>1, <2>1, ChangesAssumption DEF GoesDown, TypeOK
  <1>2. ASSUME NEW h \in Host, ComesUp(h) PROVE TypeOK'
    BY <1>2, ChangesAssumption DEF ComesUp, TypeOK, peerVars
  <1>3. ASSUME NEW c \in Slot, HangsUp(c) PROVE TypeOK'
    BY <1>3, DroppedTyped, ChangesAssumption DEF HangsUp, TypeOK
  <1>4. ASSUME NEW c \in Slot, Clogs(c) PROVE TypeOK'
    <2>1. conn' \in [Slot -> PeerRecord \cup {None}]
      BY <1>4, HeardTyped DEF Clogs
    <2>2. changes' \in 0..MaxChanges
      BY <1>4, ChangesAssumption DEF Clogs, TypeOK
    <2> QED BY <1>4, <2>1, <2>2 DEF Clogs, TypeOK
  <1>4d. ASSUME NEW c \in Slot, Drains(c) PROVE TypeOK'
    BY <1>4d, HeardTyped DEF Drains, TypeOK
  <1>4s. ASSUME NEW c \in Slot, Stalls(c) PROVE TypeOK'
    <2>1. conn' \in [Slot -> PeerRecord \cup {None}]
      BY <1>4s, HeardTyped DEF Stalls
    <2>2. changes' \in 0..MaxChanges
      BY <1>4s, ChangesAssumption DEF Stalls, TypeOK
    <2> QED BY <1>4s, <2>1, <2>2 DEF Stalls, TypeOK
  <1>8s. ASSUME NEW c \in Slot, Says(c) PROVE TypeOK'
    BY <1>8s, HeardTyped DEF Says, TypeOK
  <1>5. ASSUME NEW c \in Slot, Breaks(c) PROVE TypeOK'
    BY <1>5, DroppedTyped DEF Breaks, TypeOK
  <1>6. ASSUME NEW c \in Slot, FallsQuiet(c) PROVE TypeOK'
    BY <1>6, HeardTyped DEF FallsQuiet, TypeOK
  <1>7. ASSUME NEW h \in Host, NEW c \in Slot, _on_inbound(h, c) PROVE TypeOK'
    <2>1. conn' \in [Slot -> PeerRecord \cup {None}]
      BY <1>7, PeerIsRecord DEF _on_inbound, TypeOK
    <2> QED BY <1>7, <2>1 DEF _on_inbound, TypeOK
  <1>8. ASSUME NEW c \in Slot, Message(c) PROVE TypeOK'
    BY <1>8, HeardTyped DEF Message, Speaks, TypeOK
  <1>9. ASSUME NEW c \in Slot, _handle_version(c) PROVE TypeOK'
    <2>1. c \in Peers /\ conn[c].host \in Host
      BY <1>9, PeersAreRecords DEF _handle_version, Speaks, PeerRecord
    <2>2. conn' \in [Slot -> PeerRecord \cup {None}]
      <3>1. CASE conn[c].host = Self
        BY <1>9, <3>1, DroppedTyped DEF _handle_version
      <3>2. CASE conn[c].host # Self
        <4>1. [Heard(c) EXCEPT ![c].told = TRUE] \in [Slot -> PeerRecord \cup {None}]
          BY <2>1, HeardTyped
        <4>2. conn' = [Heard(c) EXCEPT ![c].told = TRUE]
          BY <1>9, <3>2 DEF _handle_version
        <4> QED BY <4>1, <4>2
      <3> QED BY <3>1, <3>2
    <2> QED BY <1>9, <2>1, <2>2 DEF _handle_version, TypeOK
  <1>10. ASSUME NEW h \in Host, NEW c \in Slot, _handle_addr(c, h) PROVE TypeOK'
    BY <1>10, HeardTyped DEF _handle_addr, Speaks, TypeOK
  <1>11. ASSUME NEW c \in Slot, _misbehave(c) PROVE TypeOK'
    <2>1. conn[c].host \in Host
      BY <1>11, PeersAreRecords DEF _misbehave, Speaks, PeerRecord
    <2> QED BY <1>11, <2>1, DroppedTyped, ChangesAssumption DEF _misbehave, TypeOK
  <1>12. CASE _maintain
    BY <1>12, PeersAreRecords DEF _maintain, TypeOK, peerVars
  <1>13. ASSUME NEW c \in Slot, _check_liveness(c) PROVE TypeOK'
    <2>1. conn' \in [Slot -> PeerRecord \cup {None}]
      <3>1. CASE UNCHANGED conn
        BY <3>1 DEF TypeOK
      <3>2. CASE conn' = Dropped(c)
        BY <3>2, DroppedTyped
      <3>3. CASE c \in Peers /\ conn' = Pinged(c)
        BY <3>3, HeardTyped
      <3> QED BY <1>13, <3>1, <3>2, <3>3 DEF _check_liveness
    <2> QED BY <1>13, <2>1 DEF _check_liveness, TypeOK
  <1>13c. CASE Closed
    BY <1>13c DEF Closed, TypeOK, peerVars
  <1>14. CASE _top_up_outbound
    <2>1. failed' \subseteq Host
      BY <1>14 DEF _top_up_outbound, TypeOK
    <2>2. \/ phase' = "sleep" /\ left' = {}
          \/ phase' = "dial" /\ left' \subseteq Host
      BY <1>14 DEF _top_up_outbound
    <2> QED BY <1>14, <2>1, <2>2 DEF _top_up_outbound, TypeOK
  <1>15. ASSUME NEW h \in Host, NEW c \in Slot, connect(h, c) PROVE TypeOK'
    <2>1. conn' \in [Slot -> PeerRecord \cup {None}]
      BY <1>15, PeerIsRecord DEF connect, TypeOK
    <2>2. addrbook' \subseteq Host /\ failed' \subseteq Host
      BY <1>15 DEF connect, TypeOK
    <2> QED BY <1>15, <2>1, <2>2 DEF connect, TypeOK
  <1>16. CASE RoundEnds
    BY <1>16 DEF RoundEnds, TypeOK, peerVars
  <1>17. CASE UNCHANGED vars
    BY <1>17 DEF vars, TypeOK
  <1> QED
    BY <1>1, <1>2, <1>3, <1>4, <1>4d, <1>4s, <1>5, <1>6, <1>7, <1>8, <1>8s, <1>9,
       <1>10, <1>11, <1>12, <1>13, <1>13c, <1>14, <1>15, <1>16, <1>17
       DEF Next, Upkeeps

(* The address book, the failed and banned hosts, the peers and the loop's *)
(* list are what they are meant to be (p2p.py:304-347, 421-483).           *)
THEOREM TypeCorrect == Spec => []TypeOK
  <1>1. Init => TypeOK
    BY TypeInit
  <1>2. TypeOK /\ [Next]_vars => TypeOK'
    BY TypeStep
  <1> QED BY <1>1, <1>2, PTL DEF Spec

--------------------------------------------------------------------------------
(* While a round checks, a live peer still on its list cannot owe an       *)
(* answer unless somebody had to wait: it was pinged in an earlier round   *)
(* and has been heard since.                                               *)
PingedIsQuiet == \A c \in Peers : conn[c].awaiting_pong => conn[c].quiet

NoneOwes ==
    phase \in {"check", "closing"} =>
        \A c \in left \cap Peers : conn[c].live /\ ~conn[c].slow => ~Unanswered(c)

Answering == TypeOK /\ PingedIsQuiet /\ NoneOwes

(* A step that changes one peer, keeping or clearing what it owes.         *)
LEMMA PeerStep ==
  ASSUME Answering, NEW c \in Slot,
         \/ phase' = phase
         \/ {phase, phase'} \subseteq {"check", "closing"},
         left' \subseteq left,
         \A d \in Slot \ {c} : conn'[d] = conn[d],
         \/ c \notin Peers'
         \/ /\ c \in Peers'
            /\ conn'[c].awaiting_pong => conn'[c].quiet
            /\ phase' \in {"check", "closing"} /\ c \in left' =>
                  ~(conn'[c].quiet /\ conn'[c].awaiting_pong)
                     \/ ~conn'[c].live \/ conn'[c].slow,
         Peers' \subseteq Slot
  PROVE  PingedIsQuiet' /\ NoneOwes'
  <1>1. \A d \in Peers' \ {c} : d \in Peers /\ conn'[d] = conn[d]
    BY DEF Peers
  <1>2. PingedIsQuiet'
    BY <1>1 DEF Answering, PingedIsQuiet
  <1>3. NoneOwes'
    BY <1>1 DEF Answering, NoneOwes, Unanswered
  <1> QED BY <1>2, <1>3

LEMMA AnsweringInit == Init => Answering
  <1> SUFFICES ASSUME Init PROVE Answering
    OBVIOUS
  <1>1. Peers = {}
    BY DEF Init, Peers
  <1> QED BY <1>1, TypeInit DEF Init, Answering, PingedIsQuiet, NoneOwes

LEMMA AnsweringStep == Answering /\ [Next]_vars => Answering'
  <1> SUFFICES ASSUME Answering, [Next]_vars PROVE PingedIsQuiet' /\ NoneOwes'
    BY TypeStep DEF Answering
  <1>t. TypeOK /\ TypeOK'
    BY TypeStep DEF Answering
  <1>p. /\ Peers \subseteq Slot /\ Peers' \subseteq Slot
        /\ \A c \in Peers : conn[c] \in PeerRecord
        /\ DOMAIN conn = Slot
    BY <1>t DEF TypeOK, Peers
  <1>r. \A c \in Peers : conn[c].awaiting_pong => conn[c].quiet
    BY DEF Answering, PingedIsQuiet
  <1>f. ASSUME NEW c \in Slot, conn' = Dropped(c) PROVE c \notin Peers'
    BY <1>f, <1>p DEF Dropped, Peers
  <1>1. ASSUME NEW h \in Host, GoesDown(h) PROVE PingedIsQuiet' /\ NoneOwes'
    <2>1. \A c \in Peers' :
             /\ c \in Peers
             /\ conn'[c].quiet = conn[c].quiet
             /\ conn'[c].awaiting_pong = conn[c].awaiting_pong
             /\ conn'[c].live => conn[c].live
             /\ conn'[c].slow = conn[c].slow
      BY <1>1, <1>p DEF GoesDown, Peers, PeerRecord
    <2> QED BY <1>1, <2>1 DEF GoesDown, Answering, PingedIsQuiet, NoneOwes, Unanswered
  <1>2. ASSUME NEW h \in Host, ComesUp(h) PROVE PingedIsQuiet' /\ NoneOwes'
    BY <1>2 DEF ComesUp, peerVars, Answering, PingedIsQuiet, NoneOwes, Unanswered, Peers
  <1>3. ASSUME NEW c \in Slot, HangsUp(c) PROVE PingedIsQuiet' /\ NoneOwes'
    BY <1>3, <1>f, <1>p, PeerStep DEF HangsUp, Dropped
  <1>k. ASSUME NEW c \in Peers, phase' = phase, left' = left,
               \A d \in Slot \ {c} : conn'[d] = conn[d],
               conn'[c].quiet = conn[c].quiet,
               conn'[c].awaiting_pong = conn[c].awaiting_pong,
               conn'[c].live = conn[c].live,
               conn[c].slow => conn'[c].slow
        PROVE  PingedIsQuiet' /\ NoneOwes'
    <2>1. conn'[c].awaiting_pong => conn'[c].quiet
      BY <1>k, <1>r
    <2>2. phase' \in {"check", "closing"} /\ c \in left' =>
             ~(conn'[c].quiet /\ conn'[c].awaiting_pong)
                \/ ~conn'[c].live \/ conn'[c].slow
      BY <1>k DEF Answering, NoneOwes, Unanswered
    <2> QED BY <1>k, <1>p, <2>1, <2>2, PeerStep
  <1>4. ASSUME NEW c \in Slot, Clogs(c) PROVE PingedIsQuiet' /\ NoneOwes'
    <2>1. /\ conn'[c].quiet = conn[c].quiet
          /\ conn'[c].awaiting_pong = conn[c].awaiting_pong
          /\ conn'[c].live = conn[c].live
          /\ conn'[c].slow
          /\ \A d \in Slot \ {c} : conn'[d] = conn[d]
      BY <1>4, <1>p DEF Clogs, PeerRecord
    <2> QED BY <1>4, <1>k, <2>1 DEF Clogs
  <1>4d. ASSUME NEW c \in Slot, Drains(c) PROVE PingedIsQuiet' /\ NoneOwes'
    <2>1. /\ conn'[c].quiet = conn[c].quiet
          /\ conn'[c].awaiting_pong = conn[c].awaiting_pong
          /\ conn'[c].live = conn[c].live
          /\ conn'[c].slow = conn[c].slow
          /\ \A d \in Slot \ {c} : conn'[d] = conn[d]
      BY <1>4d, <1>p DEF Drains, PeerRecord
    <2> QED BY <1>4d, <1>k, <2>1 DEF Drains
  <1>4s. ASSUME NEW c \in Slot, Stalls(c) PROVE PingedIsQuiet' /\ NoneOwes'
    <2>1. /\ conn'[c].quiet = conn[c].quiet
          /\ conn'[c].awaiting_pong = conn[c].awaiting_pong
          /\ conn'[c].live = conn[c].live
          /\ conn'[c].slow
          /\ \A d \in Slot \ {c} : conn'[d] = conn[d]
      BY <1>4s, <1>p DEF Stalls, PeerRecord
    <2> QED BY <1>4s, <1>k, <2>1 DEF Stalls
  <1>8s. ASSUME NEW c \in Slot, Says(c) PROVE PingedIsQuiet' /\ NoneOwes'
    <2>1. /\ conn'[c].quiet = conn[c].quiet
          /\ conn'[c].awaiting_pong = conn[c].awaiting_pong
          /\ conn'[c].live = conn[c].live
          /\ conn'[c].slow = conn[c].slow
          /\ \A d \in Slot \ {c} : conn'[d] = conn[d]
      BY <1>8s, <1>p DEF Says, PeerRecord
    <2> QED BY <1>8s, <1>k, <2>1 DEF Says
  <1>5. ASSUME NEW c \in Slot, Breaks(c) PROVE PingedIsQuiet' /\ NoneOwes'
    BY <1>5, <1>f, <1>p, PeerStep DEF Breaks, Dropped
  <1>6. ASSUME NEW c \in Slot, FallsQuiet(c) PROVE PingedIsQuiet' /\ NoneOwes'
    <2>1. conn'[c].quiet /\ conn'[c].awaiting_pong = conn[c].awaiting_pong
      BY <1>6, <1>p DEF FallsQuiet, PeerRecord
    <2>2. c \in Peers /\ ~conn[c].quiet
      BY <1>6 DEF FallsQuiet
    <2>3. ~conn'[c].awaiting_pong
      BY <1>r, <2>1, <2>2
    <2> QED BY <1>6, <1>p, <2>1, <2>2, <2>3, PeerStep DEF FallsQuiet, Unanswered
  <1>7. ASSUME NEW h \in Host, NEW c \in Slot, _on_inbound(h, c)
        PROVE PingedIsQuiet' /\ NoneOwes'
    <2>1. ~conn'[c].awaiting_pong
      BY <1>7, <1>p DEF _on_inbound, Peer
    <2> QED BY <1>7, <1>p, <2>1, PeerStep DEF _on_inbound, Unanswered
  <1>h. ASSUME NEW c \in Peers
        PROVE  /\ ~Heard(c)[c].awaiting_pong
               /\ ~[Heard(c) EXCEPT ![c].told = TRUE][c].awaiting_pong
               /\ \A d \in Slot \ {c} : /\ Heard(c)[d] = conn[d]
                                      /\ [Heard(c) EXCEPT ![c].told = TRUE][d] = conn[d]
    BY <1>p DEF Heard, Read, PeerRecord
  <1>8. ASSUME NEW c \in Slot, Message(c) PROVE PingedIsQuiet' /\ NoneOwes'
    BY <1>8, <1>h, <1>p, PeerStep DEF Message, Speaks, Unanswered
  <1>9. ASSUME NEW c \in Slot, _handle_version(c) PROVE PingedIsQuiet' /\ NoneOwes'
    <2>1. CASE conn' = Dropped(c)
      BY <1>9, <2>1, <1>f, <1>p, PeerStep DEF _handle_version, Dropped
    <2>2. CASE conn' = [Heard(c) EXCEPT ![c].told = TRUE]
      BY <1>9, <2>2, <1>h, <1>p, PeerStep DEF _handle_version, Speaks, Unanswered
    <2> QED BY <1>9, <2>1, <2>2 DEF _handle_version
  <1>10. ASSUME NEW h \in Host, NEW c \in Slot, _handle_addr(c, h)
         PROVE PingedIsQuiet' /\ NoneOwes'
    BY <1>10, <1>h, <1>p, PeerStep DEF _handle_addr, Speaks, Unanswered
  <1>11. ASSUME NEW c \in Slot, _misbehave(c) PROVE PingedIsQuiet' /\ NoneOwes'
    BY <1>11, <1>f, <1>p, PeerStep DEF _misbehave, Dropped
  <1>12. CASE _maintain
    BY <1>12, <1>p DEF _maintain, peerVars, Answering, PingedIsQuiet, NoneOwes, Unanswered, Peers
  <1>13. ASSUME NEW c \in Slot, _check_liveness(c) PROVE PingedIsQuiet' /\ NoneOwes'
    <2>0. /\ left' = left \ {c}
          /\ phase = "check" /\ phase' \in {"check", "closing"}
      BY <1>13 DEF _check_liveness
    <2>1. CASE UNCHANGED conn
      BY <2>0, <2>1 DEF Answering, PingedIsQuiet, NoneOwes, Unanswered, Peers
    <2>2. CASE conn' = Dropped(c)
      BY <2>0, <2>2, <1>f, <1>p, PeerStep DEF Dropped
    <2>3. CASE c \in Peers /\ conn[c].quiet /\ conn' = Pinged(c)
      <3>1. /\ conn'[c].quiet
            /\ \A d \in Slot \ {c} : conn'[d] = conn[d]
        BY <2>3, <1>p DEF Pinged, PeerRecord
      <3> QED BY <2>0, <3>1, <1>p, PeerStep
    <2> QED BY <1>13, <2>1, <2>2, <2>3 DEF _check_liveness
  <1>13c. CASE Closed
    BY <1>13c DEF Closed, peerVars, Answering, PingedIsQuiet, NoneOwes, Unanswered, Peers
  <1>14. CASE _top_up_outbound
    BY <1>14 DEF _top_up_outbound, Answering, PingedIsQuiet, NoneOwes, Peers
  <1>15. ASSUME NEW h \in Host, NEW c \in Slot, connect(h, c)
         PROVE PingedIsQuiet' /\ NoneOwes'
    <2>1. CASE UNCHANGED conn
      BY <1>15, <2>1 DEF connect, Answering, PingedIsQuiet, NoneOwes, Peers
    <2>2. CASE conn' = [conn EXCEPT ![c] = Peer(h, TRUE)]
      <3>1. ~conn'[c].awaiting_pong
        BY <2>2, <1>p DEF Peer
      <3> QED BY <1>15, <2>2, <3>1, <1>p, PeerStep DEF connect, Unanswered
    <2> QED BY <1>15, <2>1, <2>2 DEF connect
  <1>16. CASE RoundEnds
    BY <1>16 DEF RoundEnds, peerVars, Answering, PingedIsQuiet, NoneOwes, Peers
  <1>17. CASE UNCHANGED vars
    BY <1>17 DEF vars, Answering, PingedIsQuiet, NoneOwes, Unanswered, Peers
  <1> QED
    BY <1>1, <1>2, <1>3, <1>4, <1>4d, <1>4s, <1>5, <1>6, <1>7, <1>8, <1>8s, <1>9,
       <1>10, <1>11, <1>12, <1>13, <1>13c, <1>14, <1>15, <1>16, <1>17
       DEF Next, Upkeeps

LEMMA PromptStep ==
  ASSUME Answering, [Next]_vars, NEW c \in Slot, DroppedByUpkeep(c)
  PROVE  ~conn[c].live \/ conn[c].slow
  <1>p. /\ conn \in [Slot -> PeerRecord \cup {None}]
        /\ c \in Peers /\ conn[c] # None
        /\ conn'[c] = None /\ left' # left
    BY DEF DroppedByUpkeep, Answering, TypeOK, Peers
  <1>1. CASE _maintain
    BY <1>1, <1>p DEF _maintain, peerVars
  <1>2. ASSUME NEW d \in Slot, _check_liveness(d)
        PROVE  ~conn[c].live \/ conn[c].slow
    <2>1. CASE UNCHANGED conn
      BY <2>1, <1>p
    <2>2. CASE d \in Peers /\ Unanswered(d) /\ conn' = Dropped(d)
      <3>1. c = d
        BY <2>2, <1>p DEF Dropped
      <3> QED BY <1>2, <2>2, <3>1 DEF _check_liveness, Answering, NoneOwes
    <2>3. CASE d \in Peers /\ conn' = Pinged(d)
      <3>1. Pinged(d) \in [Slot -> PeerRecord \cup {None}]
        BY <2>3, HeardTyped DEF Answering
      <3>2. CASE c = d
        <4>1. conn[c] \in PeerRecord
          BY <2>3, <3>2, PeersAreRecords DEF Answering
        <4>2. Pinged(d)[c] \in PeerRecord
          BY <1>p, <3>2, <4>1 DEF Pinged, PeerRecord
        <4> QED BY <1>p, <2>3, <4>2, NoneIsNoPeer
      <3>3. CASE c # d
        BY <1>p, <2>3, <3>3 DEF Pinged
      <3> QED BY <3>2, <3>3
    <2> QED BY <1>2, <2>1, <2>2, <2>3 DEF _check_liveness
  <1>3. CASE _top_up_outbound
    BY <1>3, <1>p DEF _top_up_outbound
  <1>4. ASSUME NEW h \in Host, NEW d \in Slot, connect(h, d)
        PROVE  ~conn[c].live \/ conn[c].slow
    <2>1. Peer(h, TRUE) # None
      BY PeerIsRecord, NoneIsNoPeer
    <2> QED BY <1>4, <1>p, <2>1 DEF connect
  <1>5. CASE UNCHANGED left
    BY <1>5, <1>p
  <1> QED
    BY <1>1, <1>2, <1>3, <1>4, <1>5
       DEF Next, Upkeeps, GoesDown, ComesUp, HangsUp, Clogs, Drains, Stalls, Breaks,
           FallsQuiet, _on_inbound, Says, Message, _handle_version, _handle_addr,
           _misbehave, Closed, RoundEnds, vars

(* Upkeep drops no live peer whose messages are read as they come: a peer  *)
(* it drops is gone, or is one that somebody, here or at the other end,    *)
(* has had to wait for since its task last read (p2p.py:443-454).          *)
THEOREM PromptStay == Spec => PromptPeersStay
  <1>1. Init => Answering
    BY AnsweringInit
  <1>2. Answering /\ [Next]_vars => Answering'
    BY AnsweringStep
  <1>3. Answering /\ [Next]_vars =>
          [\A c \in Slot : DroppedByUpkeep(c) => ~conn[c].live \/ conn[c].slow]_vars
    BY PromptStep
  <1> QED BY <1>1, <1>2, <1>3, PTL DEF Spec, PromptPeersStay
--------------------------------------------------------------------------------
(* The dials a node is still to make are counted before they are made:     *)
(* while others connect, hang up and break between two of them, outbound   *)
(* peers and open dials together stay within TARGET_OUTBOUND, or within    *)
(* the seeds a node dials when it boots.                                   *)
ToDial == IF phase = "dial" THEN Cardinality(left) ELSE 0

Within(n) ==
    n + ToDial <= TargetOutbound \/ n + ToDial <= Cardinality(Seeds)

OutboundBounded == Within(Cardinality(Outbound))

LEMMA FewerAreWithin ==
  ASSUME NEW a \in Nat, NEW b \in Nat, NEW x \in Nat, NEW y \in Nat,
         NEW t \in Nat, NEW s \in Nat,
         a + x <= t \/ a + x <= s, b + y <= a + x
  PROVE  b + y <= t \/ b + y <= s
  OBVIOUS

LEMMA CountsAreNat ==
  ASSUME TypeOK
  PROVE  /\ IsFiniteSet(left) /\ Cardinality(left) \in Nat
         /\ IsFiniteSet(Outbound) /\ Cardinality(Outbound) \in Nat
         /\ IsFiniteSet(Seeds) /\ Cardinality(Seeds) \in Nat
         /\ ToDial \in Nat
  <1>1. Outbound \subseteq Slot
    BY DEF Outbound, Peers
  <1>2. left \subseteq Slot \/ left \subseteq Host
    BY DEF TypeOK
  <1>3. IsFiniteSet(left) /\ IsFiniteSet(Outbound) /\ IsFiniteSet(Seeds)
    BY <1>1, <1>2, FS_Subset, SlotAssumption, HostAssumption, SeedsAssumption
  <1>4. /\ Cardinality(left) \in Nat /\ Cardinality(Outbound) \in Nat
        /\ Cardinality(Seeds) \in Nat
    BY <1>3, FS_CardinalityType
  <1> QED BY <1>3, <1>4 DEF ToDial

(* A step that makes no outbound peer and opens no dial.                   *)
LEMMA NoMoreOutbound ==
  ASSUME TypeOK, TypeOK', OutboundBounded, Outbound' \subseteq Outbound,
         phase' # "dial" \/ (phase' = phase /\ left' \subseteq left)
  PROVE  OutboundBounded'
  <1>1. Cardinality(Outbound') <= Cardinality(Outbound)
    BY CountsAreNat, FS_Subset
  <1>2. Cardinality(Outbound') \in Nat /\ ToDial' \in Nat
    <2>1. IsFiniteSet(Outbound')
      BY CountsAreNat, FS_Subset
    <2>2. IsFiniteSet(left')
      <3>1. left' \subseteq Slot \/ left' \subseteq Host
        BY DEF TypeOK
      <3> QED BY <3>1, FS_Subset, SlotAssumption, HostAssumption
    <2> QED BY <2>1, <2>2, FS_CardinalityType DEF ToDial
  <1>3. ToDial' <= ToDial
    <2>1. CASE phase' # "dial"
      <3>1. ToDial' = 0
        BY <2>1 DEF ToDial
      <3> QED BY <3>1, CountsAreNat
    <2>2. CASE phase' = "dial" /\ phase' = phase /\ left' \subseteq left
      <3>1. Cardinality(left') <= Cardinality(left)
        BY <2>2, CountsAreNat, FS_Subset
      <3> QED BY <2>2, <3>1 DEF ToDial
    <2> QED BY <2>1, <2>2
  <1>4. Cardinality(Outbound') + ToDial' <= Cardinality(Outbound) + ToDial
    BY <1>1, <1>2, <1>3, CountsAreNat
  <1> QED
    BY <1>2, <1>4, CountsAreNat, TargetAssumption, FewerAreWithin
       DEF OutboundBounded, Within

(* What a step does to the connections, seen from who is outbound.         *)
LEMMA OutboundOnlyDialled ==
  ASSUME TypeOK, NEW c \in Slot
  PROVE  /\ conn' = Dropped(c) => Outbound' \subseteq Outbound
         /\ c \in Peers /\ conn' \in {Heard(c), Pinged(c),
                                    [Heard(c) EXCEPT ![c].told = TRUE],
                                    [conn EXCEPT ![c].quiet = TRUE],
                                    [conn EXCEPT ![c].clogged = TRUE, ![c].slow = TRUE],
                                    [conn EXCEPT ![c].clogged = FALSE, ![c].pinging = FALSE],
                                    [conn EXCEPT ![c].slow = TRUE],
                                    [conn EXCEPT ![c].unread = TRUE]}
               => Outbound' \subseteq Outbound
         /\ \A h \in Host : conn' = [conn EXCEPT ![c] = Peer(h, FALSE)]
               => Outbound' \subseteq Outbound
         /\ \A h \in Host : conn' = [conn EXCEPT ![c] = Peer(h, TRUE)]
               => Outbound' \subseteq Outbound \cup {c}
         /\ UNCHANGED conn => Outbound' = Outbound
  <1>p. conn \in [Slot -> PeerRecord \cup {None}]
    BY DEF TypeOK
  <1>1. ASSUME conn' = Dropped(c) PROVE Outbound' \subseteq Outbound
    BY <1>1, <1>p DEF Dropped, Outbound, Peers
  <1>2. ASSUME c \in Peers,
               conn' \in {Heard(c), Pinged(c), [Heard(c) EXCEPT ![c].told = TRUE],
                          [conn EXCEPT ![c].quiet = TRUE],
                          [conn EXCEPT ![c].clogged = TRUE, ![c].slow = TRUE],
                          [conn EXCEPT ![c].clogged = FALSE, ![c].pinging = FALSE],
                          [conn EXCEPT ![c].slow = TRUE],
                          [conn EXCEPT ![c].unread = TRUE]}
        PROVE  Outbound' \subseteq Outbound
    <2>0. conn[c] \in PeerRecord
      BY <1>2, PeersAreRecords
    <2>1. /\ DOMAIN conn' = Slot
          /\ \A d \in Slot \ {c} : conn'[d] = conn[d]
          /\ conn'[c].outbound = conn[c].outbound
      <3>1. CASE conn' = Heard(c)
        BY <2>0, <3>1, <1>p DEF Heard, Read, PeerRecord
      <3>2. CASE conn' = Pinged(c)
        BY <2>0, <3>2, <1>p DEF Pinged, PeerRecord
      <3>3. CASE conn' = [Heard(c) EXCEPT ![c].told = TRUE]
        BY <2>0, <3>3, <1>p DEF Heard, Read, PeerRecord
      <3>4. CASE conn' = [conn EXCEPT ![c].quiet = TRUE]
        BY <2>0, <3>4, <1>p DEF PeerRecord
      <3>5. CASE conn' = [conn EXCEPT ![c].clogged = TRUE, ![c].slow = TRUE]
        BY <2>0, <3>5, <1>p DEF PeerRecord
      <3>6. CASE conn' = [conn EXCEPT ![c].clogged = FALSE, ![c].pinging = FALSE]
        BY <2>0, <3>6, <1>p DEF PeerRecord
      <3>7. CASE conn' = [conn EXCEPT ![c].slow = TRUE]
        BY <2>0, <3>7, <1>p DEF PeerRecord
      <3>8. CASE conn' = [conn EXCEPT ![c].unread = TRUE]
        BY <2>0, <3>8, <1>p DEF PeerRecord
      <3> QED BY <1>2, <3>1, <3>2, <3>3, <3>4, <3>5, <3>6, <3>7, <3>8
    <2> QED BY <1>2, <2>1 DEF Outbound, Peers
  <1>3. ASSUME NEW h \in Host, conn' = [conn EXCEPT ![c] = Peer(h, FALSE)]
        PROVE  Outbound' \subseteq Outbound
    BY <1>3, <1>p DEF Outbound, Peers, Peer
  <1>4. ASSUME NEW h \in Host, conn' = [conn EXCEPT ![c] = Peer(h, TRUE)]
        PROVE  Outbound' \subseteq Outbound \cup {c}
    BY <1>4, <1>p DEF Outbound, Peers
  <1>5. UNCHANGED conn => Outbound' = Outbound
    BY DEF Outbound, Peers
  <1> QED BY <1>1, <1>2, <1>3, <1>4, <1>5

LEMMA OutboundInit == Init => OutboundBounded
  <1> SUFFICES ASSUME Init PROVE OutboundBounded
    OBVIOUS
  <1>1. Outbound = {}
    BY DEF Init, Outbound, Peers
  <1>2. Cardinality(Outbound) = 0
    BY <1>1, FS_EmptySet
  <1>3. ToDial = Cardinality(Seeds)
    BY DEF Init, ToDial
  <1> QED BY <1>2, <1>3, TypeInit, CountsAreNat DEF OutboundBounded, Within

LEMMA OneDialled ==
  ASSUME TypeOK, TypeOK', OutboundBounded,
         NEW h \in Host, NEW c \in Slot, connect(h, c)
  PROVE  OutboundBounded'
  <1>1. phase = "dial" /\ phase' = "dial" /\ h \in left /\ left' = left \ {h}
    BY DEF connect
  <1>2. Outbound' \subseteq Outbound \cup {c}
    BY OutboundOnlyDialled DEF connect
  <1>3. /\ IsFiniteSet(Outbound \cup {c})
        /\ Cardinality(Outbound \cup {c}) \in Nat
        /\ Cardinality(Outbound \cup {c}) <= Cardinality(Outbound) + 1
    <2>1. IsFiniteSet(Outbound) /\ Cardinality(Outbound) \in Nat
      BY CountsAreNat
    <2>2. IsFiniteSet(Outbound \cup {c})
      BY <2>1, FS_AddElement
    <2>3. Cardinality(Outbound \cup {c}) \in Nat
      BY <2>2, FS_CardinalityType
    <2>4. Cardinality(Outbound \cup {c}) =
             IF c \in Outbound THEN Cardinality(Outbound) ELSE Cardinality(Outbound) + 1
      BY <2>1, FS_AddElement
    <2> QED BY <2>1, <2>2, <2>3, <2>4
  <1>4. /\ Cardinality(Outbound') \in Nat
        /\ Cardinality(Outbound') <= Cardinality(Outbound \cup {c})
    BY <1>2, <1>3, FS_Subset, FS_CardinalityType
  <1>5. /\ Cardinality(left') \in Nat
        /\ Cardinality(left') = Cardinality(left) - 1
    BY <1>1, CountsAreNat, FS_RemoveElement, FS_CardinalityType
  <1>6. ToDial = Cardinality(left) /\ ToDial' = Cardinality(left')
    BY <1>1 DEF ToDial
  <1>7. Cardinality(Outbound') + ToDial' <= Cardinality(Outbound) + ToDial
    BY <1>3, <1>4, <1>5, <1>6, CountsAreNat
  <1> QED
    BY <1>4, <1>5, <1>6, <1>7, CountsAreNat, TargetAssumption, FewerAreWithin
       DEF OutboundBounded, Within

LEMMA DialsChosen ==
  ASSUME TypeOK, TypeOK', OutboundBounded, _top_up_outbound
  PROVE  OutboundBounded'
  <1>1. Outbound' = Outbound
    BY OutboundOnlyDialled DEF _top_up_outbound, Outbound, Peers
  <1>2. CASE phase' = "sleep"
    BY <1>1, <1>2, NoMoreOutbound
  <1>3. CASE ~Full /\ phase' = "dial"
    <2>1. Cardinality(left') <= TargetOutbound - Cardinality(Outbound)
      BY <1>3 DEF _top_up_outbound, Chosen
    <2>2. Cardinality(left') \in Nat
      <3>1. left' \subseteq Host \/ left' \subseteq Slot
        BY DEF TypeOK
      <3> QED BY <3>1, HostAssumption, SlotAssumption, FS_Subset, FS_CardinalityType
    <2>3. Cardinality(Outbound) + Cardinality(left') <= TargetOutbound
      BY <2>1, <2>2, CountsAreNat, TargetAssumption
    <2> QED BY <1>1, <1>3, <2>3 DEF OutboundBounded, Within, ToDial
  <1> QED BY <1>2, <1>3 DEF _top_up_outbound

LEMMA OutboundStep == TypeOK /\ OutboundBounded /\ [Next]_vars => OutboundBounded'
  <1> SUFFICES ASSUME TypeOK, OutboundBounded, [Next]_vars PROVE OutboundBounded'
    OBVIOUS
  <1>t. TypeOK'
    BY TypeStep
  <1>1. ASSUME NEW h \in Host, GoesDown(h) PROVE OutboundBounded'
    <2>1. \A c \in Peers' : c \in Peers /\ conn'[c].outbound = conn[c].outbound
      BY <1>1, PeersAreRecords DEF GoesDown, Peers, PeerRecord
    <2>2. Outbound' \subseteq Outbound
      BY <2>1 DEF Outbound
    <2> QED BY <1>1, <1>t, <2>2, NoMoreOutbound DEF GoesDown
  <1>2. ASSUME NEW h \in Host, ComesUp(h) PROVE OutboundBounded'
    <2>1. Outbound' = Outbound
      BY <1>2 DEF ComesUp, peerVars, Outbound, Peers
    <2> QED BY <1>2, <1>t, <2>1, NoMoreOutbound DEF ComesUp
  <1>3. ASSUME NEW c \in Slot, HangsUp(c) PROVE OutboundBounded'
    BY <1>3, <1>t, OutboundOnlyDialled, NoMoreOutbound DEF HangsUp
  <1>4. ASSUME NEW c \in Slot, Clogs(c) PROVE OutboundBounded'
    BY <1>4, <1>t, OutboundOnlyDialled, NoMoreOutbound DEF Clogs
  <1>4d. ASSUME NEW c \in Slot, Drains(c) PROVE OutboundBounded'
    BY <1>4d, <1>t, OutboundOnlyDialled, NoMoreOutbound DEF Drains
  <1>4s. ASSUME NEW c \in Slot, Stalls(c) PROVE OutboundBounded'
    BY <1>4s, <1>t, OutboundOnlyDialled, NoMoreOutbound DEF Stalls
  <1>5. ASSUME NEW c \in Slot, Breaks(c) PROVE OutboundBounded'
    BY <1>5, <1>t, OutboundOnlyDialled, NoMoreOutbound DEF Breaks
  <1>6. ASSUME NEW c \in Slot, FallsQuiet(c) PROVE OutboundBounded'
    BY <1>6, <1>t, OutboundOnlyDialled, NoMoreOutbound DEF FallsQuiet
  <1>7. ASSUME NEW h \in Host, NEW c \in Slot, _on_inbound(h, c) PROVE OutboundBounded'
    BY <1>7, <1>t, OutboundOnlyDialled, NoMoreOutbound DEF _on_inbound
  <1>8. ASSUME NEW c \in Slot, Message(c) PROVE OutboundBounded'
    BY <1>8, <1>t, OutboundOnlyDialled, NoMoreOutbound DEF Message, Speaks
  <1>8s. ASSUME NEW c \in Slot, Says(c) PROVE OutboundBounded'
    BY <1>8s, <1>t, OutboundOnlyDialled, NoMoreOutbound DEF Says
  <1>9. ASSUME NEW c \in Slot, _handle_version(c) PROVE OutboundBounded'
    <2>1. Outbound' \subseteq Outbound
      BY <1>9, OutboundOnlyDialled DEF _handle_version, Speaks
    <2> QED BY <1>9, <1>t, <2>1, NoMoreOutbound DEF _handle_version
  <1>10. ASSUME NEW h \in Host, NEW c \in Slot, _handle_addr(c, h) PROVE OutboundBounded'
    BY <1>10, <1>t, OutboundOnlyDialled, NoMoreOutbound DEF _handle_addr, Speaks
  <1>11. ASSUME NEW c \in Slot, _misbehave(c) PROVE OutboundBounded'
    BY <1>11, <1>t, OutboundOnlyDialled, NoMoreOutbound DEF _misbehave
  <1>12. CASE _maintain
    <2>1. Outbound' = Outbound
      BY <1>12 DEF _maintain, peerVars, Outbound, Peers
    <2> QED BY <1>12, <1>t, <2>1, NoMoreOutbound DEF _maintain
  <1>13. ASSUME NEW c \in Slot, _check_liveness(c) PROVE OutboundBounded'
    <2>1. Outbound' \subseteq Outbound
      BY <1>13, OutboundOnlyDialled DEF _check_liveness
    <2>2. phase' # "dial"
      BY <1>13 DEF _check_liveness
    <2> QED BY <1>t, <2>1, <2>2, NoMoreOutbound
  <1>13c. CASE Closed
    <2>1. Outbound' = Outbound
      BY <1>13c DEF Closed, peerVars, Outbound, Peers
    <2> QED BY <1>13c, <1>t, <2>1, NoMoreOutbound DEF Closed
  <1>14. CASE _top_up_outbound
    BY <1>14, <1>t, DialsChosen
  <1>15. ASSUME NEW h \in Host, NEW c \in Slot, connect(h, c) PROVE OutboundBounded'
    BY <1>15, <1>t, OneDialled
  <1>16. CASE RoundEnds
    <2>1. Outbound' = Outbound
      BY <1>16 DEF RoundEnds, peerVars, Outbound, Peers
    <2> QED BY <1>16, <1>t, <2>1, NoMoreOutbound DEF RoundEnds
  <1>17. CASE UNCHANGED vars
    <2>1. Outbound' = Outbound
      BY <1>17 DEF vars, Outbound, Peers
    <2> QED BY <1>17, <1>t, <2>1, NoMoreOutbound DEF vars
  <1> QED
    BY <1>1, <1>2, <1>3, <1>4, <1>4d, <1>4s, <1>5, <1>6, <1>7, <1>8, <1>8s, <1>9,
       <1>10, <1>11, <1>12, <1>13, <1>13c, <1>14, <1>15, <1>16, <1>17
       DEF Next, Upkeeps

(* A node never has more outbound peers than TARGET_OUTBOUND, or than the  *)
(* seeds it dials at boot, and the dials of a round do not overshoot       *)
(* although peers come and go between them (p2p.py:459-483).               *)
THEOREM NeverOverDials == Spec => []OutboundBounded
  <1>1. Init => TypeOK /\ OutboundBounded
    BY TypeInit, OutboundInit
  <1>2. TypeOK /\ OutboundBounded /\ [Next]_vars => (TypeOK /\ OutboundBounded)'
    BY TypeStep, OutboundStep
  <1> QED BY <1>1, <1>2, PTL DEF Spec

--------------------------------------------------------------------------------
(* A round of upkeep checks, then dials, then sleeps.  A peer that it      *)
(* drops is a step more: it waits until the connection is closed.          *)
Stage ==
    CASE phase \in {"check", "closing"} -> 2
      [] phase = "dial" -> 1
      [] phase = "sleep" -> 0

ToDo == 2 * Cardinality(left) + (IF phase = "closing" THEN 1 ELSE 0)

CloserToSleep ==
    \/ UNCHANGED <<phase, left>>
    \/ Stage' < Stage
    \/ Stage' = Stage /\ ToDo' < ToDo

LEMMA OneLess ==
  ASSUME TypeOK, NEW x \in left, left' = left \ {x}
  PROVE  /\ Cardinality(left) \in Nat
         /\ Cardinality(left') = Cardinality(left) - 1
  BY CountsAreNat, FS_RemoveElement

LEMMA CloserStep ==
  ASSUME TypeOK, [Next]_vars, phase # "sleep"
  PROVE  CloserToSleep
  <1>1. CASE _maintain
    BY <1>1 DEF _maintain
  <1>2. ASSUME NEW c \in Slot, _check_liveness(c) PROVE CloserToSleep
    <2>1. phase = "check" /\ phase' \in {"check", "closing"}
      BY <1>2 DEF _check_liveness
    <2>2. /\ Cardinality(left) \in Nat
          /\ Cardinality(left') = Cardinality(left) - 1
      BY <1>2, OneLess DEF _check_liveness
    <2>3. ToDo' < ToDo
      BY <2>1, <2>2 DEF ToDo
    <2>4. Stage' = Stage
      BY <2>1 DEF Stage
    <2> QED BY <2>3, <2>4 DEF CloserToSleep
  <1>2c. CASE Closed
    <2>1. phase = "closing" /\ phase' = "check" /\ left' = left
      BY <1>2c DEF Closed
    <2>2. ToDo' < ToDo
      BY <2>1, CountsAreNat DEF ToDo
    <2>3. Stage' = Stage
      BY <2>1 DEF Stage
    <2> QED BY <2>2, <2>3 DEF CloserToSleep
  <1>3. CASE _top_up_outbound
    BY <1>3 DEF _top_up_outbound, CloserToSleep, Stage
  <1>4. ASSUME NEW h \in Host, NEW c \in Slot, connect(h, c) PROVE CloserToSleep
    <2>1. phase = "dial" /\ phase' = "dial"
      BY <1>4 DEF connect
    <2>2. /\ Cardinality(left) \in Nat
          /\ Cardinality(left') = Cardinality(left) - 1
      BY <1>4, OneLess DEF connect
    <2>3. ToDo' < ToDo
      BY <2>1, <2>2 DEF ToDo
    <2> QED BY <2>1, <2>3 DEF CloserToSleep, Stage
  <1>5. CASE RoundEnds
    BY <1>5 DEF RoundEnds, CloserToSleep, Stage
  <1>6. CASE UNCHANGED <<phase, left>>
    BY <1>6 DEF CloserToSleep
  <1> QED
    BY <1>1, <1>2, <1>2c, <1>3, <1>4, <1>5, <1>6
       DEF Next, Upkeeps, GoesDown, ComesUp, HangsUp, Clogs, Drains, Stalls, Breaks,
           FallsQuiet, _on_inbound, Says, Message, _handle_version, _handle_addr,
           _misbehave, vars

(* No round of upkeep goes on for ever: whatever the peers do, each step   *)
(* of the loop leaves fewer peers to check or addresses to dial, or goes   *)
(* on to the next part, and nothing else adds to what is left to do.  That *)
(* a next step comes is left to fairness (p2p.py:436-440).                 *)
THEOREM RoundsEnd == Spec => [][phase # "sleep" => CloserToSleep]_vars
  <1>1. Init => TypeOK
    BY TypeInit
  <1>2. TypeOK /\ [Next]_vars => TypeOK'
    BY TypeStep
  <1>3. TypeOK /\ [Next]_vars => [phase # "sleep" => CloserToSleep]_vars
    BY CloserStep
  <1> QED BY <1>1, <1>2, <1>3, PTL DEF Spec
================================================================================
