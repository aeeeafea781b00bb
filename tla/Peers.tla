--------------------------------- MODULE Peers ---------------------------------
(***************************************************************************)
(* Nodes that find each other's blocks and transactions: the handshake,    *)
(* the synchronisation by block locator and the gossip of p2p.py.          *)
(*                                                                         *)
(* All handlers of a node run on its network thread, one task per          *)
(* connection and one per local submission.  A task gives way where it     *)
(* sends, because a send waits for the peer's buffer to drain; what is     *)
(* left of its handler is kept in todo, and between two instructions of it *)
(* any other task of the node may run.  A task reads the next message of   *)
(* its peer when its handler is done.                                      *)
(*                                                                         *)
(* What a chain state does with a block is the promise that ChainState     *)
(* keeps, told for blocks that are all valid: a node shows the branch with *)
(* most work among those it stores, the first seen among equals.  The      *)
(* address book, pings and dialling are in Upkeep.                         *)
(***************************************************************************)
EXTENDS Integers, Sequences, FiniteSets, SequencesExt

CONSTANTS
    Node,
    Block, Genesis,
    Parent,         \* [Block \ {Genesis} -> Block]
    Work,           \* [Block -> Nat]
    Tx,
    Payments,       \* [Block -> SUBSET Tx]
    Held,           \* [Node -> SUBSET Block]: what each node starts with
    Established,    \* pairs of nodes whose handshake is already complete
    Found,          \* blocks miners may still find
    Submitted,      \* [Node -> SUBSET Tx]: what its wallet may send
    MaxInv, MaxOutstanding, DenseLocator, BanScore, TxScore,
    SendBuffer,     \* messages a connection takes before a sender waits
    MidHandshake,   \* blocks are found while a handshake is under way
    MaxLosses       \* connections that may break

(* Every block leads to genesis, and whoever has a block has its parent.   *)
ASSUME BlockAssumption ==
    /\ IsFiniteSet(Block)
    /\ Genesis \in Block
    /\ Parent \in [Block \ {Genesis} -> Block]
    /\ \A S \in SUBSET (Block \ {Genesis}) : S # {} => \E b \in S : Parent[b] \notin S
    /\ Work \in [Block -> Nat]
    /\ Payments \in [Block -> SUBSET Tx]
    /\ Found \subseteq Block \ {Genesis}

ASSUME NodeAssumption ==
    /\ IsFiniteSet(Node) /\ IsFiniteSet(Tx)
    /\ Held \in [Node -> SUBSET Block]
    /\ \A n \in Node :
          /\ Genesis \in Held[n]
          /\ \A b \in Held[n] \ {Genesis} : Parent[b] \in Held[n]
    /\ Established \subseteq {p \in Node \X Node : p[1] # p[2]}
    /\ \A p \in Established : <<p[2], p[1]>> \in Established
    /\ Submitted \in [Node -> SUBSET Tx]
    /\ MaxInv \in Nat /\ MaxOutstanding \in Nat
    /\ TxScore \in Nat /\ BanScore \in Nat \ {0}

VARIABLES
    stored,         \* per node, the blocks in its index
    tip,            \* per node, the end of its active chain
    pool,           \* per node, the transactions in its mempool
    link,           \* <<n, m>>: the Peer object n keeps for m
    wire,           \* <<n, m>>: messages from n to m not yet read
    todo,           \* <<n, m>>: what is left of n's handler for m;
                    \* <<n, n>>: of a local submission
    banned,         \* per node, the hosts it refuses
    found, losses   \* what the environment has done

chainVars == <<stored, tip, pool>>
netVars == <<link, wire, todo, banned>>
vars == <<stored, tip, pool, link, wire, todo, banned, found, losses>>

(* What is in S of a sequence, in its order.                               *)
Kept(s, S) ==
    LET kept[k \in 0..Len(s)] ==
            IF k = 0 THEN <<>>
            ELSE IF s[k] \in S THEN Append(kept[k - 1], s[k]) ELSE kept[k - 1]
    IN  kept[Len(s)]

--------------------------------------------------------------------------------
(* Chains. *)

(* The active chain that ends in b, genesis first: the block of height h   *)
(* is at position h + 1.                                                   *)
Branch[b \in Block] ==
    IF b = Genesis THEN <<Genesis>> ELSE Append(Branch[Parent[b]], b)

TotalWork[b \in Block] ==
    IF b = Genesis THEN Work[b] ELSE TotalWork[Parent[b]] + Work[b]

Height(b) == Len(Branch[b]) - 1

Active(n) == Branch[tip[n]]

TxsOn(b) == UNION {Payments[a] : a \in ToSet(Branch[b])}

(* Where a locator for a chain of height h looks: from the tip down in     *)
(* steps of one, which double once DenseLocator entries are taken; genesis *)
(* closes it.                                                              *)
LocatorHeights(h) ==
    LET from[k \in 1..(h + 1)] ==   \* k-th entry: its height and the step below
            IF k = 1 THEN <<h, IF k >= DenseLocator THEN 2 ELSE 1>>
            ELSE LET above == from[k - 1]
                 IN  <<above[1] - above[2],
                       IF k >= DenseLocator THEN 2 * above[2] ELSE above[2]>>
    IN  Kept([k \in 1..(h + 1) |-> from[k][1]], 1..h) \o <<0>>

block_locator(n) ==
    LET heights == LocatorHeights(Height(tip[n]))
    IN  [k \in DOMAIN heights |-> Active(n)[heights[k] + 1]]

--------------------------------------------------------------------------------
(* Connections. *)

NoPeer == [up |-> FALSE, handshaked |-> FALSE, height |-> 0, ban_score |-> 0,
           requested_blocks |-> {}, batch_full |-> FALSE]

NewPeer == [NoPeer EXCEPT !.up = TRUE]

Handshaked(n) == {m \in Node \ {n} : link[<<n, m>>].handshaked}

(* The messages.                                                           *)
Version(h) == [type |-> "version", height |-> h]
Verack == [type |-> "verack"]
GetBlocks(locator) == [type |-> "getblocks", locator |-> locator]
Inv(blocks, txs) == [type |-> "inv", blocks |-> blocks, txs |-> txs]
GetData(blocks, txs) == [type |-> "getdata", blocks |-> blocks, txs |-> txs]
BlockMsg(b) == [type |-> "block", block |-> b]
TxMsg(t) == [type |-> "tx", tx |-> t]

(* The instructions a handler is made of.                                  *)
Send(m, msg) == [op |-> "send", to |-> m, msg |-> msg]
Ask(m) == [op |-> "ask", to |-> m]               \* _request_blocks
Compare(m) == [op |-> "compare", to |-> m]
ServeTx(m, t) == [op |-> "serve", to |-> m, tx |-> t]
More(m) == [op |-> "more", to |-> m]             \* the end of _handle_block

(* An announcement goes to each peer in turn, in whatever order the set of *)
(* peers has.                                                              *)
Broadcasts(n, inv, exclude) ==
    {[k \in DOMAIN order |-> Send(order[k], inv)] :
        order \in SetToSeqs(Handshaked(n) \ {exclude})}

(* The connection of n and m ends: what was on its way is lost, and the    *)
(* tasks of both have nothing more to say to each other.                   *)
Pairs(n, m) == {<<n, m>>, <<m, n>>}

Closed(n, m, tasks) ==
    /\ link' = [p \in DOMAIN link |-> IF p \in Pairs(n, m) THEN NoPeer ELSE link[p]]
    /\ wire' = [p \in DOMAIN wire |-> IF p \in Pairs(n, m) THEN <<>> ELSE wire[p]]
    /\ todo' = [p \in DOMAIN tasks |->
                   Kept(tasks[p], {i \in ToSet(tasks[p]) : <<p[1], i.to>> \notin Pairs(n, m)})]

--------------------------------------------------------------------------------
HeaviestOf(S) == CHOOSE b \in S : \A a \in S : TotalWork[a] <= TotalWork[b]

Init ==
    /\ stored = Held
    /\ tip = [n \in Node |-> HeaviestOf(Held[n])]
    /\ pool = [n \in Node |-> {}]
    /\ link = [p \in Node \X Node |->
                  IF p \in Established
                  THEN [NewPeer EXCEPT !.handshaked = TRUE, !.height = Height(tip[p[2]])]
                  ELSE NoPeer]
    /\ wire = [p \in Node \X Node |-> <<>>]
    /\ todo = [p \in Node \X Node |-> <<>>]
    /\ banned = [n \in Node |-> {}]
    /\ found = {}
    /\ losses = 0

(* n dials m, which refuses a host it has banned.  Each side starts a task *)
(* whose first act is to say how tall its chain is.  There is one          *)
(* connection between two nodes at a time.                                 *)
connect(n, m) ==
    /\ n # m /\ ~link[<<n, m>>].up /\ ~link[<<m, n>>].up
    /\ todo[<<n, m>>] = <<>> /\ todo[<<m, n>>] = <<>>
    /\ n \notin banned[m]
    /\ link' = [link EXCEPT ![<<n, m>>] = NewPeer, ![<<m, n>>] = NewPeer]
    /\ wire' = [wire EXCEPT ![<<n, m>>] = <<Version(Height(tip[n]))>>,
                            ![<<m, n>>] = <<Version(Height(tip[m]))>>]
    /\ UNCHANGED <<chainVars, todo, banned, found, losses>>

(* A connection breaks.                                                    *)
Lose(n, m) ==
    /\ link[<<n, m>>].up
    /\ losses < MaxLosses
    /\ losses' = losses + 1
    /\ Closed(n, m, todo)
    /\ UNCHANGED <<chainVars, banned, found>>

(* The task of n for m is free to read msg, and does.                      *)
Reads(n, m, msg) ==
    /\ link[<<n, m>>].up
    /\ todo[<<n, m>>] = <<>>
    /\ wire[<<m, n>>] # <<>>
    /\ msg = Head(wire[<<m, n>>])

Received(n, m) == [wire EXCEPT ![<<m, n>>] = Tail(@)]

Then(n, m, instructions) == [todo EXCEPT ![<<n, m>>] = instructions]

_handle_version(n, m) ==
    \E h \in 0..Cardinality(Block) :
        /\ Reads(n, m, Version(h))
        /\ link' = [link EXCEPT ![<<n, m>>].height = h]
        /\ todo' = Then(n, m, <<Send(m, Verack)>>)
        /\ wire' = Received(n, m)
        /\ UNCHANGED <<chainVars, banned, found, losses>>

(* The comparison comes after a send (of getaddr, which is in Upkeep).     *)
_handle_verack(n, m) ==
    /\ Reads(n, m, Verack)
    /\ link' = [link EXCEPT ![<<n, m>>].handshaked = TRUE]
    /\ todo' = Then(n, m, <<Compare(m)>>)
    /\ wire' = Received(n, m)
    /\ UNCHANGED <<chainVars, banned, found, losses>>

(* The answer starts above the first hash of the locator that is on the    *)
(* active chain, or at height 1.                                           *)
StartHeight(n, locator) ==
    LET shared == Kept(locator, ToSet(Active(n)))
    IN  IF shared = <<>> THEN 1 ELSE Height(Head(shared)) + 1

AnswerTo(n, locator) ==
    LET start == StartHeight(n, locator)
    IN  SubSeq(Active(n), start + 1, Min({start + MaxInv, Len(Active(n))}))

_handle_getblocks(n, m) ==
    /\ wire[<<m, n>>] # <<>> /\ Head(wire[<<m, n>>]).type = "getblocks"
    /\ Reads(n, m, Head(wire[<<m, n>>]))
    /\ LET hashes == AnswerTo(n, Head(wire[<<m, n>>]).locator)
       IN  todo' = Then(n, m, IF hashes = <<>> THEN <<>>
                              ELSE <<Send(m, Inv(hashes, {}))>>)
    /\ wire' = Received(n, m)
    /\ UNCHANGED <<chainVars, link, banned, found, losses>>

(* What n asks m for: the announced blocks its index does not have, while  *)
(* fewer than MaxOutstanding are on request from m.  Whether another peer  *)
(* was asked already makes no difference.                                  *)
Wanted(n, m, blocks) ==
    LET asked[k \in 0..Len(blocks)] ==
            IF k = 0 THEN <<>>
            ELSE IF \/ blocks[k] \in stored[n]
                    \/ Cardinality(link[<<n, m>>].requested_blocks \cup ToSet(asked[k - 1]))
                         >= MaxOutstanding
                 THEN asked[k - 1] ELSE Append(asked[k - 1], blocks[k])
    IN  asked[Len(blocks)]

_handle_inv(n, m) ==
    /\ wire[<<m, n>>] # <<>>
    /\ LET msg == Head(wire[<<m, n>>])
       IN  /\ msg.type = "inv"
           /\ Reads(n, m, msg)
           /\ LET blocks == Wanted(n, m, msg.blocks)
                  txs == msg.txs \ pool[n]
              IN  /\ link' = [link EXCEPT
                         ![<<n, m>>].requested_blocks = @ \cup ToSet(blocks),
                         ![<<n, m>>].batch_full = Len(msg.blocks) >= MaxInv]
                  /\ todo' = Then(n, m, IF blocks = <<>> /\ txs = {} THEN <<>>
                                        ELSE <<Send(m, GetData(blocks, txs))>>)
    /\ wire' = Received(n, m)
    /\ UNCHANGED <<chainVars, banned, found, losses>>

(* Each item is looked up when its turn comes; one the node does not have  *)
(* is passed over.  Block bodies are never deleted.                        *)
BodiesShown(n, hashes) ==   \* mutant
    Kept(hashes, ToSet(Active(n)))
Bodies(n, hashes) == Kept(hashes, stored[n])

_handle_getdata(n, m) ==
    /\ wire[<<m, n>>] # <<>>
    /\ LET msg == Head(wire[<<m, n>>])
       IN  /\ msg.type = "getdata"
           /\ Reads(n, m, msg)
           /\ LET bodies == Bodies(n, msg.blocks)
              IN  todo' = Then(n, m,
                      [k \in DOMAIN bodies |-> Send(m, BlockMsg(bodies[k]))]
                        \o SetToSeq({ServeTx(m, t) : t \in msg.txs}))
    /\ wire' = Received(n, m)
    /\ UNCHANGED <<chainVars, link, banned, found, losses>>

(* accept_block and, under the same lock taken again, _absorb: the pool    *)
(* loses what the new branch confirms and regains what the old one had.    *)
IsOrphan(n, b) == b # Genesis /\ Parent[b] \notin stored[n]

Accept(n, b) ==
    LET best == IF TotalWork[b] > TotalWork[tip[n]] THEN b ELSE tip[n]
    IN  /\ stored' = [stored EXCEPT ![n] = @ \cup {b}]
        /\ tip' = [tip EXCEPT ![n] = best]
        /\ pool' = [pool EXCEPT ![n] = (@ \cup TxsOn(tip[n])) \ TxsOn(best)]

(* submit_block for a block of a peer: known, without a parent, or new.    *)
_handle_block(n, m) ==
    \E b \in Block :
        /\ Reads(n, m, BlockMsg(b))
        /\ link' = [link EXCEPT ![<<n, m>>].requested_blocks = @ \ {b}]
        /\ wire' = Received(n, m)
        /\ \/ /\ b \in stored[n]
              /\ todo' = Then(n, m, <<More(m)>>)
              /\ UNCHANGED chainVars
           \/ /\ b \notin stored[n] /\ IsOrphan(n, b)
              /\ todo' = Then(n, m, <<Ask(m), More(m)>>)
              /\ UNCHANGED chainVars
           \/ /\ b \notin stored[n] /\ ~IsOrphan(n, b)
              /\ Accept(n, b)
              /\ \E sends \in Broadcasts(n, Inv(<<b>>, {}), m) :
                     todo' = Then(n, m, Append(sends, More(m)))
        /\ UNCHANGED <<banned, found, losses>>

(* Points for a peer; the last of them cost it the connection and the      *)
(* right to come back.                                                     *)
_misbehave(n, m, points) ==
    LET score == link[<<n, m>>].ban_score + points
    IN  IF score >= BanScore
        THEN /\ banned' = [banned EXCEPT ![n] = @ \cup {m}]
             /\ Closed(n, m, todo)
        ELSE /\ link' = [link EXCEPT ![<<n, m>>].ban_score = score]
             /\ wire' = Received(n, m)
             /\ UNCHANGED <<todo, banned>>

(* A transaction the mempool refuses, because it holds it or the chain has *)
(* confirmed it, costs its sender points.                                  *)
Admits(n, t) == t \notin pool[n] /\ t \notin TxsOn(tip[n])

_handle_tx(n, m) ==
    \E t \in Tx :
        /\ Reads(n, m, TxMsg(t))
        /\ \/ /\ Admits(n, t)
              /\ pool' = [pool EXCEPT ![n] = @ \cup {t}]
              /\ \E sends \in Broadcasts(n, Inv(<<>>, {t}), m) :
                     todo' = Then(n, m, sends)
              /\ wire' = Received(n, m)
              /\ UNCHANGED <<stored, tip, link, banned>>
           \/ /\ ~Admits(n, t)
              /\ _misbehave(n, m, TxScore)
              /\ UNCHANGED chainVars
        /\ UNCHANGED <<found, losses>>

--------------------------------------------------------------------------------
(* The next instruction of the task of n for m.                            *)
Current(n, m) == Head(todo[<<n, m>>])

Put(n, k, msg) == [wire EXCEPT ![<<n, k>>] = Append(@, msg)]

Done(n, m) == [todo EXCEPT ![<<n, m>>] = Tail(@)]

Room(n, k) == Len(wire[<<n, k>>]) < SendBuffer

Sends(n, m) ==
    /\ todo[<<n, m>>] # <<>> /\ Current(n, m).op = "send"
    /\ Room(n, Current(n, m).to)
    /\ wire' = Put(n, Current(n, m).to, Current(n, m).msg)
    /\ todo' = Done(n, m)
    /\ UNCHANGED <<chainVars, link, banned, found, losses>>

(* Heights decide whether to ask, though work decides which chain is best. *)
Compares(n, m) ==
    /\ todo[<<n, m>>] # <<>> /\ Current(n, m).op = "compare"
    /\ todo' = IF link[<<n, m>>].height > Height(tip[n])
               THEN Then(n, m, <<Ask(m)>>) ELSE Done(n, m)
    /\ UNCHANGED <<chainVars, link, wire, banned, found, losses>>

_request_blocks(n, m) ==
    /\ todo[<<n, m>>] # <<>> /\ Current(n, m).op = "ask"
    /\ Room(n, Current(n, m).to)
    /\ wire' = Put(n, Current(n, m).to, GetBlocks(block_locator(n)))
    /\ todo' = Done(n, m)
    /\ UNCHANGED <<chainVars, link, banned, found, losses>>

Serves(n, m) ==
    /\ todo[<<n, m>>] # <<>> /\ Current(n, m).op = "serve"
    /\ IF Current(n, m).tx \in pool[n]
       THEN /\ Room(n, Current(n, m).to)
            /\ wire' = Put(n, Current(n, m).to, TxMsg(Current(n, m).tx))
       ELSE UNCHANGED wire
    /\ todo' = Done(n, m)
    /\ UNCHANGED <<chainVars, link, banned, found, losses>>

(* The batch is delivered and it was full: ask for what comes after it.    *)
ContinuesNever(n, m) ==   \* mutant
    /\ todo[<<n, m>>] # <<>> /\ Current(n, m).op = "more"
    /\ todo' = Done(n, m)
    /\ UNCHANGED <<chainVars, link, wire, banned, found, losses>>
Continues(n, m) ==
    LET again == link[<<n, m>>].requested_blocks = {} /\ link[<<n, m>>].batch_full
    IN  /\ todo[<<n, m>>] # <<>> /\ Current(n, m).op = "more"
        /\ link' = IF again THEN [link EXCEPT ![<<n, m>>].batch_full = FALSE]
                            ELSE link
        /\ todo' = IF again THEN [todo EXCEPT ![<<n, m>>] = <<Ask(m)>>] ELSE Done(n, m)
        /\ UNCHANGED <<chainVars, wire, banned, found, losses>>

(* The miner of n finds a block on its tip; it is accepted and announced.  *)
(* The announcement goes to the peers whose handshake is complete and to   *)
(* no other, while the height they were told may be older.                 *)
Mine(n) ==
    \E b \in Found \ found :
        /\ Parent[b] = tip[n] /\ Payments[b] \subseteq pool[n]
        /\ todo[<<n, n>>] = <<>>
        /\ \/ MidHandshake
           \/ \A m \in Node \ {n} : link[<<n, m>>].up => link[<<n, m>>].handshaked
        /\ Accept(n, b)
        /\ found' = found \cup {b}
        /\ \E sends \in Broadcasts(n, Inv(<<b>>, {}), n) :
               todo' = Then(n, n, sends)
        /\ UNCHANGED <<link, wire, banned, losses>>

(* The wallet of n sends a payment.                                        *)
SubmitUntold(n) ==   \* mutant
    \E t \in Submitted[n] :
        /\ Admits(n, t)
        /\ pool' = [pool EXCEPT ![n] = @ \cup {t}]
        /\ UNCHANGED <<stored, tip, netVars, found, losses>>
Submit(n) ==
    \E t \in Submitted[n] :
        /\ Admits(n, t)
        /\ todo[<<n, n>>] = <<>>
        /\ pool' = [pool EXCEPT ![n] = @ \cup {t}]
        /\ \E sends \in Broadcasts(n, Inv(<<>>, {t}), n) :
               todo' = Then(n, n, sends)
        /\ UNCHANGED <<stored, tip, link, wire, banned, found, losses>>

(* What the task of n for m does by itself, once there is something to do. *)
Task(n, m) ==
    \/ _handle_version(n, m) \/ _handle_verack(n, m)
    \/ _handle_getblocks(n, m) \/ _handle_inv(n, m) \/ _handle_getdata(n, m)
    \/ _handle_block(n, m) \/ _handle_tx(n, m)
    \/ Sends(n, m) \/ Compares(n, m) \/ _request_blocks(n, m)
    \/ Serves(n, m) \/ Continues(n, m)

Next ==
    \/ \E n, m \in Node :
         connect(n, m) \/ Lose(n, m) \/ Task(n, m)
    \/ \E n \in Node : Mine(n) \/ Submit(n)

Spec == Init /\ [][Next]_vars

(* The event loop stands still only when no task can go on: TCP delivers,  *)
(* and the upkeep of a node dials again whom it lost.  Which task goes     *)
(* first is left open, and no task is promised its turn.                   *)
FairSpec ==
    /\ Spec
    /\ WF_vars(\E n, m \in Node : connect(n, m) \/ Task(n, m))

--------------------------------------------------------------------------------
(* Types.                                                                  *)
TypeOK ==
    /\ \A n \in Node : Genesis \in stored[n] /\ stored[n] \subseteq Block
    /\ \A n \in Node : tip[n] \in stored[n] /\ pool[n] \subseteq Tx
    /\ \A p \in Node \X Node :
         /\ link[p] \in [up : BOOLEAN, handshaked : BOOLEAN,
                         height : 0..Cardinality(Block), ban_score : Nat,
                         requested_blocks : SUBSET Block, batch_full : BOOLEAN]
         /\ link[p].up <=> link[<<p[2], p[1]>>].up
         /\ ~link[p].up => link[p] = NoPeer /\ wire[p] = <<>>

(* Nothing is awaited in vain: for every block that is on request from a   *)
(* peer, the request is still to be sent or read, or the body is, so that  *)
(* the set a full batch waits on does empty (p2p.py:707, 740).             *)
AwaitedIsComing ==
    \A n, m \in Node : \A b \in link[<<n, m>>].requested_blocks :
        LET asks(msg) == msg.type = "getdata" /\ b \in ToSet(msg.blocks)
            holds(msg) == asks(msg) \/ msg = BlockMsg(b)
        IN  \/ \E i \in DOMAIN todo[<<n, m>>] :
                  todo[<<n, m>>][i].op = "send" /\ asks(todo[<<n, m>>][i].msg)
            \/ \E msg \in ToSet(wire[<<n, m>>]) : asks(msg)
            \/ Send(n, BlockMsg(b)) \in ToSet(todo[<<m, n>>])
            \/ BlockMsg(b) \in ToSet(wire[<<m, n>>])

(* Nodes that stay connected end up with the same work, and stay there.    *)
Agreement ==
    <>[](\A n, m \in Node : TotalWork[tip[n]] = TotalWork[tip[m]])

(* A payment in one mempool of a connected network reaches every other     *)
(* mempool, or the chain its node shows.                                   *)
TxSpreads ==
    \A t \in Tx : \A n \in Node :
        t \in pool[n] ~> \A m \in Node : t \in pool[m] \cup TxsOn(tip[m])
================================================================================
