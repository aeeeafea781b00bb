------------------------------ MODULE ChainState ------------------------------
(***************************************************************************)
(* src/obsidion/chainstate.py over src/obsidion/storage.py: how a block    *)
(* handed over by a peer, the miner or the RPC server is folded into the   *)
(* chain.                                                                  *)
(*                                                                         *)
(* The node's lock serialises accept_block, so one call runs at a time;    *)
(* what interleaves with its steps is the death of the process.  The       *)
(* tables are modelled twice: as the open connection sees them, and as the *)
(* last COMMIT left them on disk, which is what ROLLBACK and a restart     *)
(* bring back.  A reorganisation is played step by step: one step for each *)
(* block disconnected, for each payment connected, for each block closed.  *)
(***************************************************************************)
EXTENDS Ledger, SequencesExt

CONSTANTS
    Copies,      \* Copies[b]: the copies of b in circulation, each given by
                 \* the set of its payments whose signatures do not verify
    LastTime,    \* bound on the clock
    MaxCrashes   \* bound on the deaths of the process

ASSUME CopiesAssumption ==
    /\ Copies \in [Block -> SUBSET (SUBSET Tx)]
    /\ \A b \in Block : \A d \in Copies[b] : d \subseteq PaymentSet(b)
    /\ Copies[Genesis] \subseteq {{}}
    /\ LastTime \in Nat
    /\ MaxCrashes \in Nat

VARIABLES
    \* The tables, as the connection sees them.
    body,          \* blocks: for a stored block, which signatures are bad
    index,         \* block_index: height, cumwork, active, status
    utxos,         \* utxos: the set of rows
    undo,          \* undo: the rows a connected block consumed
    tip,           \* meta["tip"]
    saved,         \* all of the above as of the last COMMIT
    \* The call of accept_block that is running.
    phase,         \* "idle", or the loop of _reorg_to it is in
    candidate,     \* the block being accepted
    fork,          \* where its branch leaves the active chain
    branch,        \* blocks of the branch still to connect
    cursor,        \* last block connected in the working view
    position,      \* next payment of the block being connected
    consumed,      \* undo_entries of the block being connected
    fees,          \* fees of the block being connected
    disconnected,  \* payments of the blocks taken off, newest block first
    connected,     \* blocks put on, oldest first
    reply,         \* how the last call ended
    \* The world.
    now,           \* the local clock
    crashes,       \* deaths so far
    \* History.
    offered        \* blocks of which an undamaged copy was handed over, after
                   \* their parent, at a time their header is acceptable

tables == <<body, index, utxos, undo, tip>>
call == <<phase, candidate, fork, branch, cursor, position, consumed, fees,
          disconnected, connected>>
vars == <<tables, saved, call, reply, now, crashes, offered>>

Known == DOMAIN index

Phases == {"idle", "disconnect", "connect", "commit"}

Entry == [height : Nat, cumwork : Nat, active : BOOLEAN,
          status : {"valid", "invalid"}]

Statuses == {"none", "connected", "reorged", "sidechain", "duplicate",
             "orphan", "rejected"}

(* INSERT OR REPLACE of one row. *)
Put(table, key, value) ==
    [k \in DOMAIN table \cup {key} |-> IF k = key THEN value ELSE table[k]]

Tables == [body |-> body, index |-> index, utxos |-> utxos, undo |-> undo,
           tip |-> tip]

TablesOK(t) ==
    /\ DOMAIN t.index \subseteq Block
    /\ t.index \in [DOMAIN t.index -> Entry]
    /\ t.body \in [DOMAIN t.index -> SUBSET Tx]
    /\ t.utxos \subseteq Row
    /\ DOMAIN t.undo \subseteq DOMAIN t.index
    /\ t.undo \in [DOMAIN t.undo -> SUBSET Row]
    /\ t.tip \in DOMAIN t.index

TypeOK ==
    /\ TablesOK(Tables)
    /\ TablesOK(saved)
    /\ phase \in Phases
    /\ {candidate, fork, cursor} \subseteq Known
    /\ branch \subseteq Known
    /\ position \in Nat \ {0}
    /\ consumed \subseteq Row
    /\ fees \in Nat
    /\ disconnected \in Seq(Tx)
    /\ connected \in Seq(Block)
    /\ reply.status \in Statuses
    /\ reply.disconnected \in Seq(Tx)
    /\ reply.connected \in Seq(Block)
    /\ now \in 0..LastTime
    /\ crashes \in 0..MaxCrashes
    /\ offered \subseteq Block

(***************************************************************************)
(* The database the first start leaves (_ensure_genesis).                  *)
(***************************************************************************)
Answer(status) ==
    [status |-> status, disconnected |-> <<>>, connected |-> <<>>]

Init ==
    /\ body = [b \in {Genesis} |-> {}]
    /\ index = [b \in {Genesis} |-> [height |-> 0, cumwork |-> Work(Genesis),
                                     active |-> TRUE, status |-> "valid"]]
    /\ utxos = RowsOf(Coinbase[Genesis], 0, TRUE)
    /\ undo = [b \in {Genesis} |-> {}]
    /\ tip = Genesis
    /\ saved = Tables
    /\ phase = "idle"
    /\ candidate = Genesis
    /\ fork = Genesis
    /\ branch = {}
    /\ cursor = Genesis
    /\ position = 1
    /\ consumed = {}
    /\ fees = 0
    /\ disconnected = <<>>
    /\ connected = <<>>
    /\ reply = Answer("none")
    /\ now = 0
    /\ crashes = 0
    /\ offered = {Genesis}

(***************************************************************************)
(* The checks made before anything is stored.                              *)
(***************************************************************************)

(* check_block_structure: what needs no chain to be judged. *)
CheckBlockStructure(b) ==
    /\ Coinbase[b] \in CoinbaseTx
    /\ Outputs[Coinbase[b]] # <<>>
    /\ PaymentSet(b) \cap CoinbaseTx = {}
    /\ \A t \in PaymentSet(b) : CheckStructure(t)
    /\ IsInjective(Payments[b])
    /\ WellFormedBits(Bits[b])
    /\ CompactToTarget(Bits[b]) > 0
    /\ b \in MeetsTarget

NewEntry(b) ==
    [height |-> index[Parent[b]].height + 1,
     cumwork |-> index[Parent[b]].cumwork + Work(b),
     active |-> FALSE,
     status |-> "valid"]

(* _recent_timestamps: the last MedianTimeBlocks blocks ending at p. *)
Recent(p) ==
    {a \in Ancestors[p] : index[a].height > index[p].height - MedianTimeBlocks}

(* expected_bits_for_next *)
ExpectedBitsForNext(p) ==
    LET height == index[p].height + 1
        start == CHOOSE a \in Ancestors[p] :
                    index[a].height = RetargetPeriodStartHeight(height)
    IN  ExpectedBits(height, Bits[p], Time[p], Time[start])

(* The contextual rules; only the last of them looks at the clock. *)
ContextOk(b, time) ==
    LET p == Parent[b]
    IN  /\ ClaimedHeight[Coinbase[b]] = index[p].height + 1
        /\ Bits[b] = ExpectedBitsForNext(p)
        /\ TimestampOk(Time[b], MedianTimePast(Recent(p), Time), time)

(* A copy the node could build the heaviest branch from. *)
Usable(b, damaged) ==
    /\ damaged = {}
    /\ Parent[b] \in Known
    /\ CheckBlockStructure(b)
    /\ ContextOk(b, now)

Offer(b, damaged) ==
    offered' = IF b # Genesis /\ Usable(b, damaged)
               THEN offered \cup {b}
               ELSE offered

(***************************************************************************)
(* accept_block, up to the point where the work is compared.               *)
(***************************************************************************)

(* The comparison that decides whether the branch of b is taken up.        *)
OutweighsByHeight(b) == NewEntry(b).height > index[tip].height   \* mutant
OutweighsByParent(b) == index[Parent[b]].cumwork > index[tip].cumwork   \* mutant
Outweighs(b) == NewEntry(b).cumwork > index[tip].cumwork

(* Seen before: the verdict stands, whatever this copy holds. *)
AcceptKnown(b, damaged) ==
    /\ phase = "idle"
    /\ b \in Known
    /\ reply' = Answer(IF index[b].status = "invalid"
                       THEN "rejected" ELSE "duplicate")
    /\ Offer(b, damaged)
    /\ UNCHANGED <<tables, saved, call, now, crashes>>

(* Malformed, or on top of a block with an invalid verdict: nothing is kept. *)
AcceptBad(b, damaged) ==
    /\ phase = "idle"
    /\ b \notin Known
    /\ \/ ~CheckBlockStructure(b)
       \/ Parent[b] \in Known /\ index[Parent[b]].status = "invalid"
    /\ reply' = Answer("rejected")
    /\ Offer(b, damaged)
    /\ UNCHANGED <<tables, saved, call, now, crashes>>

AcceptOrphan(b, damaged) ==
    /\ phase = "idle"
    /\ b \notin Known
    /\ CheckBlockStructure(b)
    /\ Parent[b] \notin Known
    /\ reply' = Answer("orphan")
    /\ UNCHANGED <<tables, saved, call, now, crashes, offered>>

(* What the remaining outcomes have in common. *)
Attachable(b) ==
    /\ phase = "idle"
    /\ b \notin Known
    /\ CheckBlockStructure(b)
    /\ Parent[b] \in Known
    /\ index[Parent[b]].status = "valid"

(* A contextual rule fails: _remember_invalid stores the verdict for good. *)
AcceptInvalid(b, damaged) ==
    /\ Attachable(b)
    /\ ~ContextOk(b, now)
    /\ body' = Put(body, b, damaged)
    /\ index' = Put(index, b, [NewEntry(b) EXCEPT !.status = "invalid"])
    /\ reply' = Answer("rejected")
    /\ UNCHANGED <<utxos, undo, tip, call, now, crashes, offered>>
    /\ saved' = Tables'

(* Not more work than the tip: stored with its transactions unexamined. *)
AcceptSidechain(b, damaged) ==
    /\ Attachable(b)
    /\ ContextOk(b, now)
    /\ ~Outweighs(b)
    /\ body' = Put(body, b, damaged)
    /\ index' = Put(index, b, NewEntry(b))
    /\ reply' = Answer("sidechain")
    /\ Offer(b, damaged)
    /\ UNCHANGED <<utxos, undo, tip, call, now, crashes>>
    /\ saved' = Tables'

(***************************************************************************)
(* _reorg_to: from BEGIN to COMMIT or ROLLBACK.                            *)
(***************************************************************************)

(* The walk from b down to the first active block. *)
InactiveBranch(b) ==
    {a \in Ancestors[b] :
        \A d \in Ancestors[b] \ {b} : a \in Ancestors[d] => ~index[d].active}

Oldest(S) == CHOOSE a \in S : Parent[a] \notin S

AcceptHeavier(b, damaged) ==
    /\ Attachable(b)
    /\ ContextOk(b, now)
    /\ Outweighs(b)
    /\ body' = Put(body, b, damaged)
    /\ index' = Put(index, b, NewEntry(b))
    /\ candidate' = b
    /\ branch' = InactiveBranch(b)
    /\ fork' = Parent[Oldest(branch')]
    /\ cursor' = tip
    /\ phase' = IF fork' = tip THEN "connect" ELSE "disconnect"
    /\ position' = 1
    /\ consumed' = {}
    /\ fees' = 0
    /\ disconnected' = <<>>
    /\ connected' = <<>>
    /\ UNCHANGED <<utxos, undo, tip, saved, reply, now, crashes, offered>>

(* set_active *)
MarkedAlways(b, active) == [index EXCEPT ![b].active = TRUE]   \* mutant
Marked(b, active) == [index EXCEPT ![b].active = active]

(* _disconnect restores what the block consumed, then deletes what it made: *)
(* an output made and spent inside the block must not survive.              *)
UndoneDeletingFirst(b) ==   \* mutant
    {r \in utxos : r.out \notin Keys(CreatedIn(b))} \cup undo[b]
UndoneKeepingOutputs(b) == utxos \cup undo[b]   \* mutant
Undone(b) == {r \in utxos \cup undo[b] : r.out \notin Keys(CreatedIn(b))}

(* The payments to hand back to the mempool. *)
ReturnedLastOnly(b) == Payments[b]   \* mutant
Returned(b) == disconnected \o Payments[b]

DisconnectTip ==
    /\ phase = "disconnect"
    /\ utxos' = Undone(cursor)
    /\ index' = Marked(cursor, FALSE)
    /\ disconnected' = Returned(cursor)
    /\ cursor' = Parent[cursor]
    /\ phase' = IF cursor' = fork THEN "connect" ELSE "disconnect"
    /\ UNCHANGED <<body, undo, tip, saved, candidate, fork, branch, position,
                   consumed, fees, connected, reply, now, crashes, offered>>

(* The block being connected: the walk from the candidate down is reversed. *)
Current == Oldest(branch)

(* The rows that the inputs of t find; what is left once they are deleted. *)
Found(t) == {r \in utxos : r.out \in Inputs[t]}
LeftAll(t) == utxos   \* mutant
Left(t) == utxos \ Found(t)

(* verify_input, for every input: the copy on disk carries signatures that *)
(* verify unless its body says otherwise.                                  *)
VerifyInputs(t) == t \notin body[Current]

PaymentOkUnsigned(t) ==   \* mutant
    /\ Inputs[t] \subseteq Keys(utxos)
    /\ \A r \in Found(t) : Mature(r, index[Current].height)
    /\ OutputTotal(t) <= InputTotal(t)
    /\ OutsOf(t) \cap Keys(Left(t)) = {}

PaymentOkYoung(t) ==   \* mutant
    /\ Inputs[t] \subseteq Keys(utxos)
    /\ \A r \in Found(t) : Mature(r, index[Current].height + 1)
    /\ VerifyInputs(t)
    /\ OutputTotal(t) <= InputTotal(t)
    /\ OutsOf(t) \cap Keys(Left(t)) = {}

(* What _connect asks of one payment. *)
PaymentOk(t) ==
    /\ Inputs[t] \subseteq Keys(utxos)
    /\ \A r \in Found(t) : Mature(r, index[Current].height)
    /\ VerifyInputs(t)
    /\ OutputTotal(t) <= InputTotal(t)
    /\ OutsOf(t) \cap Keys(Left(t)) = {}

(* One payment: its inputs leave the table for the undo record, its outputs *)
(* enter at once, so that a later payment of the block may spend them.      *)
ConnectPayment ==
    /\ phase = "connect"
    /\ position <= Len(Payments[Current])
    /\ LET t == Payments[Current][position]
       IN  /\ PaymentOk(t)
           /\ utxos' = Left(t) \cup RowsOf(t, index[Current].height, FALSE)
           /\ consumed' = consumed \cup Found(t)
           /\ fees' = fees + InputTotal(t) - OutputTotal(t)
    /\ position' = position + 1
    /\ UNCHANGED <<body, index, undo, tip, saved, phase, candidate, fork, branch,
                   cursor, disconnected, connected, reply, now, crashes, offered>>

RewardOk(b) ==
    /\ OutputTotal(Coinbase[b]) <= Subsidy(index[b].height) + fees
    /\ OutsOf(Coinbase[b]) \cap Keys(utxos) = {}

(* The coinbase is checked and added last; then the undo record is written *)
(* and the block becomes active.                                           *)
ConnectBlock ==
    /\ phase = "connect"
    /\ position > Len(Payments[Current])
    /\ RewardOk(Current)
    /\ utxos' = utxos \cup RowsOf(Coinbase[Current], index[Current].height, TRUE)
    /\ undo' = Put(undo, Current, consumed)
    /\ index' = Marked(Current, TRUE)
    /\ cursor' = Current
    /\ connected' = Append(connected, Current)
    /\ branch' = branch \ {Current}
    /\ phase' = IF branch' = {} THEN "commit" ELSE "connect"
    /\ position' = 1
    /\ consumed' = {}
    /\ fees' = 0
    /\ UNCHANGED <<body, tip, saved, candidate, fork, disconnected, reply, now,
                   crashes, offered>>

(* The call returns: its local variables are gone (at stands for them all). *)
Hangup(at) ==
    /\ phase' = "idle"
    /\ candidate' = at
    /\ fork' = at
    /\ branch' = {}
    /\ cursor' = at
    /\ position' = 1
    /\ consumed' = {}
    /\ fees' = 0
    /\ disconnected' = <<>>
    /\ connected' = <<>>

(* The tip moves and everything becomes durable at once. *)
Commit ==
    /\ phase = "commit"
    /\ tip' = candidate
    /\ Hangup(candidate)
    /\ reply' = [status |-> IF disconnected = <<>> THEN "connected" ELSE "reorged",
                 disconnected |-> disconnected,
                 connected |-> connected]
    /\ Offer(candidate, body[candidate])
    /\ UNCHANGED <<body, index, utxos, undo, now, crashes>>
    /\ saved' = Tables'

(* What ROLLBACK and a restart bring back. *)
Restore ==
    /\ body' = saved.body
    /\ index' = saved.index
    /\ utxos' = saved.utxos
    /\ undo' = saved.undo
    /\ tip' = saved.tip
    /\ Hangup(saved.tip)
    /\ UNCHANGED saved

RollbackRemembering ==   \* mutant
    /\ phase = "connect"
    /\ position <= Len(Payments[Current])
    /\ ~PaymentOk(Payments[Current][position])
    /\ body' = Put(saved.body, candidate, body[candidate])
    /\ index' = Put(saved.index, candidate,
                    [index[candidate] EXCEPT !.status = "invalid"])
    /\ utxos' = saved.utxos
    /\ undo' = saved.undo
    /\ tip' = saved.tip
    /\ Hangup(tip)
    /\ reply' = Answer("rejected")
    /\ UNCHANGED <<now, crashes, offered>>
    /\ saved' = Tables'

(* A ConsensusError on the way up: ROLLBACK, and no verdict is kept. *)
Rollback ==
    /\ phase = "connect"
    /\ \/ /\ position <= Len(Payments[Current])
          /\ ~PaymentOk(Payments[Current][position])
       \/ /\ position > Len(Payments[Current])
          /\ ~RewardOk(Current)
    /\ Restore
    /\ reply' = Answer("rejected")
    /\ Offer(candidate, body[candidate])
    /\ UNCHANGED <<now, crashes>>

(* The process dies inside the transaction and is started again. *)
Crash ==
    /\ phase # "idle"
    /\ crashes < MaxCrashes
    /\ crashes' = crashes + 1
    /\ Restore
    /\ reply' = Answer("none")
    /\ UNCHANGED <<now, offered>>

Tick ==
    /\ now < LastTime
    /\ phase = "idle"
    /\ now' = now + 1
    /\ UNCHANGED <<tables, saved, call, reply, crashes, offered>>

Accept(b, damaged) ==
    \/ AcceptKnown(b, damaged)
    \/ AcceptBad(b, damaged)
    \/ AcceptOrphan(b, damaged)
    \/ AcceptInvalid(b, damaged)
    \/ AcceptSidechain(b, damaged)
    \/ AcceptHeavier(b, damaged)

Working == DisconnectTip \/ ConnectPayment \/ ConnectBlock \/ Commit \/ Rollback

Next ==
    \/ \E b \in Block : \E damaged \in Copies[b] : Accept(b, damaged)
    \/ Working
    \/ Crash
    \/ Tick

Spec == Init /\ [][Next]_vars

-----------------------------------------------------------------------------
(***************************************************************************)
(* What must hold of the state on disk, hence after any crash.             *)
(***************************************************************************)

(* The blocks marked active are those prev_hash leads to from the tip, one *)
(* per height: what active_hash_at_height and every height-indexed query   *)
(* of the RPC server rely on.                                              *)
DurableActive ==
    {b \in DOMAIN saved.index : saved.index[b].active} = Ancestors[saved.tip]

(* The utxos table holds what was created and never spent on the active    *)
(* chain, whatever was disconnected, retried, rolled back or cut short by  *)
(* a crash on the way to it.                                               *)
DurableLedger == saved.utxos = LedgerAt[saved.tip]

(* No stored block that is not known to be invalid has more work than the  *)
(* tip: a heavier branch was adopted when its last block arrived, or that  *)
(* block was not stored.                                                   *)
MostWork ==
    \A b \in DOMAIN saved.index :
        saved.index[b].status = "valid" =>
            saved.index[b].cumwork <= saved.index[saved.tip].cumwork

(* Every block of the active chain was accepted from a copy whose          *)
(* signatures all verify, also when it was first stored as a side chain    *)
(* and connected long after.                                               *)
ActiveSigned == \A b \in Ancestors[saved.tip] : saved.body[b] = {}

(* total_utxo_value never exceeds the coins the emission schedule has      *)
(* released by the height of the tip.                                      *)
SupplyCap ==
    LedgerValue(saved.utxos) <= CirculatingSupply(saved.index[saved.tip].height)

(* A remembered verdict of invalid is about the header, the height and the *)
(* ancestors of the block, as they stood at some instant the clock has     *)
(* been at: never about what one copy carried (signatures, which the hash  *)
(* does not commit to) nor about the ledger it met on the way up, however  *)
(* the block came, failed, was cut short and came again.                   *)
VerdictEarned ==
    \A b \in DOMAIN saved.index :
        saved.index[b].status = "invalid" =>
            \E then \in 0..now : ~ContextOk(b, then)

(* More than that is claimed by accept_block, "the verdict permanent and   *)
(* safe to cache": no later call could find the rules kept.  It does not   *)
(* hold of a block that came before its time (chain_clock.cfg).            *)
VerdictPermanent ==
    \A b \in DOMAIN saved.index :
        saved.index[b].status = "invalid" => ~ContextOk(b, now)

(* The branch of b was handed over whole, undamaged, parents first, at     *)
(* times its headers are in order, and every rule is kept on it.           *)
HonestlyOffered(b) == Ancestors[b] \subseteq offered /\ BranchValid(b)

(* What is stored of the branch of b was stored from an undamaged copy and *)
(* not before its time.                                                    *)
KeptUnspoilt(b) ==
    \A a \in Ancestors[b] \cap Known :
        body[a] = {} /\ index[a].status = "valid"

(* The node follows the heaviest branch among those it could have built    *)
(* from what it was given.  A copy whose branch failed on the way up, a    *)
(* verdict on another branch, a crash in between do not stand in the way;  *)
(* only a spoilt copy that is still stored may (HonestCopyWins).           *)
HeaviestHonestBranch ==
    phase = "idle" =>
        \A b \in offered :
            HonestlyOffered(b) /\ KeptUnspoilt(b) => CumWork(b) <= index[tip].cumwork

(* The same with no exception: "caching that verdict would make the node   *)
(* reject the genuine block forever", so accept_block means to take the    *)
(* genuine block whatever copy of it came first.  It does not, when the    *)
(* damaged copy was stored unexamined on a side branch.                    *)
HonestCopyWins ==
    phase = "idle" =>
        \A b \in offered : HonestlyOffered(b) => CumWork(b) <= index[tip].cumwork

(***************************************************************************)
(* What must hold while a reorganisation is running.                       *)
(***************************************************************************)

(* Undoing a block never finds a row it has to insert already there (the   *)
(* error would not be a ConsensusError and would leave the transaction     *)
(* open), and never lacks an undo record or an unspent output to delete.   *)
UndoApplies ==
    phase = "disconnect" =>
        /\ cursor \in DOMAIN undo
        /\ Keys(undo[cursor]) \cap Keys(utxos) = {}
        /\ Keys(CreatedIn(cursor)) \subseteq Keys(utxos \cup undo[cursor])

(* Between two blocks the working table is the ledger of the last block    *)
(* connected, on the way down as on the way up.                            *)
WorkingLedger == position = 1 => utxos = LedgerAt[cursor]

(***************************************************************************)
(* What a step may never do.                                               *)
(***************************************************************************)

(* The tip on disk is only ever replaced by one with more work: of two     *)
(* equal branches the one seen first stays.                                *)
WorkOnlyGrows ==
    [][saved'.tip # saved.tip =>
         saved'.index[saved'.tip].cumwork > saved.index[saved.tip].cumwork]_vars

(* The answer of the call that moves the tip. *)
TellsTheChange ==
    LET off == Ancestors[saved.tip] \ Ancestors[saved'.tip]
        on == Ancestors[saved'.tip] \ Ancestors[saved.tip]
    IN  /\ ToSet(reply'.disconnected) = UNION {PaymentSet(b) : b \in off}
        /\ ToSet(reply'.connected) = on
        /\ \A i, j \in DOMAIN reply'.connected :
              i < j => Height[reply'.connected[i]] < Height[reply'.connected[j]]

(* When the tip moves the caller is told exactly what left and what entered *)
(* the active chain; the mempool is repaired from nothing else.             *)
ReplyTellsTheChange == [][saved'.tip # saved.tip => TellsTheChange]_vars

(***************************************************************************)
(* What the callers may rely on.                                           *)
(***************************************************************************)

(* The blocks that end a valid branch. *)
ValidTips == {b \in Block : BranchValid(b)}

Promise == INSTANCE HeaviestChain WITH
               GenesisWork <- Work(Genesis),
               chainTip <- saved.tip,
               chainWork <- saved.index[saved.tip].cumwork,
               coins <- saved.utxos

(* The chain state implements the abstract promise of HeaviestChain: seen  *)
(* through its last commit it moves, in one step, from one valid branch to *)
(* a valid branch with more work.                                          *)
PromiseKept == Promise!Spec
=============================================================================
