# Obsidion in TLA+

A verification project for the Obsidion node (`src/obsidion`) and its bridge
(`src/bridge`): TLA+ modules that model the parts of the system that keep state,
TLC runs that check them on small instances, and theorems about all of them
that TLAPS proves for every instance.

| Part | Modules | Runs | Proofs |
|---|---|---|---|
| consensus arithmetic, merkle tree | `Consensus`, `Branch`, `Merkle`, `MCBranch` | `branch` | `Branch_proof` |
| chain state | `Ledger`, `HeaviestChain`, `ChainState`, `MCChainState` | `chain`, `chain_damaged_copy` | `ChainState_proof` |
| mempool, node, templates | `Mempool`, `Node`, `MCNode` | `node_pool` | `Node_proof` |
| bridge | `MintOnce`, `BridgeLedger`, `BridgeWatcher`, `MintService`, `Bridge`, `MCBridge` | `bridge_once`, `bridge_live`, `bridge_unknown` | `Bridge_proof` |
| synchronisation and gossip | `Peers`, `MCPeers` | `peers_sync`, `peers_gossip`, `peers_fork` | `Peers_proof` |
| upkeep of connections | `Upkeep`, `MCUpkeep` | `upkeep` | `Upkeep_proof` |
| wallet, `send` and addresses over RPC | `Wallet`, `MCWallet` | `wallet` | `Wallet_proof` |

`Sums` has sums over finite sets, which several of these use, and `Sums_proof`
the lemmas about them.

Under `peers_fork`, `chain_damaged_copy` and `bridge_unknown` TLC finds what the
code or its documentation says to be violated. Seven configurations more have no
entry among the runs: `chain_clock`, `branch_slow`, `bridge_depth`,
`bridge_reappears`, `node_parent`, `merkle_twin` and `upkeep_slow` each reproduce
one of the other disagreements listed under "Where code and documentation
disagree".

Definitions marked `\* mutant` are not part of any specification: each is a
plausible mistake in the definition that follows it, and substituting it breaks
the property `PROJECT.json` pairs it with.

## The system

Obsidion is a proof-of-work coin in Python. A node is one process: an asyncio
loop that serves peers and RPC clients, a miner thread, and one lock that
serialises everything that touches the chain. Its state is an SQLite database
and a wallet file. The bridge is a second process that follows the node over RPC
and mints wrapped coins on Solana.

| Component | State it keeps | Operations | Talks to |
|---|---|---|---|
| consensus rules (`consensus.py`, `block.py`, `params.py`) | none | subsidy, supply, retarget, median time, structural and contextual checks | called by the chain state and the miner |
| chain state (`chainstate.py`, `storage.py`) | SQLite tables `blocks`, `block_index`, `utxos`, `undo`, `meta` | `accept_block` (reject, remember invalid, store as side chain, connect, reorganise), lookups | called by the node under its lock; answers with a `ConnectResult` |
| mempool (`mempool.py`) | entries, spent-outpoint index, total size | `accept`, `remove_confirmed`, `reconsider`, `select`, eviction | reads the chain state; fed by the node with every `ConnectResult` |
| miner (`miner.py`) | stop flag, counters | build a template, grind, submit, notice that the tip moved | reads chain state and mempool, calls back `submit_block` |
| peer-to-peer node (`p2p.py`) | peers, orphans, bans, known addresses | handshake, inventory, block sync, gossip, scoring, maintenance | calls `submit_block` and `submit_tx` |
| node (`node.py`) | lock, wiring | start, stop, submit, mine, generate | owns all of the above |
| wallet (`wallet.py`) | key file, reservations | new address, forget address, save, create transaction, release | reads the chain state |
| RPC server (`rpc.py`, `rpcclient.py`, `cli.py`) | cookie file | request dispatch, `send`, queries | calls node, wallet, mempool |
| bridge ledger (`bridge/ledger.py`) | SQLite tables of deposits and destinations | record, promote, mark ready, in flight, done, abandon | called by watcher and minter |
| bridge watcher (`bridge/watcher.py`) | none | poll, reconcile, apply | reads the node over RPC |
| bridge minter (`bridge/minting.py`) | none | mint pass, resolution of mints whose outcome is unknown | Solana |
| primitives (`transaction.py`, `merkle.py`, `genesis.py`, `crypto.py`, `_ripemd160.py`) | none | encodings, hashes, signatures | everybody |
| front ends (`hud/`, `explorer/`, `deploy/`) | display state | show and launch | RPC |

What is hard here: reorganisations that undo and redo ledgers block by block,
and that may fail or be cut short half way; verdicts and bodies that are stored
long before they are used; a mempool repaired only from what the chain state
reports; peers whose messages race; a bridge that must act exactly once on a
chain that can change its mind, against a second chain whose answers may be
late.

What makes each part correct:

* chain state: the unspent outputs are those of the active chain; the tip is the
  heaviest branch the node could build; failure and death leave no trace; a
  verdict that is remembered was deserved, and an honest copy is not kept out;
* mempool: its transactions can be mined, conflict with nothing, and stay within
  the limit; nothing valid is lost over a reorganisation that the limit does not
  force out;
* miner: a block it submits is acceptable on the tip it was built for, and it
  does not keep on working on a tip that is gone;
* peer-to-peer: an honest peer is never punished, every node of a connected
  network comes to the same chain, a slow peer does not stop the others;
* wallet: no key that controls coins is forgotten, no coin is spent twice by two
  payments of its own;
* bridge: at most one mint per deposit, none without a buried deposit behind it,
  every buried deposit eventually minted or given up on in the open.

## Chain state

`Consensus` holds the pure rules, `Ledger` the universe of blocks and
transactions and the declarative meaning of a chain's ledger, `ChainState` the
code, `HeaviestChain` the abstract promise, `MCChainState` the instances and
`ChainState_proof` the proofs.

### How the state corresponds

| Variable | Code |
|---|---|
| `body` | table `blocks`; a block is its hash, the body stored for it is the set of payments whose signatures do not verify |
| `index` | table `block_index`: height, cumulative work, active, status |
| `utxos`, `undo`, `tip` | tables `utxos` and `undo`, `meta["tip"]` |
| `saved` | the tables as of the last `COMMIT`: what `ROLLBACK` and a restart bring back |
| `phase`, `candidate`, `fork`, `branch`, `cursor`, `position`, `consumed`, `fees`, `disconnected`, `connected` | locals of `accept_block`, `_reorg_to` and `_connect` |
| `reply` | the `ConnectResult` returned or the exception raised |
| `now`, `crashes` | the local clock, the deaths of the process so far |
| `offered` | history: the blocks an undamaged copy of which was handed over after the parent, when the header rules admitted it |

Each early return of `accept_block` is an action (`AcceptKnown`, `AcceptBad`,
`AcceptOrphan`, `AcceptInvalid`, `AcceptSidechain`); a heavier block opens a
transaction (`AcceptHeavier`), and the reorganisation is then played one block
disconnected (`DisconnectTip`), one payment connected (`ConnectPayment`) and one
block closed (`ConnectBlock`) at a time, up to `Commit` or `Rollback`. `Crash`
may strike at each of these steps. Calls do not overlap: the node's lock
serialises them.

What is abstracted. A hash determines the header and, through the merkle root
over txids, every transaction but its signatures, so a block is an element of
`Block` and everything but its signatures is a constant function of it.
Signatures are a property of the copy that is handed over (`Copies`). The byte
size of a block and the encodings are not modelled, the merkle root is by itself
(`Merkle`): a copy that fails them is refused before anything is stored, like
`AcceptBad`. Proof of work
is the constant `MeetsTarget`. The compact encoding keeps its two fields, its
sign bit and its exponent limit, over a smaller base (`CompactBase`, 256 in the
code) and a smaller hash space (`WorkSpace`, 2^256 in the code), because TLC's
integers have 32 bits.

### Properties and runs

| Run | Universe | Bounds | Shows |
|---|---|---|---|
| `chain` | three families of blocks (below) | one crash, two clock values, blocks with payments also in a damaged copy | everything the chain state promises |
| `chain_damaged_copy` | two branches, one with payments | no crash, damaged copies | a damaged copy keeps the honest one out (disagreement 2) |

The tree of the run `chain` has three families of blocks, which share genesis
and `a1` only:

* `ReorgBlocks`: three branches of two to four blocks with conflicting and shared
  payments, a chain of spends inside a block, a double spend at the third block
  of a branch, and damaged copies of every block with payments;
* `RuleBlocks`: one child of `a1` for each rule, breaking that rule alone,
  children of invalid blocks, and `f1`, whose timestamp is beyond
  `MaxFutureBlockTime` when the clock shows 0 and within it when it shows 1;
* `LiveBlocks`: a quick and a slow branch with a retarget at height 2, so that
  the shorter is the heavier, and an invalid block as heavy as the heaviest.

The peers of one behaviour hand over the blocks of one family, in any order and
any number of times (`Within`): blocks of two families have nothing to do with
one another, and mixing them would only multiply the states. The clock moves
where blocks wait for it, in `RuleBlocks`, and the process may die in the other
two. Between them the families have blocks at four heights, because the shortest
scenario with everything in it (a reorganisation of two blocks onto a branch
whose third block fails) needs them; two branches and a common ancestor are
needed for a fork, a third for a reorganisation that follows a reorganisation.
Subsidy 8 with a halving at height 3 puts an era boundary inside the branches.
Deadlock is checked: a call that has begun can always go on.

* `DurableLedger`, `DurableActive`, `MostWork`, `ActiveSigned`, `SupplyCap`: what
  the disk shows after the last commit is the ledger of the heaviest branch
  stored, its flags are that branch's, all of it is signed, and it is worth no
  more than was issued.
* `UndoApplies`: taking a block off always finds what it needs.
* `VerdictEarned`: who is remembered as invalid broke a rule of its header, its
  height or its ancestors at some instant the clock has been at: no signature,
  no ledger, no failure of another block is ever held against a hash. That the
  verdict would be the same today (`VerdictPermanent`) is more than the code
  keeps: `chain_clock.cfg` (disagreement 1).
* `HeaviestHonestBranch`: between two calls no valid branch that was handed over
  whole and undamaged, at times it was admissible, has more work than the active
  chain, whatever damaged copies, failed reorganisations, verdicts on other
  branches and crashes came before. The one exception is written into it
  (`KeptUnspoilt`): a damaged or early copy of a block of that branch is what is
  stored. Damaged copies are in circulation while this is checked, and leave no
  trace when they fail; that the stored ones may is `HonestCopyWins`, under
  `chain_damaged_copy`.
* `PromiseKept`: `Promise` instantiates `HeaviestChain` with what the last commit
  shows (`saved`); through that window the node jumps, in one step, from one
  valid branch to a valid branch with more work, whatever happens inside the
  transaction.
* `ReplyTellsTheChange`: the answer of a call lists exactly what left and what
  entered.
* `Converges`: whatever the order of `LiveBlocks`, the node ends on a heaviest
  valid branch.

Fairness (`FairSpec`). `WF_vars(Working)`: a call of `accept_block` that has
begun runs on, it never waits for anything. `SF_vars(InLive /\ Accept(b, {}))`
for `k1` and `k2`, the blocks of the heaviest branch: the environment hands them
over again and again, in between calls; this is an assumption about the network,
justified by `getblocks`, which the peer-to-peer layer sends whenever a block
turns out to be an orphan and at every handshake. Without it nothing obliges
anyone to offer a block. All other blocks come once, often or never, before or
after.

### What is proved

`ChainState_proof` proves, for every block tree, every set of copies and every
value of the parameters that meets the named assumptions of `Consensus`,
`Ledger` and `ChainState`:

* `TypeCorrect`: `Spec => []TypeOK`;
* `LedgerCorrect`, `ActiveChainCorrect`, `HeaviestStored`, `ActiveChainSigned`:
  the invariants `DurableLedger`, `DurableActive`, `MostWork`, `ActiveSigned`
  of the disk;
* `DisconnectNeverFails`, `WorkingLedgerCorrect`: the invariants `UndoApplies`
  and `WorkingLedger` of the open transaction;
* `TipGainsWork`: the action property `WorkOnlyGrows`;
* `SupplyCapped`: the invariant `SupplyCap`, no more coins exist than the
  schedule has released;
* `PromiseHolds`: the refinement `PromiseKept`, that is
  `Spec => Promise!Spec` for `HeaviestChain`;
* `CallerToldTheChange`: the action property `ReplyTellsTheChange`, from which
  the mempool lives;
* `VerdictsEarned` and `HeaviestFollowed`: `VerdictEarned` and
  `HeaviestHonestBranch`, for every clock and whatever damaged copies and early
  blocks are in circulation;
* `CallsEnd`: each step of a call in progress decreases a measure, the stage,
  then the blocks left in it, then the payments left in the block (`Stage`,
  `BlocksLeft`, `PaymentsLeft`, all natural numbers), so a reorganisation of any
  depth comes to an end; it is the part of `Converges` that is not fairness;
* `AnyDepthUndone` (`DurableUndo`): every active block but genesis can be taken
  off with the undo records on disk, and that gives the ledger of its parent;
* `IndexIsTrue` (`IndexTellsTree`): heights and cumulative work in the index,
  each computed from the parent's row, are those of the whole branch;
* `FirstCopyStays` (`RowsStay`): the stored copy of a block, its verdict, height
  and work never change.

`TypeOK`, `WorkingLedger` and `WorkOnlyGrows` are proved and no longer part of a
run; the same holds for the type invariants of the other modules with proofs, for
`MintedOnRecord` and `FinalStates` of the bridge, and for what the last four
theorems state, which is defined beside its proof.

They rest on one inductive invariant, `IInv`. None of the properties is
inductive: that a table is the ledger of the tip says nothing of what undoing a
block will leave. `IInv` adds that the undo record of every active block is
exactly the rows it consumed, its own included (`ConsistentAt`); that every
active block was sound when it was connected, that is it spent what existed,
nothing twice, and created outputs that were new (`Sound`); that each stored
block passed the structural checks and, if not invalid, has ancestors that are
not invalid and claims its own height (`BlocksOK`); and what the table is half
way through a block (`Partial`). The argument then goes: the blocks stored form
a tree in which two branches part at one block (`TreeGrows`, `Meet`), so the
walk of `_reorg_to` finds the fork (`WalkFindsFork`) and connects the branch in
order (`OldestIsNext`); undoing a sound block restores the ledger of its parent
(`UndoRestores`), which is where the order of the two passes of `_disconnect`
matters; connecting a payment or a coinbase adds rows that are new to the branch
(`PaymentIsNew`, `BlockStep`), the former because a payment has inputs that can
be spent only once, the latter because no two blocks of a branch claim the same
height.

The properties added to these each follow from `IInv` and an invariant of their
own, proved on top of it.

* `SettledOK`: the chain of the disk and the part of the new branch that has
  been connected are valid, block by block, in the sense of `Ledger`, and the
  rows of each such block are worth at most what was issued up to its height;
  in the middle of a block the account is open by the fees collected so far
  (`PaidOK`). `SupplyCapped` and the validity part of `PromiseHolds` follow. A
  sum is taken apart at the rows a payment takes and gives (`SumTakeOut`,
  `SumUnion`); that the last reward never overshoots is the arithmetic of eras.
* `ToldOK`: at each step of a reorganisation `disconnected` holds the payments
  between the old tip and the point reached, and `connected` the blocks from the
  fork up, by height. At the commit these are the difference of two branches.
* `VerdictOK`: who is called invalid broke a rule of its header, its height or
  its ancestors at some instant the clock has been at. It looks at ancestors
  only, whose rows do not change (`RowsStay`).
* `CopiesOK`, `WorkOK`, `OfferedOK`: the stored copy of a block in the index of
  the disk is the one an open transaction sees; the index has the work of each
  branch; what was offered in good order and is valid, on a branch whose stored
  part is unspoilt, is stored itself. The last is what makes an exception of
  `KeptUnspoilt` enough: a copy that is stored undamaged and not called invalid
  blocks nothing above it, since connecting it again comes to the same end.

`GenesisRewardAssumption` is a fact of the code: `genesis.py:33-40` pays genesis
the first subsidy.

Only model-checked: the liveness property `Converges`.

## Consensus arithmetic and merkle tree

`Consensus` also stands alone: `Branch` lets miners extend one branch with any
timestamps that `check_timestamp` admits, takes the difficulty bits from
`ExpectedBits` and pays every block its full subsidy. Its two variables are the
branch (`chain`, what `_recent_timestamps` and `_ancestor_at_height` walk) and
the sum of the rewards paid (`issued`). `Merkle` has the tree of `merkle.py` as
operators (a hash is the pair it was made of, so that hashes never collide) and
one variable, a list of transactions that grows by one at a time, repeats
included. `MCBranch` puts the two side by side: either a branch grows or a list.

Run `branch`: height up to 7, timestamps up to 14, difficulty periods of three
blocks, eras of two blocks with a first reward of 3 and `MaxHalvings = 3`, so
that a reward truncated to zero, the end of emission, two retargets, spans that
are negative, too short, on time and too long, and the clamps on both sides all
occur. The base of the compact form is 16 and the floor of difficulty is
`<<4, 450>>`, whose half needs the extra exponent that the sign bit forces.
Lists of up to five of five transactions: five is the first length whose tree
doubles a hash in two rows. The branch ends at the bound on the height and a
list at its length, so deadlock is not checked.

* `SupplyIsSum`: the closed formulas (`circulating_supply`, `total_supply`,
  `next_halving_height`) against what was paid block by block, the cap included.
* `TargetWritable`: `check_expected_bits` compares compact forms, so each target
  must have one and survive the round trip.
* `AdjustmentFollowsSpan`: the target moves only when a period ends, and then with
  the time from the period's first block to its last, whatever timestamps the
  miners choose. The code holds that time against `RetargetInterval` block times,
  one more than there are gaps, so a period on time or a little slow is followed
  by a harder one; the property bounds by how much: at most one part in
  `RetargetInterval`, and what is lost when the target is written
  (`Written`). That slow periods are eased, as the docstring says, is
  `SlowIsEased`, which `branch_slow.cfg` shows violated (disagreement 3).
* `MedianNeverReturns`: the lower bound on timestamps is monotone along a branch.
* `RootCommits`: for the root of a list without repeats no other list of any
  length passes `check_block_structure`, and a proof convinces for the
  transaction at its place and no other. The mutant shows that this rests on the
  rule against repeats, not on the tree (disagreement 10 below).

### What is proved

`Branch_proof` proves all five, for branches and blocks of any length, any choice
of timestamps and any parameters that meet the assumptions.

* `MedianRisesAlways` (`MedianNeverReturns`). `ChainOK` says that a branch is a
  nonempty sequence with natural timestamps. If the median fell, the entries of
  the next window up to the new median, more than half of it, would all be
  entries of the old window below the old median, at most half of it: the new
  block is not among them, for its timestamp exceeds the old median.
* `SupplyIsSumAlways` (`SupplyIsSum`). The invariant is `IssuedOK`, that what was
  paid is `CirculatingSupply` of the height. The step is that the closed formula,
  full eras and a rest, grows by the subsidy of the next height, at the end of
  an era and of the last one too (`PaidNext`); the cap is `PaidAtMostAll`.
* `AdjustmentAlwaysFollows` (`AdjustmentFollowsSpan`). Reading back what
  `target_to_compact` wrote clears the last bytes of a target (`CompactFacts`);
  how many is a step function of its size (`Loses`), whichever of the cases of
  the code applies: up to three bytes or more, sign bit or not. So writing does
  nothing the second time (`RoundedTwice`), and a target that has been written
  stays below whatever is written of a larger one (`RoundedKeeps`; here the base
  must be even, or the step from one size to the next would not be a multiple of
  what is cleared there). The invariant is `TipOK`, that the bits at the tip have
  survived a round trip; the clamped span lies on the side of the intended one
  where the measured span was, hence so does the adjusted target, and writing it
  does not bring it to the other side. For the bound, a span of at least `OnTime`
  is still at least that after the clamp (`OnTimeClamped`), more time never
  scales to less (`ScaledMore`), and so the old target scaled by `OnTime` is,
  once written, no larger than what is written of the new one (`OnTimeLoses`).
* `TargetStaysWritable` and `TargetAlwaysWritable` (`TargetWritable`). Nothing in
  `expected_bits` keeps a target above zero: each retarget may divide it by
  `max_retarget_factor`, and after enough of them it is zero, a target no hash
  meets, although it is long out of reach of any miner by then. So there are two
  theorems. The first has no bound on the height: while the target is positive,
  all the rest of `TargetWritable` holds. The second is `TargetWritable` itself,
  for branches up to a `LastHeight` at which the floor, divided by twice the
  factor at each retarget, still has something left (`RoomLeft`; twice, because
  writing takes less than half, `RoundedFacts`), and a factor that divides the
  length of a period (`ClampDivides`), as 4 does in every network of `params.py`.
  The floor of the main network, `0x1F0FFFFF`, has room for 81 retargets in a row
  that are all as hard as the clamp allows; that of the run, 7200 with a factor
  of 2, has room for its two.
* `RootAlwaysCommits` (`RootCommits`), under the hypothesis `NoTxidIsPair`: no txid
  is the hash of a pair. A hash has one preimage, and what a txid hashes is a
  whole transaction, longer than the 64 bytes of a pair. Rows made of a list
  without repeats have no repeats (`RowsInjective`), so a last hash that was
  doubled is never taken for two (`Unpaired`); two such lists with one root then
  have the same rows from the root down (`SameRoot`), and because leaves are not
  pairs both reach their leaves at the same depth (`OneList`). A proof is climbed
  row by row: the hash reached is the one in the row exactly if the leaf was
  (`ProofConvinces`).

The assumptions are those of the code: `DifficultyAssumption` (positive interval,
block time and factor, an even base) and `FloorAssumption` (`pow_limit_bits` is
what `target_to_compact` would write). `CompactToTarget` and `MerkleProof` are
written with recursive functions for powers and positions, because the prover
knows nothing of `^`.

One thing read in the code is no property here: `next_halving_height` keeps
announcing halvings of a reward that truncation has already made zero.

## Mempool and node

`Mempool` says what each operation of `mempool.py` makes of a pool, as operators;
`Node` is the state machine around it: blocks and transactions submitted to the
network thread and the repair of the pool after each block; `MCNode` is the
instance. The chain underneath is not `ChainState` again but what `ChainState`
was shown to promise (`PromiseKept`, `ReplyTellsTheChange`): one step from a
valid branch to a heavier one, with an answer that names what left and entered.

### How the state corresponds

| Variable | Code |
|---|---|
| `tip`, `stored` | the chain state, between two calls of `accept_block` |
| `pool` | `entries`, `spends`, `total_size` of `Mempool` |
| `phase` | where the network thread is: waiting, in `submit_block` with the lock let go, in the two halves of `_absorb` |
| `settling` | transactions of `result.connected` that `remove_confirmed` has still to see |
| `pending`, `failing`, `progressed` | locals of `reconsider` |
| `owed` | history: what was waiting or was taken off the chain, less what better payers displaced |

`AcceptSidechain` and `AcceptHeavier` are `submit_block` up to the release of the
lock, `Absorb`, `SettleNext`, `Reconsider`, `OfferNext`, `NextPass` and `Finish`
the repair, transaction by transaction in the code's order, `SubmitTx` an
admission, `Restart` the death of the process, which loses the pool. Every call
of `submit_block` and `submit_tx` runs on the network thread, and there is no
`await` between `accept_block` and the end of `_absorb`, so no other submission
comes in between; the miner's thread does, where the lock is free
(`Unlocked`), and gets `Template`.

Left open or out: which of two entries with the same fee rate goes first (the
code: the earlier), signatures of submitted transactions, when the miner throws
a template away.

### Properties and runs

| Run | Bounds | Shows |
|---|---|---|
| `node_pool` | eleven blocks, three branches of which one wins twice, six payments (a chain of three, a double spend, two spends of rewards, one of them on one branch only), room for five of nine bytes, templates of four | the index agrees with the entries; nothing settled is left after a repair; a reorganisation loses no payment; templates are ordered, free of double spends, also before the repair, and leave nothing out that fits |

The sizes are chosen so that a family of three fills the pool and the next
payment has to displace part of it. The two branches that overtake the one with
payments, one with a rival spend and one without, are what it takes for a
payment to be impossible, respectively to come back, and the fifth block of the
first branch brings it back after that.

`TemplateSound` leaves the age of rewards out. `select` looks inputs up again
but not their age, so that after a reorganisation to a heavier but shorter
branch, which takes a retarget between the two, the template spends a reward
that is not mature yet and the block is refused until it is. `mempool.py:254`
says "selection double-checks rather than trusting admission-time state". No run
here has such branches.

### What is proved

`Node_proof` proves, for every tree of blocks, every set of payments, every pool
size and whatever order entries of equal rank go in: `TypeCorrect`,
`IndexCorrect` (`IndexExact`), `NothingSettledWaits` (`Unsettled`), `SizeKept`
(the size kept by hand is the sum over the entries), `NothingIsLost`
(`NothingLost`), `TemplatesAreSound` (`TemplateSound`) and
`TemplatesAreComplete` (`TemplateComplete`). `StructureAssumption` is what
`check_block_structure` has refused before: a block has one coinbase, its
payments are none and pass the checks of a transaction.

`Unsettled` is not inductive: from the moment a block is accepted until the end
of the repair it is false. `IInv` says that whatever makes an entry impossible
is still on the list to be settled (`Scheduled`). Settling a transaction removes
every rival because rivals are found through the index (`SettledExact`, from
`IndexExact`). A newcomer conflicts with nothing settled (`NewcomerUnspent`):
what it finds on the chain is unspent there; what it finds in the pool is not on
the chain, because the maker of anything the chain has spent is confirmed
(`MakerConfirmed`, from `Rooted`: a chain of valid blocks spends only what it
created) and the pool holds nothing confirmed.

`NothingLost` speaks of the end of a repair only, and each step on the way drops
somebody. `RepairInv` keeps the account (`Accounted`): who is owed a place is in
the pool, confirmed, still to be offered, refused in this pass, or stranded. The
stranded are a set such that each lacks an input that only a stranded or a
confirmed transaction makes, or that the chain has spent; nobody stranded is
ever admitted, and a pass without progress strands those it has refused, unless
the pool was full. A rival of a settled transaction goes with its family, and
the family is closed under spending (`FamilyGrows`), so nobody is left behind
who spends what is gone. That a rival cannot come back rests on `SpentOnce`: a
valid branch spends nothing twice.

A template is the last value of a recursive function, and its properties are
those of every value (`TakenOrSkipped`): each payment finds its inputs on the
chain or before it (`Grounded`), none is there twice, no two spend the same
output because the pool's entries do not (`IndexExact`), and the size fits. A
pass that adds nothing has seen every entry with the final selection
(`TemplateComplete`), and a selection can grow only as often as there are
entries, so that the passes end. None of this depends on the ranking; what
`InOrder` does is proved from `PaysLess` and `PaysMore` being strict orders with
ties (`InOrderFacts`).

All invariants the run of `Node` checks are proved.

## Bridge

`BridgeLedger` is the table of deposits, `BridgeWatcher` and `MintService` the
two services that work on it, each step between two calls an action of its own,
`Bridge` their composition with the node's chain, the Solana cluster and death
of the process, `MintOnce` the abstract promise, `MCBridge` the instance.

### How the state corresponds

| Variable | Code |
|---|---|
| `events` | table `events`, deposits only: state and the height first recorded |
| `assigned` | table `destinations`, the addresses handed out |
| `stage`, `tipHeight`, `unread`, `seen` | locals of `poll`: where it is, `getinfo`'s height, the addresses still to ask about, what `getaddressutxos` said |
| `toRecord`, `toAbandon`, `toAlert` | the `Actions` that `reconcile` returns |
| `alerted` | alerts logged for the operator |
| `pass`, `todo`, `current`, `answer`, `unresolved` | locals of `run_once`, `_resolve_in_flight` and `_mint_one`, and `MintReport.unresolved` |
| `tip`, `placed` | external: the node's active chain, as far as deposits go |
| `afloat`, `landed`, `attempts` | external: requests to the cluster under way, mints that exist, calls of `mint` per deposit |
| `reorgs`, `vanished`, `buried`, `tried` | history, read by properties only |
| `outages`, `failures`, `crashes` | counters that bound what goes wrong |

A poll is `GetInfo`, `ReadDestinations`, `GetAddressUtxos` per address,
`Reconcile` (which reads the ledger), then `ApplyRecord`, `ApplyAbandon` or
`AbandonRefused` row by row, and `AlertAndPromote`. A pass is `BeginPass`,
`FindMint` or `FindMintRaises` and `Settle` per row in flight, `Blocked` or
`Proceed`, then `DeclareIntent` or `IntentRefused`, `CallMint`, `MintReturns` or
`MintRaises`, and `RecordMint` per row that was ready. Chain, cluster, watcher,
minter and crash interleave freely between these.

What is abstracted or assumed:

* `Definite`: the contract of `find_mint`. With `TRUE` it answers "none" only
  when no request for the deposit can still land, and raises otherwise. The
  Solana client is not in the repository; a `find_mint` without this property
  (`Definite = FALSE`) lets a request that was given up for lost land after the
  retry, which the module expresses and no run shows.
* The repository has no driver yet: the models run one poll and one pass at a
  time, as the tests do.
* A deposit is its outpoint; rows are taken in any order where the code takes
  them by rowid; a destination is its address. Amounts are exact integers.
* Burns (`record_burn`, `mark_ready`) have no caller in the repository and are
  left out.
* A mining reward is passed over by the same filter as dust; the runs hold a
  dust output only.

### Properties and runs

| Run | Bounds | Shows |
|---|---|---|
| `bridge_once` | two deposits, depth 2, two blocks, one reorganisation, one crash, one failed call of the node, one failure of the cluster | no deposit is minted twice; supply and ledger agree; what an earlier pass or process left in flight is settled before anything new is minted; only what left the chain is given up; the refinement of `MintOnce` |
| `bridge_live` | a deposit and a dust output, one reorganisation, one crash, one failed call each | nothing shallow or too small is minted; a deposit that stays is minted; a minted deposit that vanishes is brought before the operator |
| `bridge_unknown` | two deposits, two blocks, one failure of the cluster | with a mint's outcome unknown the pass goes on to mint the next (disagreement 6) |

Two deposits are what it takes for the loops to hold one while the other's
outcome is unknown; one failure of each kind is enough because each resets to
the same kind of state (a poll or a pass that ended early), which the proofs
confirm for any number.

`EarlierResolvedFirst` says of a pass only what the code does: it stops for what
was unknown before it began to mint, not for a mint of its own that raised. The
promise of `BRIDGE.md` has no such exception; it is `NothingBesideUnknown`.

`MintedWasBuried` asks for depth only while the chain has not reorganised,
because the code does not keep the promise beyond (disagreement 4), and
`BuriedIsMinted` concerns deposits no reorganisation took off, for the same
reason (disagreement 5). `BuriedIsMinted` counts depth from the later of the height
on the chain and the height on record: a chain that never stops growing buries
every deposit by either count, the model's chain stops at `MaxHeight`.

Fairness (`FairSpec`): weak fairness of the watcher's steps and of the minter's,
because an operator runs both again and again and none of their calls waits for
ever (RPC has a timeout, SQLite answers); weak fairness of the cluster, because
a Solana transaction lands or expires with its blockhash.

### What is proved

`Bridge_proof` proves, for any number of deposits, any heights and any bounds on
failures, from the assumptions named in the modules and `Definite`:
`TypesCorrect`, `NoDoubleMint` (`MintedOnce`), `MintsStayOnRecord`
(`MintedOnRecord`), `UnknownsComeFirst` (`EarlierResolvedFirst`), `FinalIsFinal`
(`FinalStates`), `AbandonedVanished` (`OnlyVanishedAbandoned`), `NothingShallow`
(`MintedWasBuried`), `BooksAgree` (`SupplyAgrees`) and `PromiseHolds`
(`PromiseKept`, the refinement of `MintOnce`).

`MintedOnce` is not inductive: a deposit that is ready could be minted again if
a request of an earlier attempt were still under way. `MinterInv` adds that a
deposit has at most one request afloat or landed (`OneRequest`), that a deposit
with such a request is in flight or done (`MintedOnRecord`), and what each stage
of a pass may rely on (`PassInv`): while `settling`, an answer "none" still
holds, because only `CallMint` of the same pass creates requests. The crux is
that nothing but `Settle` takes a row out of `in_flight` except to `done`;
`Abandon` refuses rows in flight, whatever the watcher decided earlier. `WatchInv` traces
every row and every decision of a poll to a deposit that was on the chain and,
if it is to be given up, has left it since. `DepthInv` says that while the chain
only grew, recorded heights are where deposits are and a height read earlier
only understates their depth.

`SupplyInv` ties the books to the cluster: what is done on the books has landed,
a request is either afloat or landed, and a signature that `find_mint` or `mint`
gave is of something landed. With `OneRequest` the mints that exist are then, one
to one, deposits (`SumRenamed`), and a `Lands` of a request afloat adds one
deposit that had none, which is the step of `MintOnce`.

Only model-checked: the two liveness properties.

## Synchronisation and gossip

`Peers` is several nodes at once: what each does with the messages of the
others, from the handshake to the last announcement. `MCPeers` holds three small
networks.

### How the state corresponds

| Variable | Code |
|---|---|
| `stored`, `tip` | per node, the block index and the end of the active chain |
| `pool` | per node, the transactions of the mempool |
| `link` | the `Peer` object one node keeps for another: handshake, height told, score, `requested_blocks`, `batch_full` |
| `wire` | messages written and not read yet; TCP keeps their order |
| `todo` | what is left of the handler that a task of the node is in |
| `banned` | `P2PNode.banned` |
| `found`, `losses` | blocks found, connections broken: what the environment did |

All handlers run on one event loop, one task per connection, and a task gives
way only where it awaits, which is in `_send`. Each handler is therefore one
action (`_handle_inv`, `_handle_block`, ...) that does what comes before the first
send and leaves the rest in `todo` as instructions; each instruction is an action
again (`Sends`, `_request_blocks`, `Compares`, `Serves`, `Continues`), and what it
reads is read when its turn comes, after whatever other tasks did in between.
`Sends` waits for room in the peer's buffer (`SendBuffer`), as `drain` does.
`Mine` and `Submit` are local submissions with a task of their own.

What a chain state does with a block is not modelled again: a node shows the
heaviest branch among the blocks it stores, the first among equals, which is
`HeaviestChain` with all blocks valid. Announcements go to peers in any order
(the code iterates a set). Not modelled here: payloads, framing, invalid blocks
and forged messages; pings, addresses and dialling, which `Upkeep` has.

### Runs

| Run | Bounds | Shows |
|---|---|---|
| `peers_sync` | two nodes with branches of five and one blocks, two more to be found, batches of three, locators that thin out after two entries, one lost connection | nobody waits for a block that is not coming (`AwaitedIsComing`); both end with the same work (`Agreement`) |
| `peers_gossip` | three nodes that know each other, one payment, one block that confirms it; two copies of a transaction cost the sender its connection | the payment reaches every mempool or chain (`TxSpreads`), although nodes ask several peers for it and then punish the second to answer |
| `peers_fork` | branches of three and four blocks, batches of two | disagreement 8 |

Two batches and a partial one are what it takes for `batch_full` to be set, used
and cleared; the branch of the other node makes the first batch a reorganisation
and not an extension; a lost connection in the middle leaves side blocks and
requests behind. `SendBuffer` is 3: with 1 two nodes that send to each other at
the same time wait for each other (see "where code and documentation disagree").
Nodes may stop when everything is said, so deadlock is not checked.

Fairness: the event loop of the network does not stand still while a task can go
on (`WF` of all tasks together, dialling again included). No task is promised a
turn of its own, which is less than asyncio gives.

`MidHandshake = FALSE` is an assumption: no block is found between the moment a
node tells its height and the end of that handshake. Without it `Agreement`
fails, because such a block is announced to nobody and the height told is old;
the next block repairs it.

### What is proved

`Peers_proof` proves, for any number of nodes, every tree of blocks, any limits
on messages and any number of broken connections: `TypeCorrect` (`TypeOK`) and
`AwaitedComes` (`AwaitedIsComing`). Stated and proved in the same module, without
a run:

* `HeaviestIsShown` (`HeaviestShown`): no branch a node stores has more work than
  the one it shows, in whatever order the blocks came;
* `NodesKeepPromise`: each node by itself refines `HeaviestChain`, with what is
  confirmed in place of the coins, so `ChainState` and the nodes of `Peers`
  implement one specification;
* `PoolStaysApart` (`ConfirmedApart`): no transaction is in the mempool and on
  the chain of a node at once;
* `NothingIsForgotten` (`NothingForgotten`): stored blocks stay, and a payment in
  the pool or on the chain stays in one of them (the pool of `Peers` is never
  full; eviction is a matter of `Node`);
* `AnnouncedIsServed` (`AnnouncedIsWhole`): who announced a block, and who is
  asked for one, has it with all its ancestors while the message travels;
* `LimitsHold` (`WithinLimits`): no more than `MaxOutstanding` blocks are on
  request from a peer, and no peer is kept that has reached `BanScore`.

The assumptions are natural limits, a positive `BanScore`, that blocks lead to
genesis, that each node starts with whole branches, and that connections that
exist at the start have two ends (`BlockAssumption`, `NodeAssumption`).

That what is on request is on its way is not inductive: a request on the wire
only helps if its reader has the block, and a request still planned only if it
will be sent. `IInv` adds:

* `Complete`: a node has the parent of every block it has, and so every block of
  the chain it shows;
* `Spoken`: who announces a block has it, and who is asked for a block has it;
  no node forgets a block, so this stays true while the message travels;
* `Planned`: what is left of a handler is for peers that are still connected,
  a planned request goes to the peer of that task, and the instruction that may
  replace the rest of the plan (`Compare`, `More`) is its last;
* `Joined`: a connection is up on both sides or on none; its end clears what
  both sides have on request, so nothing stays awaited from a peer that is gone.

All actions but three change one plan, one line and what one node keeps for one
peer (`OneChange`, `OneStep`), in one of three ways: a handler (`Handled`), a
send (`Sent`), an instruction without a message (`Silent`); the others are a new
connection and its two ends.

The liveness properties are beyond the prover.

## Upkeep of connections

`Upkeep` is one node that keeps itself connected: `_maintain` and what it calls,
`connect`, the handlers that concern addresses and life signs. Other hosts come
and go, silently or by hanging up.

| Variable | Code |
|---|---|
| `conn` | `P2PNode.peers`, by slot: host, direction, whether its version came, `awaiting_pong`, whether `PING_AFTER_IDLE` has passed |
| `unread`, `slow`, `clogged`, `pinging`, `live` in it | the stream and the tasks of the connection: said and not read yet, somebody had to wait in `drain` since the last read, buffer above the high-water mark, `_maintain` waits there with a ping, the other end is alive |
| `addrbook`, `failed`, `banned` | the sets of that name |
| `phase`, `left` | where `_maintain` is: asleep, in the loop of `_check_liveness` or waiting there for `wait_closed` (`closing`), in the loop of `_top_up_outbound`, and what is left to go through |
| `up`, `changes` | the hosts that can be reached, and how often a host went down, came up, hung up, was slow or misbehaved |

Each awaited step of a round is an action, and peers come, speak and go between
them: `_check_liveness` works on a copy of the list, so a peer may be gone when
its turn comes; a ping waits for room in the buffer of its peer, and a drop until
the connection is closed, which hold up the whole round. Booting is a round that
dials the seeds.

The task of a peer reads one message, then awaits its handler. So what a peer says
(`Says`) and what the node learns from it (`Message`, `_handle_version`,
`_handle_addr`, `_misbehave`) are two steps, and between them may lie any
number of rounds: while a handler waits in `drain` because this peer is slow to
take its blocks (`Clogs`), or because another is to which it broadcasts
(`Stalls`), nothing more is read and `awaiting_pong` stays. `slow` marks a peer
to which this has happened since its task last read.

Run `upkeep`: a seed and another host, two slots, one outbound connection wanted,
two changes.

* `PromptPeersStay`: upkeep drops a live peer only if somebody, here or at the
  other end, has had to wait in `drain` since the peer's task last read. What
  the round waits for itself, and how many others it drops in between, must not
  make the others pay: the pong to a ping is read, and clears the mark, before
  the next round asks.
* `SilentIsDropped`: a peer that is gone leaves its slot in the end, also when it
  blocks the ping.
* `SeedsComeBack`: a seed that stays reachable is connected again and again
  unless enough other peers are, however often it failed before.

That a peer is dropped only when it has said nothing (`OnlySilentDropped`) is not
so: `upkeep_slow.cfg` (disagreement 9).

Assumed, with the reason: a peer that lives and for which nobody waits has told
its version and had its answer to a ping read before the next round begins
(`MAINTENANCE_INTERVAL` against a round trip and a handler that does not wait);
the loop goes on, and a closed connection lets `wait_closed` return; time passes;
a live peer takes what it was sent in the end (`Drains`), says something again
(`Says`) and is read (`Message`, `_handle_version`), which excludes two nodes
that each wait in `drain` for the other; a connection whose buffer is full and
whose other end is gone breaks in the end (TCP gives up). Slots are what bounds
inbound connections; the code sets no bound.

`Upkeep_proof` proves, for any finite number of hosts and slots and any number of
changes, `TypeCorrect` (`TypeOK`), `PromptStay` (`PromptPeersStay`) and,
stated beside their proofs, `NeverOverDials` (`OutboundBounded`: the outbound
peers and the dials still to be made are together at most `TARGET_OUTBOUND`, or
at most the seeds dialled at boot) and `RoundsEnd` (each step of a round leaves
less of it to do (`Stage`, then `ToDo`) and nothing else adds to it, the part of
the two liveness properties that is not fairness). `PromptPeersStay` rests on
`Answering`: a peer that owes an answer has been quiet since the ping
(`PingedIsQuiet`), and while a round goes through its list, no peer still on it
that is alive and not slow owes one (`NoneOwes`): a ping it sends itself takes the
peer off the list, a ping that must wait makes the peer slow, and reading clears
both marks at once. The two liveness properties are only model-checked.

## Wallet

`Wallet` is the wallet behind the RPC server: several clients, each call on a
thread of its own, the node's lock around everything but the wait for
`submit_tx`. The chain and the mempool are there as far as the wallet sees them:
deposits and payments that are confirmed, taken off by a reorganisation, offered
back, evicted, gossiped back.

| Variable | Code |
|---|---|
| `ring` | `_keys` and `_order[0]`; `saved` is the same in the file |
| `generated`, `returned`, `forgotten` | history of the keys: made, handed out, deleted on request |
| `call` | what the thread of each client is in: writing the file, or waiting for the network thread |
| `reserved` | `_reserved` |
| `stage`, `tx` | the payments built, with their inputs and change, and what became of each |
| `pool`, `relayed`, `confirmed`, `young` | mempool, payments other nodes have, deposits and payments on the active chain, rewards that are not mature |
| `stirred`, `reorgs`, `crashes` | whether this process has seen a reorganisation, and the counts |

`new_address` and `forget_address` change the memory, `save` or `SaveFails` ends
them; death may come between. `create_transaction` selects the largest coins and
no more than needed, `Admitted` or `Refused` is the network thread, and the
client hears of it (`Answers`, `Releases`) or gives up after 30 seconds
(`TimesOut`). Left out: encryption, key derivation, signatures; fees are linear in
the inputs; payments to the wallet itself other than change.

Run `wallet`: two clients, three keys, a deposit and a mining reward on different
keys, two payments for two amounts, one reorganisation, one restart. The amounts
make a payment need one coin or both, leave change that the other can spend, and
leave none. A wallet may run out of payments and keys, so deadlock is not checked.

* `AddressIsDurable`: an address that was handed out and not deleted has its key
  in the file.
* `ChangeComesBack`: change goes to a key that cannot be deleted.
* `PromisedOnce`: two payments of one process never draw on one coin, until the
  process has seen a reorganisation, unless one was refused.
* `WithheldForPayment`: no coin is reserved for a payment that was refused and
  whose sender knows.

`Wallet_proof` proves all four, for any number of clients, keys, deposits,
payments, reorganisations and restarts. `KInv` (`KeysSafe`, `SaversAlone`) is what
the lock protects: whoever is inside a key operation is alone there, and writes
the keys that are in memory. `PInv` adds to the two properties about payments
that a payment is of this run or an earlier one and late only if the process has
seen a reorganisation (`PaymentsKnown`), and that a coin promised in this run is
reserved and still the wallet's, or spent on the chain (`CoinsPromised`): without
it nothing says why the coins of a payment that is out of the pool are not
selected again. Nothing of this needs the selection itself.

`CoinsReachable` (every coin on the chain has a key) is stated and checked by no
run, because the code does not keep it: see below.

## Where code and documentation disagree

2, 6 and 8 are runs. The others were met in the same way; each has a
configuration for the module named, under which TLC finds the property violated.

1. `chain_clock.cfg` (`MCChainState`, `VerdictPermanent`). The comment at
   `chainstate.py:230-233` calls every contextual verdict permanent and safe to
   cache; one of the checks compares the timestamp with the local clock. A block
   offered too early is refused for ever.
2. Run `chain_damaged_copy` (`HonestCopyWins`). `chainstate.py:265-273` and
   `test_a_tampered_signature_does_not_poison_the_honest_block` promise that a
   copy with a bad signature cannot keep the honest block out. That holds for a
   block that extends the tip; a damaged copy that arrives while its branch is
   behind is stored, and the honest copy is answered "duplicate" from then on.
3. `branch_slow.cfg` (`MCBranch`, `SlowIsEased`). `consensus.py:124-127` says
   blocks that arrive too slow make the target larger. The time measured has one
   gap less than the time intended has block times, so that a period that was slow
   by less than a block time in all makes the next one harder.
4. `bridge_depth.cfg` (`MCBridge`, `WaitsConfirmations`). The ledger keeps the
   first height it saw a deposit at; when a reorganisation moves it to a later
   block, it is minted before it is `Confirmations` deep. `BRIDGE.md` promises 20.
5. `bridge_reappears.cfg` (`MCBridge`, `ReturnIsMinted`). A deposit absent during
   one poll is abandoned for good; mined again and buried, it is never minted.
   `watcher.py:133` says forgetting it "costs nobody".
6. Run `bridge_unknown` (`NothingBesideUnknown`). `BRIDGE.md:158-160` says that
   while any deposit's outcome is unknown no other is minted. The pass checks
   for unknown outcomes before it begins to mint, and goes on to the next deposit
   after a call of its own that raised. Nothing is minted twice by it.
7. `node_parent.cfg` (`MCNode`, `EntersWithParents`). A payment that spends the
   output of a pooled one may displace it when the pool is full: it then waits
   for an input that exists nowhere. `mempool.py:7-9` says a transaction enters
   only if its inputs exist "in the chain or earlier in the pool".
8. Run `peers_fork` (`Agreement`). A node on a fork longer than one batch stores
   the first batch of the heavier branch as side blocks and asks again with the
   same locator, which only shows its active chain; the same batch comes back,
   nothing in it is wanted, and the node never asks for more. `p2p.py:28-30` says
   a locator finds the fork "in a chain of any length" and the answer is "what
   comes after". In the code a batch is 500 blocks.
9. `upkeep_slow.cfg` (`MCUpkeep`, `OnlySilentDropped`). `p2p.py:428-431` says that
   a peer which still has said nothing by the round after a ping is dropped. One
   that has answered is dropped too, when its task waits in `drain` and has not
   read the answer: a node that downloads blocks slowly can lose its connection
   over it.
10. `merkle_twin.cfg` (`MCBranch`, `TwinsRejected`). `merkle.py:30-33` says a list
    that doubling makes equal to a shorter one is rejected by the tree. The check
    is made where a row is odd, and such a list is even: `[a, b, c, c]` has the
    root of `[a, b, c]` and neither is refused. `check_block_structure` refuses
    repeats before it asks for the root, so no block profits (`RootCommits`).

Without a configuration:

* Peers: two peers announce one transaction, both copies are asked for, and the
  second to answer scores 10 points; `p2p.py:35` says an honest node never scores
  a point. A transaction announced while a full batch is being delivered clears
  `batch_full` (`p2p.py:712`) and ends the synchronisation until the next block.
  Two nodes whose buffers are full wait in `drain` for each other (`SendBuffer`
  of 1 shows it).
* Wallet: after a failed save `new_address` leaves the key in memory and
  `getaddresses` shows it, though it is not in the file; `forget_address` leaves
  it in the file but not in memory, and a later save destroys it, whatever it
  holds by then. A key is deleted while a deposit to it is in flight or about to
  return with a reorganisation (`CoinsReachable` fails). A payment that is
  refused after its client gave up waiting leaves its coins reserved until a
  restart. A reservation is let go when its coin leaves the chain, and not taken
  again when a reorganisation brings it back (why `PromisedOnce` ends there).

## Hazards

`PROJECT.json` lists, line by line, what in this code is hard to test, with the
properties that watch it. Two have none: the age of rewards in templates (above)
and the moment the miner throws a template away.

## What is proved and what is not

Every theorem holds for all values of the constants that meet the named
assumptions of the modules, which TLC evaluates on the instances. Three kinds of
argument return.

* Induction over numbers and finite sets. The induction theorems of the library
  take an operator and cannot be used; `Sums_proof` proves induction by least
  counterexample from well-foundedness instead, with the claim given as a set
  (`LeastNumber`, `GreatestNumber`, `NatSetInduction`, `FiniteSetInduction`).
* Recursive functions. A definition by recursion is a choice among the functions
  that satisfy it, so that there is one must be proved: `RecursionExists` for
  functions on `0..n`, `TreeRecursion` in `Peers_proof` along the tree of blocks.
* Sums. `MapThenSumSet` is a fold that picks elements in some order; `SumStep`
  shows that the order makes no difference, and the other lemmas of
  `Sums_proof` follow.

Proved are all invariants and action properties that the passing runs check, under
the assumptions and hypotheses named in each section, and twelve properties more
that no run states: the theorems of `ChainState_proof`, `Peers_proof` and `Upkeep_proof` that
the sections above list with a definition of their own. Of liveness, `CallsEnd`
and `RoundsEnd` prove the part that is a safety property, that what was begun
has an end. The liveness properties themselves are beyond the
prover and model-checked only: `Converges`, `BuriedIsMinted`, `VanishedIsAlerted`,
`Agreement`, `TxSpreads`, `SilentIsDropped`, `SeedsComeBack`. So is the fairness
they rest on.

## What could come next

* an instance of `Node` with a retarget between two branches, for the age of
  rewards in templates, and the miner's decision to throw a template away;
* more nodes and both a payment and a long synchronisation in one instance of
  `Peers`, which is where the announcement in the middle of a batch shows.

## What is not modelled, and why

* `crypto.py`, `_ripemd160.py` and all encodings: numeric code without state.
* `hud/`, `explorer/`, `deploy/`, `cli.py`, `rpcclient.py`: they show what RPC
  returns or launch processes, and keep no state a property could be about.
* Peers that break the protocol on purpose: only their score is modelled.
* Encryption of the wallet file, HTTP and authentication of the RPC server.
* SQLite itself: a committed transaction is durable and a crash loses exactly
  what was not committed.
* Time inside a step: every action is atomic; what the code does between two
  points where something else may run is one action.
