-------------------------------- MODULE Branch --------------------------------
(***************************************************************************)
(* One branch of the block tree, seen as a clock and as a purse: a block   *)
(* is its timestamp and its difficulty bits, and it pays its subsidy in    *)
(* full.  Miners choose timestamps freely within check_timestamp; bits and *)
(* rewards follow by the rules of Consensus.                               *)
(***************************************************************************)
EXTENDS Consensus, Sequences

CONSTANTS
    LastHeight,    \* bound on the height
    Clock          \* the local clock of the node that judges the blocks

ASSUME BranchAssumption == LastHeight \in Nat /\ Clock \in Nat

(* pow_limit_bits is a field that the encoding itself would write.         *)
ASSUME FloorAssumption ==
    /\ PowLimitBits \in Nat \X Nat
    /\ WellFormedBits(PowLimitBits)
    /\ CompactToTarget(PowLimitBits) > 0
    /\ TargetToCompact(CompactToTarget(PowLimitBits)) = PowLimitBits

VARIABLES
    chain,         \* the blocks from genesis, as [time, bits]
    issued         \* what their coinbases have paid out

vars == <<chain, issued>>

Tip == chain[Len(chain)]

TipHeight == Len(chain) - 1

TimeAt == [i \in DOMAIN chain |-> chain[i].time]

(* _recent_timestamps: the last MedianTimeBlocks positions of the branch. *)
Window == {i \in DOMAIN chain : i > Len(chain) - MedianTimeBlocks}

Median == MedianTimePast(Window, TimeAt)

(* Len(chain) is the height of the next block: genesis sits at position 1. *)
PeriodStart == chain[RetargetPeriodStartHeight(Len(chain)) + 1]

NextBits == ExpectedBits(Len(chain), Tip.bits, Tip.time, PeriodStart.time)

Init ==
    /\ chain = <<[time |-> 0, bits |-> PowLimitBits]>>
    /\ issued = Subsidy(0)

Extend(time) ==
    /\ Len(chain) <= LastHeight
    /\ TimestampOk(time, Median, Clock)
    /\ chain' = Append(chain, [time |-> time, bits |-> NextBits])
    /\ issued' = issued + Subsidy(Len(chain))

Next == \E time \in 0..(Clock + MaxFutureBlockTime) : Extend(time)

Spec == Init /\ [][Next]_vars

-----------------------------------------------------------------------------
(* The closed formulas are the sum of the rewards block by block:          *)
(* circulating_supply for the blocks there are; next_halving_height for    *)
(* those that still pay this reward, after which it is half, rounded down, *)
(* while None means it never halves again.  No branch, however long, pays  *)
(* out more than total_supply, which stays below the round number of the   *)
(* halving series (max_supply).                                            *)
SupplyIsSum ==
    LET next == NextHalvingHeight(TipHeight, -1)
    IN  /\ issued = CirculatingSupply(TipHeight)
        /\ IF next = -1
           THEN \A h \in TipHeight..LastHeight : Subsidy(h) \in {0, Subsidy(TipHeight)}
           ELSE /\ Subsidy(next) = Subsidy(TipHeight) \div 2
                /\ issued + (next - 1 - TipHeight) * Subsidy(TipHeight)
                     = CirculatingSupply(next - 1)
        /\ issued <= TotalSupply
        /\ TotalSupply <= 2 * InitialSubsidy * HalvingInterval

(* However the timestamps are chosen, the target stays under the network's *)
(* floor of difficulty and can be written in a header: well formed, above  *)
(* zero, and in the one form target_to_compact gives it, so that           *)
(* check_expected_bits compares like with like.                            *)
TargetWritable ==
    /\ WellFormedBits(Tip.bits)
    /\ CompactToTarget(Tip.bits) \in 1..CompactToTarget(PowLimitBits)
    /\ TargetToCompact(CompactToTarget(Tip.bits)) = Tip.bits

(* The blocks of a period exactly on time: from the first of them to the   *)
(* last there is one gap less than there are blocks.                       *)
OnTime == (RetargetInterval - 1) * TargetBlockTime

(* What is left of a target that a header has carried.                     *)
Written(target) == CompactToTarget(TargetToCompact(target))

(* The target moves with the time from the first block of the period to    *)
(* the last, measured against RetargetInterval block times, and only when  *)
(* a period ends.  That is one gap more than there is: a period on time    *)
(* makes the next one harder, but by one part in RetargetInterval at most, *)
(* beyond what writing the target loses; and no slower one loses more      *)
(* (consensus.py:138-151).                                                 *)
AdjustmentFollowsSpan ==
    [][LET span == Tip.time - PeriodStart.time
           intended == RetargetInterval * TargetBlockTime
           old == CompactToTarget(Tip.bits)
           new == CompactToTarget(Tip'.bits)
       IN  /\ span <= intended => new <= old
           /\ span >= intended => new >= old
           /\ span >= OnTime => new >= Written((old * OnTime) \div intended)
           /\ Len(chain) % RetargetInterval # 0 => new = old]_vars

(* "blocks arriving too fast make the target smaller (harder), too slow    *)
(* makes it larger (easier)" (consensus.py:124-127).  It does not hold of  *)
(* blocks that are slow by less than a block time over the whole period.   *)
SlowIsEased ==
    [][Len(chain) % RetargetInterval = 0 /\ Tip.time - PeriodStart.time > OnTime =>
           CompactToTarget(Tip'.bits) >= CompactToTarget(Tip.bits)]_vars

(* The median a timestamp must exceed never goes back, although single     *)
(* timestamps may: a block that was too old for a branch stays too old.    *)
MedianNeverReturns == [][Median' >= Median]_vars
=============================================================================
