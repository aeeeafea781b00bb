------------------------------ MODULE Consensus ------------------------------
(***************************************************************************)
(* The pure rules of src/obsidion/consensus.py and the compact target      *)
(* encoding of src/obsidion/block.py: emission, difficulty and time.       *)
(* Nothing here has state; ChainState applies these rules to blocks.       *)
(*                                                                         *)
(* A "bits" field is the pair <<exponent, mantissa>> the four header bytes *)
(* encode.  CompactBase is 256 in the code and WorkSpace is 2^256; both    *)
(* are parameters because TLC's integers have 32 bits.                     *)
(***************************************************************************)
EXTENDS Sums

CONSTANTS
    InitialSubsidy,      \* shards paid to the miner of a block of era 0
    HalvingInterval,     \* blocks per halving era
    MaxHalvings,         \* eras after which the reward is zero (64)
    TargetBlockTime,     \* seconds a block should take
    RetargetInterval,    \* blocks per difficulty period
    MaxRetargetFactor,   \* clamp on one difficulty adjustment
    PowLimitBits,        \* the easiest permitted target, in compact form
    MedianTimeBlocks,    \* window of the median-time rule
    MaxFutureBlockTime,  \* seconds a timestamp may run ahead of the clock
    CompactBase,         \* base of the compact encoding (256)
    WorkSpace            \* number of possible hashes (2^256)

ASSUME EmissionAssumption ==
    /\ InitialSubsidy \in Nat
    /\ HalvingInterval \in Nat \ {0}
    /\ MaxHalvings \in Nat

ASSUME TimeAssumption ==
    /\ MedianTimeBlocks \in Nat \ {0}
    /\ MaxFutureBlockTime \in Nat

ASSUME DifficultyAssumption ==
    /\ TargetBlockTime \in Nat \ {0}
    /\ RetargetInterval \in Nat \ {0}
    /\ MaxRetargetFactor \in Nat \ {0}
    /\ CompactBase \in Nat \ {0}
    /\ CompactBase % 2 = 0

Lesser(x, y) == IF x <= y THEN x ELSE y
Greater(x, y) == IF x >= y THEN x ELSE y

(***************************************************************************)
(* Emission.                                                               *)
(***************************************************************************)
HalvingEra(height) == height \div HalvingInterval

(* INITIAL_SUBSIDY >> era: a shift halves and rounds down, era times.       *)
EraReward ==
    LET shifted[era \in 0..MaxHalvings] ==
            IF era = 0 THEN InitialSubsidy ELSE shifted[era - 1] \div 2
    IN  shifted

SubsidyLate(height) ==   \* mutant
    IF (height - 1) \div HalvingInterval >= MaxHalvings
    THEN 0
    ELSE EraReward[Greater(height - 1, 0) \div HalvingInterval]
Subsidy(height) ==
    IF HalvingEra(height) >= MaxHalvings
    THEN 0
    ELSE EraReward[HalvingEra(height)]

(* None is the code's None: emission has ended. *)
NextHalvingHeight(height, none) ==
    IF HalvingEra(height) >= MaxHalvings - 1
    THEN none
    ELSE (HalvingEra(height) + 1) * HalvingInterval

(* The rewards of the eras below n, whole eras only. *)
EraTotal(n) ==
    SumOver([era \in 0..MaxHalvings |-> EraReward[era] * HalvingInterval], 0..(n - 1))

TotalSupply == EraTotal(MaxHalvings)

(* The loop over eras: every era before height's is complete, the last one *)
(* counts the blocks up to height.                                         *)
CirculatingSupply(height) ==
    IF height < 0 THEN 0
    ELSE IF HalvingEra(height) >= MaxHalvings THEN TotalSupply
    ELSE EraTotal(HalvingEra(height))
           + Subsidy(height) * (height - HalvingEra(height) * HalvingInterval + 1)

(***************************************************************************)
(* Compact targets.                                                        *)
(***************************************************************************)
MaxExponent == 34

(* Shifting by n bytes multiplies, or divides, by Weight[n].               *)
Weight ==
    LET power[n \in 0..MaxExponent] ==
            IF n = 0 THEN 1 ELSE CompactBase * power[n - 1]
    IN  power

MantissaLimit == Weight[3]             \* three bytes
SignBit == MantissaLimit \div 2        \* 0x00800000

(* compact_to_target raises on a set sign bit and on a large exponent.     *)
WellFormedBits(bits) ==
    bits[2] < SignBit /\ (bits[2] = 0 \/ bits[1] <= MaxExponent)

CompactToTarget(bits) ==
    IF bits[2] = 0 THEN 0
    ELSE IF bits[1] <= 3
    THEN bits[2] \div Weight[3 - bits[1]]
    ELSE bits[2] * Weight[bits[1] - 3]

(* Number of base-CompactBase digits of a positive target. *)
DigitCount(target) ==
    CHOOSE n \in 1..MaxExponent :
        Weight[n - 1] <= target /\ target < Weight[n]

TargetToCompactSigned(target) ==   \* mutant
    IF target = 0 THEN <<0, 0>>
    ELSE LET size == DigitCount(target)
         IN  IF size <= 3
             THEN <<size, target * Weight[3 - size]>>
             ELSE <<size, target \div Weight[size - 3]>>

TargetToCompact(target) ==
    IF target = 0 THEN <<0, 0>>
    ELSE LET size == DigitCount(target)
             mantissa == IF size <= 3
                         THEN target * Weight[3 - size]
                         ELSE target \div Weight[size - 3]
         IN  IF mantissa >= SignBit
             THEN <<size + 1, mantissa \div CompactBase>>
             ELSE <<size, mantissa>>

(* BlockHeader.work: expected hashes behind one block. *)
BlockWork(bits) ==
    IF ~WellFormedBits(bits) THEN 0
    ELSE IF CompactToTarget(bits) <= 0 THEN 0
    ELSE WorkSpace \div (CompactToTarget(bits) + 1)

(***************************************************************************)
(* Difficulty.  previousBits and previousTime are the parent's, startTime  *)
(* is the timestamp of the first block of the period.                      *)
(***************************************************************************)
RetargetPeriodStartHeight(height) ==
    IF height < RetargetInterval THEN 0 ELSE height - RetargetInterval

ClampedSpanInverted(span) ==   \* mutant
    LET intended == RetargetInterval * TargetBlockTime
    IN  Greater(intended \div MaxRetargetFactor,
                Lesser(intended * MaxRetargetFactor, 2 * intended - span))
ClampedSpan(span) ==
    LET intended == RetargetInterval * TargetBlockTime
    IN  Greater(intended \div MaxRetargetFactor,
                Lesser(intended * MaxRetargetFactor, span))

ExpectedBits(height, previousBits, previousTime, startTime) ==
    IF height = 0 THEN PowLimitBits
    ELSE IF height % RetargetInterval # 0 THEN previousBits
    ELSE TargetToCompact(
             Lesser(CompactToTarget(PowLimitBits),
                    (CompactToTarget(previousBits)
                        * ClampedSpan(previousTime - startTime))
                      \div (RetargetInterval * TargetBlockTime)))

(***************************************************************************)
(* Time.  The timestamps of the recent blocks S under time: the median is  *)
(* the element at position n \div 2 (from 0) of the sorted list, that is   *)
(* the one with at most n \div 2 smaller and more than n \div 2 not larger.*)
(***************************************************************************)
MedianTimePast(S, time) ==
    LET half == Cardinality(S) \div 2
        Below(t) == {s \in S : time[s] < t}
        UpTo(t) == {s \in S : time[s] <= t}
    IN  CHOOSE t \in {time[s] : s \in S} :
            Cardinality(Below(t)) <= half /\ half < Cardinality(UpTo(t))

TimestampOkPast(timestamp, median, now) ==   \* mutant
    timestamp <= now + MaxFutureBlockTime

TimestampOk(timestamp, median, now) ==
    /\ timestamp > median
    /\ timestamp <= now + MaxFutureBlockTime
=============================================================================
