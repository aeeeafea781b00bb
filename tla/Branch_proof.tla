----------------------------- MODULE Branch_proof -----------------------------
(***************************************************************************)
(* Proofs about the pure rules.  Branch, for branches of every length and  *)
(* every value of the parameters: emission, time and difficulty.  Merkle,  *)
(* for blocks of every length: a root commits to one list.                 *)
(***************************************************************************)
EXTENDS Branch, Merkle, Sums_proof, SequenceTheorems

(***************************************************************************)
(* Emission.                                                               *)
(***************************************************************************)

(* The reward of an era: the first is the initial subsidy, each later one  *)
(* half of the one before, rounded down.                                   *)
LEMMA EraRewardFacts ==
    /\ EraReward \in [0..MaxHalvings -> Nat]
    /\ EraReward[0] = InitialSubsidy
    /\ \A e \in 0..MaxHalvings :
          e + 1 \in 0..MaxHalvings => EraReward[e + 1] = EraReward[e] \div 2
<1>1. \E f : IsHalving(f, InitialSubsidy, MaxHalvings)
  BY EmissionAssumption, HalvingsExist
<1>2. IsHalving(EraReward, InitialSubsidy, MaxHalvings)
  BY <1>1 DEF EraReward, IsHalving
<1> QED
  BY <1>2, EmissionAssumption, HalvingsType

(* The closed formulas of Consensus are those of rewards in eras.          *)
LEMMA EmissionInEras ==
    /\ TotalSupply = PaidBefore(EraReward, MaxHalvings, HalvingInterval, MaxHalvings)
    /\ \A h : Subsidy(h) = RewardAt(EraReward, MaxHalvings, HalvingInterval, h)
    /\ \A h \in Nat :
          CirculatingSupply(h) = PaidUpTo(EraReward, MaxHalvings, HalvingInterval, h)
<1>1. TotalSupply = PaidBefore(EraReward, MaxHalvings, HalvingInterval, MaxHalvings)
  BY DEF TotalSupply, EraTotal, PaidBefore
<1>2. \A h : Subsidy(h) = RewardAt(EraReward, MaxHalvings, HalvingInterval, h)
  BY DEF Subsidy, HalvingEra, RewardAt
<1>3. ASSUME NEW h \in Nat
      PROVE  CirculatingSupply(h) = PaidUpTo(EraReward, MaxHalvings, HalvingInterval, h)
  <2>1. ~(h < 0)
    OBVIOUS
  <2> QED
    BY <1>1, <1>2, <2>1 DEF CirculatingSupply, HalvingEra, EraTotal, PaidUpTo, PaidBefore
<1> QED
  BY <1>1, <1>2, <1>3

(* circulating_supply counts the reward of every block once.               *)
LEMMA EmissionStart == Subsidy(0) \in Nat /\ CirculatingSupply(0) = Subsidy(0)
<1>1. 0 \in Nat
  OBVIOUS
<1> QED
  BY <1>1, EmissionAssumption, EraRewardFacts, EmissionInEras, PaidFirst, RewardType

(* A block more adds its subsidy to circulating_supply.                    *)
LEMMA EmissionStep ==
    ASSUME NEW h \in Nat
    PROVE  /\ CirculatingSupply(h) \in Nat
           /\ Subsidy(h + 1) \in Nat
           /\ CirculatingSupply(h + 1) = CirculatingSupply(h) + Subsidy(h + 1)
<1>1. h + 1 \in Nat
  OBVIOUS
<1> DEFINE U(k) == PaidUpTo(EraReward, MaxHalvings, HalvingInterval, k)
           R(k) == RewardAt(EraReward, MaxHalvings, HalvingInterval, k)
<1>2. U(h) \in Nat /\ U(h + 1) = U(h) + R(h + 1)
  <2>1. /\ HalvingInterval \in Nat \ {0} /\ MaxHalvings \in Nat
        /\ EraReward \in [0..MaxHalvings -> Nat]
    BY EmissionAssumption, EraRewardFacts
  <2> QED
    BY <2>1, PaidNext
<1>3. R(h + 1) \in Nat
  BY <1>1, EmissionAssumption, EraRewardFacts, RewardType
<1>4. CirculatingSupply(h) = U(h) /\ CirculatingSupply(h + 1) = U(h + 1) /\ Subsidy(h + 1) = R(h + 1)
  BY <1>1, EmissionInEras
<1> QED
  BY <1>2, <1>3, <1>4

(* A branch is a nonempty list of blocks with natural timestamps, and its  *)
(* coinbases have paid what circulating_supply counts.                     *)
ChainOK ==
    /\ \E S : chain \in Seq(S)
    /\ Len(chain) > 0
    /\ \A i \in DOMAIN chain : chain[i].time \in Nat

IssuedOK == issued = CirculatingSupply(TipHeight)

(* A block more.                                                           *)
LEMMA ChainGrows ==
    ASSUME ChainOK, NEW t \in Nat, NEW b, chain' = Append(chain, [time |-> t, bits |-> b])
    PROVE  /\ ChainOK'
           /\ Len(chain) \in Nat \ {0} /\ Len(chain') = Len(chain) + 1
           /\ DOMAIN chain = 1..Len(chain) /\ DOMAIN chain' = 1..(Len(chain) + 1)
           /\ chain'[Len(chain) + 1].time = t
           /\ \A i \in DOMAIN chain : chain'[i] = chain[i]
<1> DEFINE new == [time |-> t, bits |-> b]
<1>0. new.time = t
  OBVIOUS
<1> HIDE DEF new
<1>1. PICK S : chain \in Seq(S)
  BY DEF ChainOK
<1> DEFINE R == S \cup {new}
<1>2. chain \in Seq(R) /\ new \in R
  BY <1>1, SeqMonotonic
<1> HIDE DEF R
<1>3. chain' = Append(chain, new)
  BY DEF new
<1>4. /\ chain' \in Seq(R)
      /\ Len(chain) \in Nat /\ Len(chain') = Len(chain) + 1
      /\ DOMAIN chain = 1..Len(chain) /\ DOMAIN chain' = 1..(Len(chain) + 1)
      /\ chain'[Len(chain) + 1] = new
      /\ \A i \in 1..Len(chain) : chain'[i] = chain[i]
  BY <1>2, <1>3
<1>5. \A i \in 1..(Len(chain) + 1) : i \in 1..Len(chain) \/ i = Len(chain) + 1
  BY <1>4
<1>6. \A i \in DOMAIN chain' : chain'[i].time \in Nat
  BY <1>0, <1>4, <1>5 DEF ChainOK
<1> QED
  BY <1>0, <1>4, <1>6 DEF ChainOK

(* The branch of genesis alone.                                            *)
LEMMA ChainStart ==
    ASSUME Init
    PROVE  ChainOK /\ Len(chain) = 1 /\ DOMAIN chain = 1..1 /\ chain[1].time = 0
<1> DEFINE b == [time |-> 0, bits |-> PowLimitBits]
<1>1. b.time = 0
  OBVIOUS
<1> HIDE DEF b
<1>2. chain = <<b>>
  BY DEF Init, b
<1>3. chain \in Seq({b}) /\ Len(chain) = 1 /\ DOMAIN chain = 1..1 /\ chain[1] = b
  BY <1>2
<1> QED
  BY <1>1, <1>3 DEF ChainOK

(* A median that a timestamp has to exceed is chosen among the times of a  *)
(* window: there is one.                                                   *)
LEMMA FiniteTimes ==
    ASSUME NEW S, IsFiniteSet(S), NEW time
    PROVE  IsFiniteSet({time[s] : s \in S})
<1> DEFINE T == {time[s] : s \in S}
           f == [s \in S |-> time[s]]
<1>1. f \in Surjection(S, T)
  BY DEF Surjection
<1> HIDE DEF f, T
<1>2. IsFiniteSet(T)
  BY <1>1, FS_Surjection
<1> QED
  BY <1>2 DEF T

(* The median is one of the times, and is where MedianTimePast says.       *)
LEMMA MedianExists ==
    ASSUME NEW S, IsFiniteSet(S), S # {}, NEW time, \A s \in S : time[s] \in Nat
    PROVE  LET m == MedianTimePast(S, time)
               half == Cardinality(S) \div 2
           IN  /\ m \in Nat
               /\ Cardinality({s \in S : time[s] < m}) <= half
               /\ half < Cardinality({s \in S : time[s] <= m})
<1> DEFINE half == Cardinality(S) \div 2
           Below(t) == {s \in S : time[s] < t}
           UpTo(t) == {s \in S : time[s] <= t}
           times == {time[s] : s \in S}
           Late == {t \in times : half < Cardinality(UpTo(t))}
<1>1. Cardinality(S) \in Nat /\ Cardinality(S) > 0
  BY FS_CardinalityType, FS_EmptySet
<1>2. half \in Nat /\ half < Cardinality(S)
  BY <1>1
<1>3. \A t : Below(t) \subseteq S /\ UpTo(t) \subseteq S
  OBVIOUS
<1>4. \A t : Cardinality(Below(t)) \in Nat /\ Cardinality(UpTo(t)) \in Nat
  <2> HIDE DEF Below, UpTo
  <2>1. \A t : IsFiniteSet(Below(t)) /\ IsFiniteSet(UpTo(t))
    BY <1>3, FS_Subset
  <2> QED
    BY <2>1, FS_CardinalityType
<1>5. times \in SUBSET Nat /\ times # {}
  OBVIOUS
<1>6. PICK top \in times : \A t \in times : t <= top
  <2>1. IsFiniteSet(times)
    BY FiniteTimes
  <2> HIDE DEF times
  <2> QED
    BY <1>5, <2>1, GreatestNumber
<1>7. Late \in SUBSET Nat /\ Late # {}
  <2>1. UpTo(top) = S
    BY <1>6
  <2> QED
    BY <1>2, <1>5, <2>1
<1>8. PICK m \in Late : \A t \in Late : m <= t
  <2> HIDE DEF Late
  <2> QED
    BY <1>7, LeastNumber
<1>9. Cardinality(Below(m)) <= half
  <2>1. CASE Below(m) = {}
    BY <1>2, <2>1, FS_EmptySet
  <2>2. CASE Below(m) # {}
    <3> DEFINE early == {time[s] : s \in Below(m)}
    <3>1. early \in SUBSET Nat /\ early # {} /\ early \subseteq times
      BY <2>2
    <3>2. PICK u \in early : \A t \in early : t <= u
      <4>1. IsFiniteSet(early)
        <5>1. early \subseteq times /\ IsFiniteSet(times)
          BY <3>1, FiniteTimes
        <5> HIDE DEF early, times
        <5> QED
          BY <5>1, FS_Subset
      <4> HIDE DEF early
      <4> QED
        BY <3>1, <4>1, GreatestNumber
    <3>3. u < m /\ u \in times /\ u \in Nat /\ m \in Nat
      BY <1>8, <3>1
    <3>4. UpTo(u) = Below(m)
      <4>1. ASSUME NEW s \in Below(m) PROVE time[s] <= u
        BY <3>2
      <4>2. ASSUME NEW s \in UpTo(u) PROVE time[s] < m
        BY <3>3
      <4> QED
        BY <4>1, <4>2
    <3>5. u \notin Late
      BY <1>8, <3>3
    <3>6. ~(half < Cardinality(UpTo(u)))
      BY <3>3, <3>5
    <3> HIDE DEF half, UpTo, Below
    <3> QED
      BY <1>2, <1>4, <3>4, <3>6
  <2> QED
    BY <2>1, <2>2
<1>10. /\ m \in times
       /\ Cardinality(Below(m)) <= half
       /\ half < Cardinality(UpTo(m))
  BY <1>8, <1>9
<1> DEFINE n == MedianTimePast(S, time)
<1>11. /\ n \in times
       /\ Cardinality(Below(n)) <= half
       /\ half < Cardinality(UpTo(n))
  BY <1>10 DEF MedianTimePast
<1> QED
  BY <1>5, <1>11

(* A window is a finite set of blocks with timestamps, full when it can be.*)
WindowOK ==
    /\ IsFiniteSet(Window) /\ Window # {}
    /\ \A i \in Window : TimeAt[i] \in Nat
    /\ Cardinality(Window) = Lesser(Len(chain), MedianTimeBlocks)

(* It always is.                                                           *)
LEMMA WindowFacts == ChainOK => WindowOK
<1> SUFFICES ASSUME ChainOK PROVE WindowOK
  OBVIOUS
<1> DEFINE L == Len(chain)
           M == MedianTimeBlocks
<1>1. L \in Nat \ {0} /\ DOMAIN chain = 1..L
  <2>1. PICK S : chain \in Seq(S)
    BY DEF ChainOK
  <2> QED
    BY <2>1 DEF ChainOK
<1>2. M \in Nat \ {0}
  BY TimeAssumption
<1>3. \A i \in 1..L : TimeAt[i] \in Nat
  BY <1>1 DEF TimeAt, ChainOK
<1>4. Window = {i \in 1..L : i > L - M}
  BY <1>1 DEF Window
<1> HIDE DEF L, M
<1>5. L \in Window /\ Window \subseteq 1..L
  BY <1>1, <1>2, <1>4
<1>6. IsFiniteSet(Window) /\ Cardinality(Window) = Lesser(L, M)
  <2>1. CASE L <= M
    <3>1. Window = 1..L /\ Lesser(L, M) = L /\ 1 <= L /\ L - 1 + 1 = L /\ L \in Int /\ 1 \in Int
      BY <1>1, <1>2, <1>4, <2>1 DEF Lesser
    <3> QED
      BY <3>1, FS_Interval
  <2>2. CASE ~(L <= M)
    <3> DEFINE a == L - M + 1
    <3>1. /\ a \in Int /\ L \in Int /\ a <= L /\ L - a + 1 = M
          /\ Window = a..L /\ Lesser(L, M) = M
      BY <1>1, <1>2, <1>4, <2>2 DEF Lesser
    <3> HIDE DEF a
    <3> QED
      BY <3>1, FS_Interval
  <2> QED
    BY <2>1, <2>2
<1> QED
  BY <1>1, <1>3, <1>5, <1>6 DEF WindowOK, L, M

(* A timestamp above the median does not take it back.                     *)
LEMMA MedianRises ==
    ASSUME ChainOK, NEW t \in Nat, NEW b, t > Median,
           chain' = Append(chain, [time |-> t, bits |-> b])
    PROVE  Median' >= Median
<1> DEFINE L == Len(chain)
           M == MedianTimeBlocks
           half == Cardinality(Window) \div 2
           halfN == Cardinality(Window') \div 2
           m == Median
           n == Median'
           Below == {i \in Window : TimeAt[i] < m}
           UpToN == {i \in Window' : TimeAt'[i] <= n}
<1>1. /\ ChainOK' /\ L \in Nat \ {0} /\ Len(chain') = L + 1
      /\ DOMAIN chain = 1..L /\ DOMAIN chain' = 1..(L + 1)
      /\ chain'[L + 1].time = t
      /\ \A i \in 1..L : chain'[i] = chain[i]
  BY ChainGrows
<1>2. /\ IsFiniteSet(Window) /\ Window # {}
      /\ \A i \in Window : TimeAt[i] \in Nat
      /\ Cardinality(Window) = Lesser(L, M)
  BY WindowFacts DEF WindowOK
<1>3. /\ IsFiniteSet(Window') /\ Window' # {}
      /\ \A i \in Window' : TimeAt'[i] \in Nat
      /\ Cardinality(Window') = Lesser(L + 1, M)
  <2>1. WindowOK'
    BY <1>1, WindowFacts, PTL
  <2> QED
    BY <1>1, <2>1 DEF WindowOK
<1>4. M \in Nat \ {0}
  BY TimeAssumption
<1>5. half <= halfN /\ half \in Nat /\ halfN \in Nat
  <2> DEFINE x == Cardinality(Window)
             y == Cardinality(Window')
  <2>1. x \in Nat /\ y \in Nat /\ x <= y
    BY <1>1, <1>2, <1>3, <1>4 DEF Lesser
  <2> HIDE DEF x, y
  <2>2. x \div 2 <= y \div 2 /\ x \div 2 \in Nat /\ y \div 2 \in Nat
    BY <2>1
  <2> QED
    BY <2>2 DEF x, y
<1>window. Window' = {i \in 1..(L + 1) : i > L + 1 - M}
  BY <1>1, <1>4 DEF Window
<1>6. m \in Nat /\ Cardinality(Below) <= half
  BY <1>2, MedianExists DEF Median
<1>7. n \in Nat /\ halfN < Cardinality(UpToN)
  <2>1. n = MedianTimePast(Window', TimeAt')
    BY DEF Median
  <2> QED
    BY <1>3, <2>1, MedianExists
<1>8. ASSUME n < m PROVE FALSE
  <2>1. UpToN \subseteq Below
    <3> SUFFICES ASSUME NEW i \in Window', TimeAt'[i] <= n PROVE i \in Below
      OBVIOUS
    <3>1. i \in 1..(L + 1) /\ i > L + 1 - M
      BY <1>window
    <3>2. TimeAt'[i] = chain'[i].time
      BY <1>1, <3>1 DEF TimeAt
    <3>3. i # L + 1
      BY <1>1, <1>6, <1>7, <1>8, <3>2
    <3>4. i \in 1..L /\ i > L - M
      BY <1>1, <1>4, <3>1, <3>3
    <3>5. i \in Window /\ TimeAt[i] = TimeAt'[i]
      BY <1>1, <3>2, <3>4 DEF Window, TimeAt
    <3> QED
      BY <1>2, <1>6, <1>7, <1>8, <3>5
  <2>2. IsFiniteSet(Below)
    <3>1. Below \subseteq Window
      OBVIOUS
    <3> HIDE DEF Below
    <3> QED
      BY <1>2, <3>1, FS_Subset
  <2>3. Cardinality(UpToN) <= Cardinality(Below) /\ Cardinality(Below) \in Nat
        /\ Cardinality(UpToN) \in Nat
    <3> HIDE DEF Below, UpToN
    <3> QED
      BY <2>1, <2>2, FS_Subset, FS_CardinalityType
  <2> HIDE DEF Below, UpToN, half, halfN
  <2> QED
    BY <1>5, <1>6, <1>7, <2>3
<1> QED
  BY <1>6, <1>7, <1>8

(* A branch always is such a list.                                         *)
LEMMA ChainAlways == Spec => []ChainOK
<1>1. Init => ChainOK
  BY ChainStart
<1>2. ChainOK /\ [Next]_vars => ChainOK'
  <2> SUFFICES ASSUME ChainOK, [Next]_vars PROVE ChainOK'
    OBVIOUS
  <2>1. CASE Next
    <3>1. PICK t \in 0..(Clock + MaxFutureBlockTime) : Extend(t)
      BY <2>1 DEF Next
    <3>2. t \in Nat
      BY BranchAssumption, TimeAssumption
    <3> QED
      BY <3>1, <3>2, ChainGrows DEF Extend
  <2>2. CASE UNCHANGED vars
    BY <2>2 DEF vars, ChainOK
  <2> QED
    BY <2>1, <2>2
<1> QED
  BY <1>1, <1>2, PTL DEF Spec

(* The median of the recent timestamps never goes back.                    *)
THEOREM MedianRisesAlways == Spec => MedianNeverReturns
<1>1. ChainOK /\ [Next]_vars => [Median' >= Median]_vars
  <2> SUFFICES ASSUME ChainOK, Next PROVE Median' >= Median
    OBVIOUS
  <2>1. PICK t \in 0..(Clock + MaxFutureBlockTime) : Extend(t)
    BY DEF Next
  <2>2. t \in Nat
    BY BranchAssumption, TimeAssumption
  <2>3. t > Median /\ chain' = Append(chain, [time |-> t, bits |-> NextBits])
    BY <2>1 DEF Extend, TimestampOk
  <2> QED
    BY <2>2, <2>3, MedianRises
<1> QED
  BY <1>1, ChainAlways, PTL DEF Spec, MedianNeverReturns

(* The coinbases of a branch have paid out what the closed formulas say:   *)
(* circulating_supply, next_halving_height, total_supply and max_supply    *)
(* agree with the sum of the rewards, block by block.                      *)
THEOREM SupplyIsSumAlways == Spec => []SupplyIsSum
<1> DEFINE I == HalvingInterval
           M == MaxHalvings
           r == EraReward
<1>1. Init => IssuedOK
  <2> SUFFICES ASSUME Init PROVE IssuedOK
    OBVIOUS
  <2>1. TipHeight = 0
    BY ChainStart DEF TipHeight
  <2> QED
    BY <2>1, EmissionStart DEF Init, IssuedOK
<1>2. ChainOK /\ IssuedOK /\ [Next]_vars => IssuedOK'
  <2> SUFFICES ASSUME ChainOK, IssuedOK, [Next]_vars PROVE IssuedOK'
    OBVIOUS
  <2>1. CASE Next
    <3>1. PICK t \in 0..(Clock + MaxFutureBlockTime) : Extend(t)
      BY <2>1 DEF Next
    <3>2. t \in Nat
      BY BranchAssumption, TimeAssumption
    <3>3. Len(chain) \in Nat \ {0} /\ Len(chain') = Len(chain) + 1
      BY <3>1, <3>2, ChainGrows DEF Extend
    <3>4. issued' = issued + Subsidy(Len(chain))
      BY <3>1 DEF Extend
    <3> DEFINE h == Len(chain) - 1
    <3>5. h \in Nat /\ h + 1 = Len(chain) /\ TipHeight = h /\ TipHeight' = h + 1
      BY <3>3 DEF TipHeight
    <3>6. CirculatingSupply(h + 1) = CirculatingSupply(h) + Subsidy(h + 1)
      BY <3>5, EmissionStep
    <3> QED
      BY <3>4, <3>5, <3>6 DEF IssuedOK
  <2>2. CASE UNCHANGED vars
    BY <2>2 DEF vars, IssuedOK, TipHeight
  <2> QED
    BY <2>1, <2>2
<1>3. ASSUME NEW h \in Nat, HalvingEra(h) >= M - 1
      PROVE  \A k \in h..LastHeight : Subsidy(k) \in {0, Subsidy(h)}
  <2> SUFFICES ASSUME NEW k \in h..LastHeight PROVE Subsidy(k) \in {0, Subsidy(h)}
    OBVIOUS
  <2>1. k \in Nat /\ h <= k /\ h \div I >= M - 1
    BY <1>3, BranchAssumption DEF HalvingEra
  <2>2. RewardAt(r, M, I, k) \in {0, RewardAt(r, M, I, h)}
    BY <2>1, EmissionAssumption, EraRewardFacts, LastEra
  <2> QED
    BY <2>2, EmissionInEras
<1>4. ASSUME NEW h \in Nat, ~(HalvingEra(h) >= M - 1)
      PROVE  LET next == (HalvingEra(h) + 1) * I
             IN  /\ next \in Nat
                 /\ Subsidy(next) = Subsidy(h) \div 2
                 /\ CirculatingSupply(h) + (next - 1 - h) * Subsidy(h)
                      = CirculatingSupply(next - 1)
  <2> DEFINE next == ((h \div I) + 1) * I
             U(k) == PaidUpTo(r, M, I, k)
             R(k) == RewardAt(r, M, I, k)
  <2>1. h \div I \in Nat /\ M \in Nat /\ I \in Nat \ {0} /\ r \in [0..M -> Nat]
    BY EmissionAssumption, EraRewardFacts, NextEra
  <2>2. (h \div I) + 1 < M
    BY <1>4, <2>1 DEF HalvingEra
  <2>3. \A e \in 0..M : e + 1 \in 0..M => r[e + 1] = r[e] \div 2
    BY EraRewardFacts
  <2>4. /\ next \in Nat /\ h < next
        /\ R(next) = R(h) \div 2
        /\ U(h) + (next - 1 - h) * R(h) = U(next - 1)
    <3> HIDE DEF I, M, r
    <3>1. EraRunsOut(r, M, I, h)
      BY <2>1, <2>2, <2>3, RestOfEra
    <3> QED
      BY <3>1 DEF EraRunsOut
  <2>5. next - 1 \in Nat
    <3> HIDE DEF next
    <3> QED
      BY <2>4
  <2>6. /\ Subsidy(next) = R(next) /\ Subsidy(h) = R(h)
        /\ CirculatingSupply(h) = U(h) /\ CirculatingSupply(next - 1) = U(next - 1)
    BY <2>5, EmissionInEras
  <2>7. next = (HalvingEra(h) + 1) * I
    BY DEF HalvingEra
  <2> HIDE DEF next, U, R
  <2> QED
    BY <2>4, <2>6, <2>7
<1>5. \A h \in Nat : CirculatingSupply(h) <= TotalSupply
  <2> SUFFICES ASSUME NEW h \in Nat PROVE CirculatingSupply(h) <= TotalSupply
    OBVIOUS
  <2>1. PaidUpTo(r, M, I, h) <= PaidBefore(r, M, I, M)
    BY EmissionAssumption, EraRewardFacts, PaidAtMostAll
  <2> QED
    BY <2>1, EmissionInEras
<1>6. TotalSupply <= 2 * InitialSubsidy * I
  <2>1. PaidBefore(r, M, I, M) <= 2 * r[0] * I
    BY EmissionAssumption, EraRewardFacts, AllBelowSeries
  <2> QED
    BY <2>1, EmissionInEras, EraRewardFacts
<1>7. ChainOK /\ IssuedOK => SupplyIsSum
  <2> SUFFICES ASSUME ChainOK, IssuedOK PROVE SupplyIsSum
    OBVIOUS
  <2> DEFINE h == TipHeight
             next == NextHalvingHeight(h, -1)
  <2>1. h \in Nat
    <3>1. PICK S : chain \in Seq(S)
      BY DEF ChainOK
    <3> QED
      BY <3>1 DEF ChainOK, TipHeight
  <2>2. issued = CirculatingSupply(h)
    BY DEF IssuedOK
  <2>3. CASE HalvingEra(h) >= M - 1
    <3>1. next = -1
      BY <2>3 DEF NextHalvingHeight
    <3>2. \A k \in h..LastHeight : Subsidy(k) \in {0, Subsidy(h)}
      BY <1>3, <2>1, <2>3
    <3> HIDE DEF h, next
    <3> QED
      BY <1>5, <1>6, <2>1, <2>2, <3>1, <3>2 DEF SupplyIsSum, h, next
  <2>4. CASE ~(HalvingEra(h) >= M - 1)
    <3>1. next = (HalvingEra(h) + 1) * I
      BY <2>4 DEF NextHalvingHeight
    <3>2. /\ next \in Nat
          /\ Subsidy(next) = Subsidy(h) \div 2
          /\ CirculatingSupply(h) + (next - 1 - h) * Subsidy(h) = CirculatingSupply(next - 1)
      BY <1>4, <2>1, <2>4, <3>1
    <3>3. next # -1
      <4> HIDE DEF next
      <4> QED
        BY <3>2
    <3> HIDE DEF h, next
    <3> QED
      BY <1>5, <1>6, <2>1, <2>2, <3>2, <3>3 DEF SupplyIsSum, h, next
  <2> QED
    BY <2>3, <2>4
<1> QED
  BY <1>1, <1>2, <1>7, ChainAlways, PTL DEF Spec

(***************************************************************************)
(* Difficulty.  A target is written as three bytes and an exponent, so     *)
(* that its last bytes are lost.  How many is a step function of its size, *)
(* hence rounding keeps the order of targets, does nothing the second time *)
(* and takes less than half.  The bits at the tip have been rounded, and a *)
(* retarget rounds something that lies on the right side of them.          *)
(***************************************************************************)

(* The recursive definition inside Weight.                                 *)
IsWeighing(g) ==
    g = [n \in 0..MaxExponent |-> IF n = 0 THEN 1 ELSE CompactBase * g[n - 1]]

(* A byte more is a factor of the base.                                    *)
LEMMA WeightFacts ==
    /\ Weight \in [0..MaxExponent -> Nat \ {0}]
    /\ Weight[0] = 1
    /\ \A n \in 0..MaxExponent :
          n + 1 \in 0..MaxExponent => Weight[n + 1] = CompactBase * Weight[n]
<1> DEFINE X == Nat \ {0}
           N == MaxExponent
           F == [n \in 1..N |-> [x \in X |-> CompactBase * x]]
<1>1. N \in Nat /\ 1 \in X /\ CompactBase \in X
  BY DifficultyAssumption DEF MaxExponent
<1>2. StaysIn(X, F, N)
  <2> SUFFICES ASSUME NEW n \in 1..N, NEW x \in X PROVE CompactBase * x \in X
    BY DEF StaysIn
  <2> QED
    BY <1>1
<1>3. PICK g \in [0..N -> X] : Follows(g, 1, F, N)
  <2> HIDE DEF X, F, N
  <2> QED
    BY <1>1, <1>2, RecursionExists
<1> DEFINE h == [n \in 0..N |-> IF n = 0 THEN 1 ELSE CompactBase * g[n - 1]]
<1>4. ASSUME NEW n \in 0..N PROVE g[n] = h[n]
  <2>1. CASE n = 0
    BY <1>3, <2>1 DEF Follows
  <2>2. CASE n # 0
    <3>1. n \in 1..N /\ n - 1 \in 0..N
      BY <1>1, <2>2
    <3>2. g[n] = F[n][g[n - 1]] /\ g[n - 1] \in X
      BY <1>3, <3>1 DEF Follows
    <3> QED
      BY <2>2, <3>1, <3>2
  <2> QED
    BY <2>1, <2>2
<1>5. IsWeighing(g)
  <2>1. g = h
    BY <1>4
  <2> HIDE DEF X, F
  <2> QED
    BY <2>1 DEF IsWeighing
<1>6. IsWeighing(Weight)
  <2>1. \E f : IsWeighing(f)
    BY <1>5
  <2> QED
    BY <2>1 DEF Weight, IsWeighing
<1>7. Weight = [n \in 0..N |-> IF n = 0 THEN 1 ELSE CompactBase * Weight[n - 1]]
  BY <1>6 DEF IsWeighing
<1> DEFINE P == {n \in Nat : n <= N => Weight[n] \in X}
<1>8. Weight[0] = 1
  <2>1. 0 \in 0..N
    BY <1>1
  <2> HIDE DEF N
  <2> QED
    BY <1>7, <2>1
<1>9. ASSUME NEW n \in 0..N, n + 1 \in 0..N PROVE Weight[n + 1] = CompactBase * Weight[n]
  <2>1. n + 1 # 0 /\ (n + 1) - 1 = n
    OBVIOUS
  <2> HIDE DEF N
  <2> QED
    BY <1>7, <1>9, <2>1
<1> HIDE DEF N
<1>10. 0 \in P
  BY <1>8
<1>11. ASSUME NEW n \in Nat, n \in P PROVE n + 1 \in P
  <2> SUFFICES ASSUME n + 1 <= N PROVE Weight[n + 1] \in X
    OBVIOUS
  <2>1. n \in 0..N /\ n + 1 \in 0..N /\ Weight[n] \in X
    BY <1>1, <1>11
  <2>2. Weight[n + 1] = CompactBase * Weight[n]
    BY <1>9, <2>1
  <2> QED
    BY <1>1, <2>1, <2>2
<1> HIDE DEF P
<1>12. \A n \in Nat : n \in P
  BY <1>10, <1>11, NatSetInduction
<1>13. \A n \in 0..N : Weight[n] \in X
  BY <1>1, <1>12 DEF P
<1>14. Weight \in [0..N -> X]
  <2> HIDE DEF X
  <2> QED
    BY <1>7, <1>13
<1> QED
  BY <1>8, <1>9, <1>14 DEF N

(* What is left of a division.                                             *)
LEMMA DivFacts ==
    ASSUME NEW a \in Nat, NEW g \in Nat \ {0}
    PROVE  /\ a \div g \in Nat
           /\ (a \div g) * g \in Nat
           /\ (a \div g) * g <= a
           /\ a < (a \div g) * g + g
<1> DEFINE q == a \div g
           r == a % g
<1>1. q \in Nat /\ r \in 0..(g - 1) /\ a = g * q + r
  OBVIOUS
<1> HIDE DEF q, r
<1>2. g * q = q * g /\ q * g \in Nat
  BY <1>1
<1>3. q * g <= a /\ a < q * g + g
  BY <1>1, <1>2
<1> QED
  BY <1>1, <1>2, <1>3 DEF q

(* A quotient is known by its remainder. *)
LEMMA DivIs ==
    ASSUME NEW a \in Nat, NEW g \in Nat \ {0}, NEW q \in Nat, q * g <= a, a < q * g + g
    PROVE  a \div g = q
<1>1. a < (q + 1) * g
  OBVIOUS
<1> QED
  BY <1>1, EraIs

(* A multiple of g up to a is no more than a rounded down.                 *)
LEMMA DivBound ==
    ASSUME NEW a \in Nat, NEW g \in Nat \ {0}, NEW q \in Nat, q * g <= a
    PROVE  q <= a \div g /\ q * g <= (a \div g) * g
<1> DEFINE p == a \div g
<1>1. p \in Nat /\ p * g \in Nat /\ a < p * g + g
  BY DivFacts
<1> HIDE DEF p
<1>2. q <= p
  <2> SUFFICES ASSUME p + 1 <= q PROVE FALSE
    BY <1>1
  <2>1. (p + 1) * g <= q * g
    BY <1>1
  <2>2. (p + 1) * g = p * g + g
    BY <1>1
  <2> QED
    BY <1>1, <2>1, <2>2
<1>3. q * g <= p * g
  BY <1>1, <1>2
<1> QED
  BY <1>2, <1>3 DEF p

(* A quotient is below whatever it is of more than a. *)
LEMMA DivLess ==
    ASSUME NEW a \in Nat, NEW g \in Nat \ {0}, NEW q \in Nat, a < q * g
    PROVE  a \div g < q
<1> DEFINE p == a \div g
<1>1. p \in Nat /\ p * g \in Nat /\ p * g <= a
  BY DivFacts
<1> HIDE DEF p
<1>2. p < q
  <2> SUFFICES ASSUME q <= p PROVE FALSE
    BY <1>1
  <2>1. q * g <= p * g
    BY <1>1
  <2> QED
    BY <1>1, <2>1
<1> QED
  BY <1>2 DEF p

(* Shifting twice is shifting once by both.                                *)
LEMMA DivTwice ==
    ASSUME NEW a \in Nat, NEW g \in Nat \ {0}, NEW b \in Nat \ {0}
    PROVE  (a \div g) \div b = a \div (b * g)
<1> DEFINE p == a \div g
           q == p \div b
<1>1. p \in Nat /\ p * g \in Nat /\ p * g <= a /\ a < p * g + g
  BY DivFacts
<1> HIDE DEF p
<1>2. q \in Nat /\ q * b \in Nat /\ q * b <= p /\ p < q * b + b
  BY <1>1, DivFacts
<1> HIDE DEF q
<1>3. b * g \in Nat \ {0} /\ q * (b * g) = (q * b) * g
  BY <1>2
<1>4. (q * b) * g <= p * g
  BY <1>1, <1>2
<1>5. p * g + g <= (q * b) * g + b * g
  <2>1. p + 1 <= q * b + b
    BY <1>1, <1>2
  <2>2. (p + 1) * g <= (q * b + b) * g
    BY <1>1, <1>2, <2>1
  <2>3. (p + 1) * g = p * g + g /\ (q * b + b) * g = (q * b) * g + b * g
    BY <1>1, <1>2
  <2> QED
    BY <2>2, <2>3
<1>6. q * (b * g) <= a /\ a < q * (b * g) + b * g
  <2> DEFINE x == (q * b) * g
             y == p * g
             z == b * g
  <2>1. x \in Nat /\ y \in Nat /\ z \in Nat /\ q * z = x
    BY <1>1, <1>2, <1>3
  <2>2. x <= y /\ y + g <= x + z /\ y <= a /\ a < y + g
    BY <1>1, <1>4, <1>5
  <2> HIDE DEF x, y, z
  <2>3. x <= a /\ a < x + z
    BY <2>1, <2>2
  <2> QED
    BY <2>1, <2>3 DEF z
<1>7. a \div (b * g) = q
  <2> DEFINE m == b * g
  <2>1. m \in Nat \ {0} /\ q * m <= a /\ a < q * m + m
    BY <1>3, <1>6
  <2> HIDE DEF m
  <2>2. a \div m = q
    BY <1>2, <2>1, DivIs
  <2> QED
    BY <2>2 DEF m
<1> QED
  BY <1>7 DEF p, q

(* Nothing is left of a multiple. *)
LEMMA DivExact ==
    ASSUME NEW a \in Nat, NEW g \in Nat \ {0}
    PROVE  (a * g) \div g = a
<1> DEFINE n == a * g
<1>1. n \in Nat /\ a * g <= n /\ n < a * g + g
  OBVIOUS
<1> HIDE DEF n
<1>2. n \div g = a
  BY <1>1, DivIs DEF n
<1> QED
  BY <1>2 DEF n

(* Three bytes, and half of what they hold.                                *)
LEMMA SignBitFacts ==
    \E half \in Nat \ {0} :
        /\ CompactBase = 2 * half
        /\ Weight[1] = CompactBase
        /\ Weight[2] = CompactBase * CompactBase
        /\ SignBit = half * Weight[2] /\ SignBit \in Nat \ {0}
        /\ MantissaLimit = CompactBase * Weight[2]
        /\ MantissaLimit = 2 * SignBit
        /\ Weight[2] <= SignBit
        /\ CompactBase <= SignBit
<1> DEFINE B == CompactBase
           W == Weight
           half == B \div 2
           w == W[2]
<1>1. B \in Nat \ {0} /\ B % 2 = 0
  BY DifficultyAssumption
<1>2. half \in Nat \ {0} /\ B = 2 * half
  <2> HIDE DEF B
  <2> QED
    BY <1>1
<1>3. W[0] = 1 /\ W[1] = B * W[0] /\ W[2] = B * W[1] /\ W[3] = B * W[2]
  <2>1. /\ 0 \in 0..MaxExponent /\ 1 \in 0..MaxExponent /\ 2 \in 0..MaxExponent
        /\ 3 \in 0..MaxExponent
    BY DEF MaxExponent
  <2>2. 0 + 1 = 1 /\ 1 + 1 = 2 /\ 2 + 1 = 3
    OBVIOUS
  <2> QED
    BY <2>1, <2>2, WeightFacts
<1> HIDE DEF B, W, half
<1>4. W[1] = B /\ w = B * B
  BY <1>1, <1>3
<1>5. w \in Nat \ {0} /\ W[3] = B * w
  BY <1>1, <1>3, <1>4
<1> HIDE DEF w
<1>6. W[3] = 2 * (half * w) /\ half * w \in Nat \ {0}
  BY <1>2, <1>5
<1>7. W[3] \div 2 = half * w
  <2> DEFINE s == half * w
  <2>1. s \in Nat /\ W[3] = 2 * s
    BY <1>6
  <2> HIDE DEF s
  <2>2. (2 * s) \div 2 = s
    BY <2>1
  <2> QED
    BY <2>1, <2>2 DEF s
<1>8. w <= half * w /\ B <= w
  BY <1>1, <1>2, <1>4, <1>5
<1>9. B <= half * w
  BY <1>1, <1>5, <1>6, <1>8
<1> QED
  BY <1>2, <1>4, <1>5, <1>6, <1>7, <1>8, <1>9 DEF MantissaLimit, SignBit, B, W, w

(* A positive target below the overflow has as many digits as DigitCount   *)
(* says.                                                                   *)
LEMMA DigitFacts ==
    ASSUME NEW t \in Nat \ {0}, t < Weight[MaxExponent]
    PROVE  /\ DigitCount(t) \in 1..MaxExponent
           /\ Weight[DigitCount(t) - 1] <= t /\ t < Weight[DigitCount(t)]
<1> DEFINE N == MaxExponent
           T == {n \in 0..N : t < Weight[n]}
<1>0. N \in Nat
  BY DEF MaxExponent
<1>w. Weight \in [0..N -> Nat \ {0}] /\ Weight[0] = 1
  BY WeightFacts
<1> HIDE DEF N
<1>1. PICK n \in T : \A k \in T : n <= k
  <2>1. N \in T
    BY <1>0 DEF N
  <2>2. T \in SUBSET Nat
    BY <1>0
  <2> HIDE DEF T
  <2> QED
    BY <2>1, <2>2, LeastNumber
<1>2. n \in 1..N /\ n - 1 \in 0..N
  <2>1. n # 0
    BY <1>w, <1>1
  <2> QED
    BY <1>0, <1>1, <2>1
<1>3. n - 1 \notin T
  <2>1. ~(n <= n - 1)
    BY <1>2
  <2> QED
    BY <1>1, <2>1
<1>4. Weight[n - 1] <= t /\ t < Weight[n]
  BY <1>w, <1>1, <1>2, <1>3
<1>5. \E k \in 1..N : Weight[k - 1] <= t /\ t < Weight[k]
  BY <1>2, <1>4
<1> QED
  BY <1>5 DEF DigitCount, N

(* The largest target that the exponent allows, plus one.                  *)
Overflow == SignBit * Weight[MaxExponent - 3]

(* A target that fits into j bytes and three is below an overflow of j.    *)
LEMMA WeightSteps ==
    ASSUME NEW j \in Nat, j + 3 <= MaxExponent
    PROVE  /\ Weight[j] \in Nat \ {0}
           /\ Weight[j + 1] = CompactBase * Weight[j]
           /\ Weight[j + 2] = Weight[2] * Weight[j]
           /\ Weight[j + 3] = MantissaLimit * Weight[j]
           /\ Weight[j + 3] = 2 * (SignBit * Weight[j])
           /\ Weight[j + 1] \in Nat \ {0} /\ SignBit * Weight[j] \in Nat \ {0}
<1> DEFINE B == CompactBase
           W == Weight
           w == W[j]
<1>1. /\ j \in 0..MaxExponent /\ j + 1 \in 0..MaxExponent /\ j + 2 \in 0..MaxExponent
      /\ j + 3 \in 0..MaxExponent /\ (j + 1) + 1 = j + 2 /\ (j + 2) + 1 = j + 3
  BY DEF MaxExponent
<1>2. /\ w \in Nat \ {0} /\ W[j + 1] = B * w /\ W[j + 2] = B * W[j + 1]
      /\ W[j + 3] = B * W[j + 2] /\ W[j + 1] \in Nat \ {0}
  BY <1>1, WeightFacts
<1>3. PICK half \in Nat \ {0} :
         /\ W[2] = B * B /\ SignBit = half * W[2] /\ SignBit \in Nat \ {0}
         /\ MantissaLimit = B * W[2] /\ MantissaLimit = 2 * SignBit
  BY SignBitFacts
<1>4. B \in Nat \ {0}
  BY DifficultyAssumption
<1> DEFINE s == SignBit
<1> HIDE DEF B, W, w, s
<1>5. W[j + 2] = (B * B) * w
  BY <1>2, <1>4
<1>6. W[j + 3] = (B * (B * B)) * w
  BY <1>2, <1>4, <1>5
<1>7. W[j + 3] = MantissaLimit * w
  BY <1>3, <1>6
<1>8. s \in Nat \ {0} /\ MantissaLimit = 2 * s
  BY <1>3 DEF s
<1>9. (2 * s) * w = 2 * (s * w) /\ s * w \in Nat \ {0}
  BY <1>2, <1>8
<1> QED
  BY <1>2, <1>3, <1>5, <1>7, <1>8, <1>9 DEF B, W, w, s

(* Zero has no weight: the case for it changes nothing.                    *)
LEMMA ReadFacts ==
    ASSUME NEW e \in Nat, NEW m \in Nat
    PROVE  /\ e <= 3 => CompactToTarget(<<e, m>>) = m \div Weight[3 - e]
           /\ e \in 4..MaxExponent => CompactToTarget(<<e, m>>) = m * Weight[e - 3]
<1>1. MaxExponent = 34
  BY DEF MaxExponent
<1>2. CASE m # 0
  BY <1>1, <1>2 DEF CompactToTarget
<1>3. CASE m = 0
  <2>1. CompactToTarget(<<e, m>>) = 0
    BY <1>3 DEF CompactToTarget
  <2>2. ASSUME e <= 3 PROVE m \div Weight[3 - e] = 0
    <3> DEFINE w == Weight[3 - e]
    <3>1. w \in Nat \ {0}
      BY <1>1, <2>2, WeightFacts
    <3> HIDE DEF w
    <3>2. (0 * w) \div w = 0 /\ 0 * w = 0
      BY <3>1, DivExact
    <3> QED
      BY <1>3, <3>2 DEF w
  <2>3. ASSUME e \in 4..MaxExponent PROVE m * Weight[e - 3] = 0
    <3>1. Weight[e - 3] \in Nat \ {0}
      BY <1>1, <2>3, WeightFacts
    <3> QED
      BY <1>3, <3>1
  <2> QED
    BY <2>1, <2>2, <2>3
<1> QED
  BY <1>2, <1>3

(* The last k bytes of t are lost to the three bytes of a mantissa, with   *)
(* its sign bit clear, and no more than these.                             *)
Loses(t, k) ==
    /\ k \in 0..(MaxExponent - 3)
    /\ t < SignBit * Weight[k]
    /\ k # 0 => SignBit * Weight[k - 1] <= t

(* What is left of t then. *)
Rounded(t, k) == (t \div Weight[k]) * Weight[k]

(* What target_to_compact writes, compact_to_target reads back, but for    *)
(* the bytes that are lost.                                                *)
Reads(t, bits) ==
    /\ WellFormedBits(bits)
    /\ \E k : /\ Loses(t, k) /\ CompactToTarget(bits) = Rounded(t, k)
              /\ k # 0 => bits = <<k + 3, t \div Weight[k]>>

(* Targets of up to three bytes.                                           *)
LEMMA ShortTarget ==
    ASSUME NEW t \in Nat \ {0}, t < Overflow, DigitCount(t) <= 3
    PROVE  Reads(t, TargetToCompact(t))
<1> DEFINE size == DigitCount(t)
           B == CompactBase
           W == Weight
           S == SignBit
           m == t * W[3 - size]
<1>1. PICK half \in Nat \ {0} :
        /\ B = 2 * half /\ W[1] = B /\ W[2] = B * B /\ S \in Nat \ {0}
        /\ MantissaLimit = B * W[2] /\ MantissaLimit = 2 * S
        /\ W[2] <= S /\ B <= S
  BY SignBitFacts
<1>2. B \in Nat \ {0} /\ W[0] = 1 /\ W[3] = MantissaLimit
  BY DifficultyAssumption, WeightFacts DEF MantissaLimit
<1>3. size \in 1..3 /\ t < W[size]
  <2>1. /\ 31 \in Nat /\ 31 + 3 <= MaxExponent /\ MaxExponent = 34
    BY DEF MaxExponent
  <2>2. Weight[34] = 2 * Overflow /\ Overflow \in Nat \ {0}
    BY <2>1, WeightSteps DEF Overflow
  <2>3. t < Weight[MaxExponent]
    BY <2>1, <2>2
  <2> QED
    BY <2>1, <2>3, DigitFacts
<1>4. TargetToCompact(t) = IF m >= S THEN <<size + 1, m \div B>> ELSE <<size, m>>
  BY <1>3 DEF TargetToCompact
<1>5. 0 \in 0..(MaxExponent - 3) /\ 1 \in 0..(MaxExponent - 3) /\ MaxExponent = 34
  BY DEF MaxExponent
<1>0. \A k \in Nat : Rounded(k, 0) = k
  BY <1>2 DEF Rounded
<1>r. \A a \in Nat : /\ CompactToTarget(<<1, a>>) = a \div W[2]
                     /\ CompactToTarget(<<2, a>>) = a \div W[1]
                     /\ CompactToTarget(<<3, a>>) = a \div W[0]
                     /\ CompactToTarget(<<4, a>>) = a * W[1]
                     /\ a \div B \in Nat
  <2> TAKE a \in Nat
  <2>1. /\ 1 <= 3 /\ 2 <= 3 /\ 3 <= 3 /\ 4 \in 4..MaxExponent
        /\ 3 - 1 = 2 /\ 3 - 2 = 1 /\ 3 - 3 = 0 /\ 4 - 3 = 1
    BY <1>5
  <2>2. /\ CompactToTarget(<<1, a>>) = a \div W[3 - 1]
        /\ CompactToTarget(<<2, a>>) = a \div W[3 - 2]
        /\ CompactToTarget(<<3, a>>) = a \div W[3 - 3]
        /\ CompactToTarget(<<4, a>>) = a * W[4 - 3]
    BY <2>1, ReadFacts
  <2>3. a \div B \in Nat
    BY <1>2, DivFacts
  <2> QED
    BY <2>1, <2>2, <2>3
<1> HIDE DEF size, B, W, S
<1>6. ASSUME NEW bits, bits[2] < S, bits[1] <= 34, CompactToTarget(bits) = t, t < S
      PROVE  Reads(t, bits)
  <2>1. Loses(t, 0)
    BY <1>1, <1>2, <1>5, <1>6 DEF Loses, S, W
  <2> QED
    BY <1>0, <1>5, <1>6, <2>1 DEF Reads, WellFormedBits, S
<1>7. ASSUME m >= S, m \in Nat, m < MantissaLimit PROVE m \div B < S
  <2>1. m < W[2] * B
    BY <1>1, <1>2, <1>7
  <2>2. W[2] \in Nat
    BY <1>1, <1>2
  <2> HIDE DEF m
  <2>3. m \div B < W[2] /\ m \div B \in Nat
    BY <1>2, <1>7, <2>1, <2>2, DivLess, DivFacts
  <2> QED
    BY <1>1, <2>2, <2>3
<1>8. CASE size = 1
  <2>1. m = t * W[2] /\ m = (t * B) * B /\ m \in Nat /\ t < B
    BY <1>1, <1>2, <1>3, <1>8
  <2>2. m < MantissaLimit /\ t < S
    BY <1>1, <1>2, <2>1
  <2>3. W[2] \in Nat \ {0} /\ t * B \in Nat
    BY <1>1, <1>2
  <2>4. m \div W[2] = t
    BY <2>1, <2>3, DivExact
  <2>5. (m \div B) \div W[1] = t
    <3>1. m \div B = t * B
      BY <1>2, <2>1, <2>3, DivExact
    <3>2. (t * B) \div B = t
      BY <1>2, DivExact
    <3> QED
      BY <1>1, <3>1, <3>2
  <2> HIDE DEF m
  <2>6. CASE m >= S
    <3>1. CompactToTarget(<<2, m \div B>>) = (m \div B) \div W[1]
      BY <1>r, <2>1
    <3> QED
      BY <1>4, <1>6, <1>7, <1>8, <2>1, <2>2, <2>5, <2>6, <3>1
  <2>7. CASE ~(m >= S)
    <3>1. CompactToTarget(<<1, m>>) = m \div W[2]
      BY <1>r, <2>1
    <3>2. m < S
      BY <1>1, <2>1, <2>7
    <3> QED
      BY <1>4, <1>6, <1>8, <2>1, <2>2, <2>4, <2>7, <3>1, <3>2
  <2> QED
    BY <2>6, <2>7
<1>9. CASE size = 2
  <2>1. m = t * B /\ m \in Nat /\ t < W[2]
    BY <1>1, <1>2, <1>3, <1>9
  <2>2. m < MantissaLimit /\ t < S
    <3>1. W[2] \in Nat
      BY <1>1, <1>2
    <3>2. t < S
      BY <1>1, <2>1, <3>1
    <3>3. t * B < B * W[2]
      BY <1>2, <2>1, <3>1
    <3> QED
      BY <1>1, <2>1, <3>2, <3>3
  <2>3. m \div B = t
    BY <1>2, <2>1, DivExact
  <2> HIDE DEF m
  <2>4. CASE m >= S
    <3>1. CompactToTarget(<<3, m \div B>>) = (m \div B) \div W[0]
      BY <1>r, <2>1
    <3>2. (m \div B) \div W[0] = t
      BY <1>2, <2>3
    <3> QED
      BY <1>4, <1>6, <1>7, <1>9, <2>1, <2>2, <2>4, <3>1, <3>2
  <2>5. CASE ~(m >= S)
    <3>1. CompactToTarget(<<2, m>>) = m \div W[1]
      BY <1>r, <2>1
    <3>2. m < S
      BY <1>1, <2>1, <2>5
    <3> QED
      BY <1>1, <1>4, <1>6, <1>9, <2>1, <2>2, <2>3, <2>5, <3>1, <3>2
  <2> QED
    BY <2>4, <2>5
<1>10. CASE size = 3
  <2>1. m = t /\ m \in Nat /\ m < MantissaLimit
    BY <1>2, <1>3, <1>10
  <2> HIDE DEF m
  <2>2. CASE m >= S
    <3>1. CompactToTarget(<<4, m \div B>>) = (m \div B) * W[1]
      BY <1>r, <2>1
    <3>2. Rounded(t, 1) = (m \div B) * W[1]
      BY <1>1, <2>1 DEF Rounded, W
    <3>3. Loses(t, 1)
      <4>1. m < S * B
        <5>1. 2 * S <= S * B
          BY <1>1, <1>2
        <5> QED
          BY <1>1, <1>2, <2>1, <5>1
      <4>2. S * W[1] = S * B /\ S * W[0] = S
        BY <1>1, <1>2
      <4>3. S <= t
        BY <2>1, <2>2
      <4> QED
        BY <1>5, <2>1, <4>1, <4>2, <4>3 DEF Loses, S, W
    <3>4. WellFormedBits(<<4, m \div B>>)
      BY <1>5, <1>7, <2>1, <2>2 DEF WellFormedBits, S
    <3>5. <<4, m \div B>> = <<1 + 3, t \div Weight[1]>>
      BY <1>1, <2>1 DEF W
    <3> QED
      BY <1>4, <1>10, <2>2, <3>1, <3>2, <3>3, <3>4, <3>5 DEF Reads
  <2>3. CASE ~(m >= S)
    <3>1. CompactToTarget(<<3, m>>) = m \div W[0]
      BY <1>r, <2>1
    <3>2. m < S /\ m \div W[0] = t
      BY <1>1, <1>2, <2>1, <2>3
    <3> QED
      BY <1>4, <1>6, <1>10, <2>1, <2>3, <3>1, <3>2
  <2> QED
    BY <2>2, <2>3
<1> QED
  BY <1>3, <1>8, <1>9, <1>10

(* Longer ones.                                                            *)
LEMMA LongTarget ==
    ASSUME NEW t \in Nat \ {0}, t < Overflow, ~(DigitCount(t) <= 3)
    PROVE  Reads(t, TargetToCompact(t))
<1> DEFINE size == DigitCount(t)
           j == size - 3
           B == CompactBase
           W == Weight
           S == SignBit
           w == W[j]
           m == t \div w
<1>0. MaxExponent = 34
  BY DEF MaxExponent
<1>1. PICK half \in Nat \ {0} :
        /\ B = 2 * half /\ W[1] = B /\ W[2] = B * B /\ S \in Nat \ {0}
        /\ MantissaLimit = B * W[2] /\ MantissaLimit = 2 * S
        /\ W[2] <= S /\ B <= S
  BY SignBitFacts
<1>2. B \in Nat \ {0}
  BY DifficultyAssumption
<1>3. Overflow = S * W[31] /\ Overflow \in Nat \ {0} /\ W[34] = 2 * Overflow
  BY <1>0, WeightSteps DEF Overflow
<1>4. size \in 4..34 /\ W[size - 1] <= t /\ t < W[size]
  <2>1. t < Weight[MaxExponent]
    BY <1>0, <1>3
  <2>2. /\ size \in 1..34 /\ W[size - 1] <= t /\ t < W[size]
    BY <1>0, <2>1, DigitFacts
  <2> HIDE DEF size, W
  <2> QED
    BY <2>2 DEF size
<1>5. TargetToCompact(t) = IF m >= S THEN <<size + 1, m \div B>> ELSE <<size, m>>
  BY DEF TargetToCompact
<1> HIDE DEF size
<1>6. /\ j \in 1..31 /\ j + 2 = size - 1 /\ j + 3 = size /\ size + 1 = j + 4
      /\ j + 1 = size - 2 /\ j - 1 \in Nat /\ (j - 1) + 1 = j /\ (j - 1) + 3 = j + 2
  BY <1>4
<1> HIDE DEF j
<1>7. /\ w \in Nat \ {0} /\ W[j + 1] = B * w /\ W[j + 2] = W[2] * w
      /\ W[j + 3] = MantissaLimit * w /\ W[j + 3] = 2 * (S * w)
      /\ W[j + 1] \in Nat \ {0} /\ S * w \in Nat \ {0}
  <2>1. j \in Nat /\ j + 3 <= MaxExponent
    BY <1>0, <1>6
  <2> QED
    BY <2>1, WeightSteps
<1>8. W[j + 2] = 2 * (S * W[j - 1]) /\ S * W[j - 1] \in Nat \ {0}
  <2>1. j - 1 \in Nat /\ (j - 1) + 3 <= MaxExponent
    BY <1>0, <1>6
  <2> QED
    BY <1>6, <2>1, WeightSteps
<1>9. W[j + 2] <= t /\ t < W[j + 3]
  BY <1>4, <1>6
<1>10. S * W[j - 1] <= t
  <2> DEFINE x == S * W[j - 1]
  <2>1. x \in Nat /\ 2 * x <= t
    BY <1>8, <1>9
  <2> HIDE DEF x
  <2>2. x <= t
    BY <2>1
  <2> QED
    BY <2>2 DEF x
<1>11. m \in Nat /\ m < MantissaLimit
  <2>1. t < MantissaLimit * w
    BY <1>7, <1>9
  <2>2. MantissaLimit \in Nat
    BY <1>1
  <2> HIDE DEF w
  <2> QED
    BY <1>7, <2>1, <2>2, DivLess, DivFacts
<1>12. m < S <=> t < S * w
  <2>1. m < S => t < S * w
    <3> SUFFICES ASSUME S * w <= t PROVE S <= m
      BY <1>1, <1>7, <1>11
    <3> HIDE DEF w, S
    <3> QED
      BY <1>1, <1>7, DivBound DEF S
  <2>2. t < S * w => m < S
    <3> HIDE DEF w
    <3> QED
      BY <1>1, <1>7, DivLess
  <2> QED
    BY <2>1, <2>2
<1>13. CASE m < S
  <2>1. CompactToTarget(<<size, m>>) = m * W[j]
    <3>1. ~(size <= 3)
      BY <1>4
    <3>2. size \in 4..MaxExponent /\ size \in Nat
      BY <1>0, <1>4
    <3> HIDE DEF m
    <3> QED
      BY <1>11, <3>2, ReadFacts DEF j
  <2>2. Rounded(t, j) = m * W[j]
    BY DEF Rounded
  <2>3. Loses(t, j)
    BY <1>0, <1>6, <1>10, <1>12, <1>13 DEF Loses
  <2>4. WellFormedBits(<<size, m>>)
    BY <1>0, <1>4, <1>13 DEF WellFormedBits
  <2>5. TargetToCompact(t) = <<size, m>>
    <3>1. ~(m >= S)
      BY <1>1, <1>11, <1>13
    <3> HIDE DEF m, S
    <3> QED
      BY <1>5, <3>1
  <2>6. <<size, m>> = <<j + 3, t \div Weight[j]>>
    BY <1>6
  <2> QED
    BY <2>1, <2>2, <2>3, <2>4, <2>5, <2>6 DEF Reads
<1>14. CASE ~(m < S)
  <2>1. S * w <= t /\ m >= S
    BY <1>1, <1>7, <1>11, <1>12, <1>14
  <2>2. j + 1 \in 0..31 /\ j + 1 # 0 /\ (j + 1) - 1 = j
    <3>1. j # 31
      <4> SUFFICES ASSUME j = 31 PROVE FALSE
        OBVIOUS
      <4>1. S * w = Overflow
        BY <1>3
      <4> QED
        BY <1>3, <2>1, <4>1
    <3> QED
      BY <1>6, <3>1
  <2>3. t < S * W[j + 1]
    <3> DEFINE y == S * w
               z == S * W[j + 1]
    <3>1. t < 2 * y /\ y \in Nat
      BY <1>7, <1>9
    <3>2. z = B * y
      BY <1>1, <1>2, <1>7
    <3> HIDE DEF y, z
    <3>3. B >= 2
      BY <1>1
    <3>4. 2 * y <= B * y
      BY <1>2, <3>1, <3>3
    <3>5. t < z
      BY <1>2, <3>1, <3>2, <3>4
    <3> QED
      BY <3>5 DEF z
  <2>4. Loses(t, j + 1)
    BY <1>0, <2>1, <2>2, <2>3 DEF Loses
  <2>5. m \div B = t \div W[j + 1]
    <3> HIDE DEF w, B
    <3>1. (t \div w) \div B = t \div (B * w)
      BY <1>2, <1>7, DivTwice
    <3> QED
      BY <1>7, <3>1
  <2>6. CompactToTarget(<<size + 1, m \div B>>) = (m \div B) * W[j + 1]
    <3> DEFINE n == m \div B
               e == size + 1
    <3>1. e = j + 4
      BY <1>6
    <3> HIDE DEF e
    <3>2. e \in 4..MaxExponent /\ e \in Nat /\ e - 3 = j + 1
      BY <1>0, <1>6, <2>2, <3>1
    <3>3. n \in Nat
      <4> HIDE DEF m, B
      <4> QED
        BY <1>2, <1>11, DivFacts
    <3> HIDE DEF n
    <3>5. CompactToTarget(<<e, n>>) = n * W[e - 3]
      BY <3>2, <3>3, ReadFacts
    <3>4. CompactToTarget(<<e, n>>) = n * W[j + 1]
      BY <3>2, <3>5
    <3> QED
      BY <3>4 DEF n, e
  <2>7. WellFormedBits(<<size + 1, m \div B>>)
    <3>1. m < W[2] * B /\ W[2] \in Nat
      BY <1>1, <1>2, <1>11
    <3> DEFINE n == m \div B
    <3>2. n < W[2] /\ n \in Nat
      <4> HIDE DEF m, B, W
      <4> QED
        BY <1>2, <1>11, <3>1, DivLess, DivFacts
    <3>3. n < S
      <4> HIDE DEF n
      <4> QED
        BY <1>1, <3>1, <3>2
    <3>4. size + 1 <= 34
      BY <1>6, <2>2
    <3> HIDE DEF n
    <3> QED
      BY <1>0, <3>3, <3>4 DEF WellFormedBits, n
  <2>8. TargetToCompact(t) = <<size + 1, m \div B>>
    BY <1>5, <2>1
  <2>9. Rounded(t, j + 1) = (m \div B) * W[j + 1]
    BY <2>5 DEF Rounded
  <2>10. <<size + 1, m \div B>> = <<(j + 1) + 3, t \div Weight[j + 1]>>
    BY <1>6, <2>5
  <2> QED
    BY <2>4, <2>6, <2>7, <2>8, <2>9, <2>10 DEF Reads
<1> QED
  BY <1>13, <1>14

(* Any positive target that does not overflow.                             *)
LEMMA CompactFacts ==
    ASSUME NEW t \in Nat \ {0}, t < Overflow
    PROVE  Reads(t, TargetToCompact(t))
BY ShortTarget, LongTarget

(* Rounding loses less than a half, and nothing twice.                     *)
LEMMA RoundedFacts ==
    ASSUME NEW t \in Nat \ {0}, NEW k, Loses(t, k)
    PROVE  /\ Rounded(t, k) \in Nat \ {0}
           /\ Rounded(t, k) <= t
           /\ t < 2 * Rounded(t, k)
<1> DEFINE w == Weight[k]
           r == Rounded(t, k)
<1>1. k \in Nat /\ k + 3 <= MaxExponent /\ w \in Nat \ {0}
  <2>1. k \in Nat /\ k + 3 <= MaxExponent
    BY DEF Loses, MaxExponent
  <2> QED
    BY <2>1, WeightSteps
<1>2. r = (t \div w) * w
  BY DEF Rounded
<1>3. w <= t
  <2>1. CASE k = 0
    BY <2>1, WeightFacts
  <2>2. CASE k # 0
    <3>1. PICK half \in Nat \ {0} : CompactBase <= SignBit /\ SignBit \in Nat \ {0}
      BY SignBitFacts
    <3>2. /\ k - 1 \in Nat /\ (k - 1) + 3 <= MaxExponent /\ (k - 1) + 1 = k
      BY <1>1, <2>2 DEF MaxExponent
    <3> DEFINE v == Weight[k - 1]
    <3>3. w = CompactBase * v /\ v \in Nat \ {0}
      BY <3>2, WeightSteps
    <3>4. SignBit * v <= t
      BY <2>2 DEF Loses
    <3> HIDE DEF v, w
    <3>5. CompactBase * v <= SignBit * v /\ SignBit * v \in Nat
      BY <3>1, <3>3, DifficultyAssumption
    <3> QED
      BY <1>1, <3>3, <3>4, <3>5
  <2> QED
    BY <2>1, <2>2
<1> HIDE DEF w, r
<1>4. r \in Nat /\ r <= t /\ t < r + w
  BY <1>1, <1>2, DivFacts
<1>5. w <= r
  <2>1. 1 * w <= t
    BY <1>1, <1>3
  <2>2. 1 * w <= (t \div w) * w
    BY <1>1, <2>1, DivBound
  <2> QED
    BY <1>1, <1>2, <2>2
<1> QED
  BY <1>1, <1>4, <1>5 DEF r

(* More bytes weigh more.                                                  *)
LEMMA WeightsGrow ==
    ASSUME NEW j \in Nat, NEW k \in Nat, j <= k, k + 3 <= MaxExponent
    PROVE  SignBit * Weight[j] <= SignBit * Weight[k]
<1> DEFINE W == Weight
           P == {n \in Nat : j + n + 3 <= MaxExponent => W[j] <= W[j + n]}
<1>0. MaxExponent \in Nat
  BY DEF MaxExponent
<1>1. 0 \in P
  <2>1. j + 3 <= MaxExponent /\ j + 0 = j
    BY <1>0
  <2>2. W[j] \in Nat
    BY <2>1, WeightSteps
  <2> HIDE DEF W
  <2> QED
    BY <2>1, <2>2
<1>2. ASSUME NEW n \in Nat, n \in P PROVE n + 1 \in P
  <2> SUFFICES ASSUME j + (n + 1) + 3 <= MaxExponent PROVE W[j] <= W[j + (n + 1)]
    OBVIOUS
  <2>1. /\ j + n \in Nat /\ (j + n) + 3 <= MaxExponent /\ (j + n) + 1 = j + (n + 1)
        /\ j + 3 <= MaxExponent
    BY <1>0
  <2>2. /\ W[(j + n) + 1] = CompactBase * W[j + n] /\ W[j + n] \in Nat \ {0}
        /\ W[j] \in Nat \ {0}
    BY <2>1, WeightSteps
  <2>3. W[j] <= W[j + n]
    BY <1>2, <2>1
  <2> DEFINE x == W[j]
             y == W[j + n]
  <2>4. x \in Nat /\ y \in Nat /\ x <= y
    BY <2>2, <2>3
  <2> HIDE DEF x, y
  <2>5. x <= CompactBase * y
    BY <2>4, DifficultyAssumption
  <2> QED
    BY <2>1, <2>2, <2>5 DEF x, y
<1> HIDE DEF P
<1>3. \A n \in Nat : n \in P
  BY <1>1, <1>2, NatSetInduction
<1>4. k - j \in Nat /\ j + (k - j) = k /\ j + (k - j) + 3 <= MaxExponent /\ j + 3 <= MaxExponent
  BY <1>0
<1>5. W[j] <= W[k]
  BY <1>3, <1>4 DEF P
<1>6. W[j] \in Nat /\ W[k] \in Nat
  BY <1>4, WeightSteps
<1> HIDE DEF W
<1>7. SignBit \in Nat
  BY SignBitFacts
<1>8. SignBit * W[j] <= SignBit * W[k]
  BY <1>5, <1>6, <1>7
<1> QED
  BY <1>8 DEF W

(* A larger target loses no fewer bytes.                                   *)
LEMMA LosesMore ==
    ASSUME NEW s \in Nat, NEW t \in Nat, s <= t, NEW j, NEW k, Loses(s, j), Loses(t, k)
    PROVE  j <= k
<1> DEFINE W == Weight
           S == SignBit
<1>1. j \in Nat /\ j + 3 <= MaxExponent /\ k \in Nat /\ k + 3 <= MaxExponent
  BY DEF Loses, MaxExponent
<1> SUFFICES ASSUME k < j PROVE FALSE
  BY <1>1
<1>2. j - 1 \in Nat /\ (j - 1) + 3 <= MaxExponent /\ k <= j - 1 /\ j # 0
  BY <1>1 DEF MaxExponent
<1>3. S * W[k] <= S * W[j - 1]
  BY <1>1, <1>2, WeightsGrow
<1>4. t < S * W[k] /\ S * W[j - 1] <= s
  BY <1>2 DEF Loses
<1>5. S * W[k] \in Nat /\ S * W[j - 1] \in Nat
  BY <1>1, <1>2, WeightSteps
<1> DEFINE x == S * W[k]
           y == S * W[j - 1]
<1>6. x <= y /\ t < x /\ y <= s /\ x \in Nat /\ y \in Nat
  BY <1>3, <1>4, <1>5
<1> HIDE DEF x, y
<1> QED
  BY <1>6

(* Where a byte more is lost, nothing is.                                  *)
LEMMA SignMultiple ==
    ASSUME NEW k \in 1..(MaxExponent - 3)
    PROVE  \E q \in Nat : q * Weight[k] = SignBit * Weight[k - 1]
<1> DEFINE W == Weight
           S == SignBit
           B == CompactBase
           v == W[k - 1]
           w == W[k]
<1>1. k - 1 \in Nat /\ (k - 1) + 3 <= MaxExponent /\ (k - 1) + 1 = k
  BY DEF MaxExponent
<1>2. w = B * v /\ v \in Nat \ {0} /\ S * v \in Nat
  BY <1>1, WeightSteps
<1>3. PICK half \in Nat \ {0} : W[2] = B * B /\ S = half * W[2] /\ S \in Nat \ {0}
  BY SignBitFacts
<1>4. B \in Nat
  BY DifficultyAssumption
<1> HIDE DEF B, v, w, S, W
<1>5. (half * B) * (B * v) = (half * (B * B)) * v /\ half * B \in Nat
  BY <1>2, <1>4
<1>6. (half * B) * w = S * v
  BY <1>2, <1>3, <1>5
<1>7. \E q \in Nat : q * w = S * v
  BY <1>5, <1>6
<1> QED
  BY <1>7 DEF v, w, S, W

(* So rounding is done once.                                               *)
LEMMA RoundedTwice ==
    ASSUME NEW t \in Nat \ {0}, NEW k, Loses(t, k)
    PROVE  /\ Loses(Rounded(t, k), k)
           /\ Rounded(t, k) \div Weight[k] = t \div Weight[k]
           /\ Rounded(Rounded(t, k), k) = Rounded(t, k)
<1> DEFINE w == Weight[k]
           r == Rounded(t, k)
<1>1. k \in Nat /\ k + 3 <= MaxExponent /\ w \in Nat \ {0} /\ SignBit * w \in Nat
  <2>1. k \in Nat /\ k + 3 <= MaxExponent
    BY DEF Loses, MaxExponent
  <2> QED
    BY <2>1, WeightSteps
<1>2. r = (t \div w) * w
  BY DEF Rounded
<1>3. r \in Nat /\ r <= t /\ t \div w \in Nat
  BY <1>1, <1>2, DivFacts
<1>4. r \div w = t \div w
  <2> DEFINE q == t \div w
  <2> HIDE DEF q, w
  <2>1. (q * w) \div w = q
    BY <1>1, <1>3, DivExact DEF q
  <2> QED
    BY <1>2, <2>1 DEF q
<1>5. Loses(r, k)
  <2>1. r < SignBit * w
    <3> DEFINE x == SignBit * w
    <3>1. t < x /\ x \in Nat
      BY <1>1 DEF Loses
    <3> HIDE DEF x, r
    <3>2. r < x
      BY <1>3, <3>1
    <3> QED
      BY <3>2 DEF x
  <2>2. ASSUME k # 0 PROVE SignBit * Weight[k - 1] <= r
    <3>1. k \in 1..(MaxExponent - 3)
      BY <1>1, <2>2 DEF MaxExponent
    <3>2. PICK q \in Nat : q * w = SignBit * Weight[k - 1]
      BY <3>1, SignMultiple
    <3>3. q * w <= t
      BY <2>2, <3>2 DEF Loses
    <3> HIDE DEF w
    <3>4. q * w <= (t \div w) * w
      BY <1>1, <3>3, DivBound
    <3> QED
      BY <1>2, <3>2, <3>4
  <2>3. k \in 0..(MaxExponent - 3)
    BY DEF Loses
  <2> HIDE DEF r
  <2> QED
    BY <2>1, <2>2, <2>3 DEF Loses
<1>6. Rounded(r, k) = r
  BY <1>2, <1>4 DEF Rounded
<1> QED
  BY <1>4, <1>5, <1>6

(* What rounding leaves alone stays below whatever is rounded above it.    *)
LEMMA RoundedKeeps ==
    ASSUME NEW s \in Nat \ {0}, NEW t \in Nat \ {0}, s <= t,
           NEW j, NEW k, Loses(s, j), Loses(t, k), Rounded(s, j) = s
    PROVE  s <= Rounded(t, k)
<1> DEFINE W == Weight
           S == SignBit
<1>1. /\ j \in Nat /\ j + 3 <= MaxExponent /\ k \in Nat /\ k + 3 <= MaxExponent
      /\ W[j] \in Nat \ {0} /\ W[k] \in Nat \ {0}
  <2>1. j \in Nat /\ j + 3 <= MaxExponent /\ k \in Nat /\ k + 3 <= MaxExponent
    BY DEF Loses, MaxExponent
  <2> QED
    BY <2>1, WeightSteps
<1>2. CASE j = k
  <2>1. s = (s \div W[j]) * W[j] /\ s \div W[j] \in Nat
    BY <1>1, DivFacts DEF Rounded
  <2> DEFINE q == s \div W[j]
  <2>2. q * W[k] <= t /\ q \in Nat
    BY <1>2, <2>1
  <2> HIDE DEF q, W
  <2>3. q * W[k] <= (t \div W[k]) * W[k]
    BY <1>1, <2>2, DivBound
  <2> QED
    BY <1>2, <2>1, <2>3 DEF Rounded, W, q
<1>3. CASE j < k
  <2>1. /\ k - 1 \in Nat /\ (k - 1) + 3 <= MaxExponent /\ (k - 1) + 1 = k /\ k # 0
    BY <1>1, <1>3 DEF MaxExponent
  <2> DEFINE v == W[k - 1]
             w == W[k]
  <2>2. w = CompactBase * v /\ v \in Nat \ {0} /\ S * v \in Nat
    BY <2>1, WeightSteps
  <2>3. PICK half \in Nat \ {0} :
          W[2] = CompactBase * CompactBase /\ S = half * W[2] /\ S \in Nat \ {0}
    BY SignBitFacts
  <2>4. S * v <= t
    BY <2>1 DEF Loses
  <2>5. s < S * v
    <3>1. s < S * W[j] /\ S \in Nat
      BY <2>3 DEF Loses
    <3>2. S * W[j] <= S * v
      BY <1>1, <1>3, <2>1, WeightsGrow
    <3>3. S * W[j] \in Nat
      BY <1>1, <3>1
    <3> DEFINE x == S * W[j]
               y == S * v
    <3>4. s < x /\ x <= y /\ x \in Nat /\ y \in Nat
      BY <2>2, <3>1, <3>2, <3>3
    <3> HIDE DEF x, y
    <3>5. s < y
      BY <3>4
    <3> QED
      BY <3>5 DEF y
  <2>6. PICK q \in Nat : q * w = S * v
    <3>1. k \in 1..(MaxExponent - 3)
      BY <1>1, <2>1 DEF MaxExponent
    <3> QED
      BY <3>1, SignMultiple
  <2>7. q * w <= (t \div w) * w
    <3> HIDE DEF w, v
    <3> QED
      BY <1>1, <2>4, <2>6, DivBound DEF w
  <2>8. (t \div w) * w \in Nat /\ Rounded(t, k) = (t \div w) * w
    <3> HIDE DEF W
    <3> QED
      BY <1>1, DivFacts DEF Rounded, W
  <2> HIDE DEF v, w, S
  <2> QED
    BY <2>2, <2>5, <2>6, <2>7, <2>8
<1>4. j <= k
  BY LosesMore
<1> QED
  BY <1>1, <1>2, <1>3, <1>4

(* The easiest target there is. *)
Floor == CompactToTarget(PowLimitBits)

(* The floor of difficulty does not overflow.                              *)
LEMMA FloorFacts == Floor \in Nat \ {0} /\ Floor < Overflow
<1> DEFINE e == PowLimitBits[1]
           m == PowLimitBits[2]
           W == Weight
           S == SignBit
<1>0. MaxExponent = 34
  BY DEF MaxExponent
<1>1. e \in Nat /\ m \in Nat /\ m < S /\ (m = 0 \/ e <= 34) /\ Floor > 0
  BY <1>0, FloorAssumption DEF WellFormedBits, Floor
<1>2. m # 0 /\ Floor = IF e <= 3 THEN m \div W[3 - e] ELSE m * W[e - 3]
  BY <1>1 DEF Floor, CompactToTarget
<1>3. S \in Nat \ {0} /\ W[0] = 1 /\ W \in [0..34 -> Nat \ {0}]
  BY <1>0, SignBitFacts, WeightFacts
<1>4. Overflow = S * W[31] /\ Overflow \in Nat
  BY <1>0, WeightSteps DEF Overflow
<1>5. \A k \in 0..31 : S * W[k] <= Overflow /\ S * W[k] \in Nat
  <2> TAKE k \in 0..31
  <2>1. S * W[k] <= S * W[31]
    BY <1>0, WeightsGrow
  <2> QED
    BY <1>0, <1>4, <2>1, WeightSteps
<1> HIDE DEF e, m, W, S
<1>6. CASE e <= 3
  <2>1. 3 - e \in 0..34 /\ W[3 - e] \in Nat \ {0}
    BY <1>1, <1>3, <1>6
  <2> DEFINE w == W[3 - e]
  <2>2. w \in Nat \ {0} /\ Floor = m \div w
    BY <1>2, <1>6, <2>1
  <2> HIDE DEF w
  <2>3. m \div w \in Nat /\ (m \div w) * w <= m
    BY <1>1, <2>2, DivFacts
  <2>4. Floor \in Nat /\ Floor <= Floor * w
    BY <2>2, <2>3
  <2>5. S * W[0] = S
    BY <1>3
  <2>6. S <= Overflow
    BY <1>5, <2>5
  <2>7. Floor <= m
    BY <1>1, <2>2, <2>3, <2>4
  <2> QED
    BY <1>1, <1>3, <1>4, <2>4, <2>6, <2>7
<1>7. CASE ~(e <= 3)
  <2> DEFINE w == W[e - 3]
  <2>1. Floor = m * w
    BY <1>2, <1>7
  <2>2. e - 3 \in 0..31 /\ e - 3 \in 0..34
    BY <1>1, <1>2, <1>7
  <2>4. w \in Nat \ {0} /\ S * w <= Overflow /\ S * w \in Nat
    BY <1>3, <1>5, <2>2
  <2> HIDE DEF w
  <2>5. m * w < S * w /\ m * w \in Nat
    BY <1>1, <1>3, <2>4
  <2> QED
    BY <1>1, <1>4, <2>1, <2>4, <2>5
<1> QED
  BY <1>6, <1>7

(* A target that survives the round trip through a header.                 *)
Kept(bits) ==
    /\ WellFormedBits(bits)
    /\ CompactToTarget(bits) \in 0..Floor
    /\ TargetToCompact(CompactToTarget(bits)) = bits

(* What target_to_compact writes survives, and is less than halved.        *)
LEMMA WrittenFacts ==
    ASSUME NEW t \in 0..Floor
    PROVE  LET bits == TargetToCompact(t)
               new == CompactToTarget(bits)
           IN  Kept(bits) /\ new <= t /\ (t # 0 => t < 2 * new)
<1> DEFINE bits == TargetToCompact(t)
           new == CompactToTarget(bits)
<1>0. Floor \in Nat \ {0} /\ Floor < Overflow /\ Overflow \in Nat
  <2>1. 31 \in Nat /\ 31 + 3 <= MaxExponent /\ MaxExponent - 3 = 31
    BY DEF MaxExponent
  <2>2. Overflow \in Nat
    BY <2>1, WeightSteps DEF Overflow
  <2> QED
    BY <2>2, FloorFacts
<1>1. CASE t = 0
  <2>1. bits = <<0, 0>>
    BY <1>1 DEF TargetToCompact
  <2>2. new = 0
    BY <2>1 DEF CompactToTarget
  <2>3. WellFormedBits(<<0, 0>>)
    <3>1. SignBit \in Nat \ {0}
      BY SignBitFacts
    <3> QED
      BY <3>1 DEF WellFormedBits
  <2>4. TargetToCompact(0) = <<0, 0>>
    BY DEF TargetToCompact
  <2> QED
    BY <1>0, <1>1, <2>1, <2>2, <2>3, <2>4 DEF Kept
<1>2. CASE t # 0
  <2>1. t \in Nat \ {0} /\ t < Overflow
    BY <1>0, <1>2
  <2>2. Reads(t, bits)
    BY <2>1, CompactFacts
  <2>3. PICK k : /\ Loses(t, k) /\ new = Rounded(t, k)
                 /\ k # 0 => bits = <<k + 3, t \div Weight[k]>>
    BY <2>2 DEF Reads
  <2>4. new \in Nat \ {0} /\ new <= t /\ t < 2 * new
    BY <2>1, <2>3, RoundedFacts
  <2>5. /\ Loses(new, k) /\ new \div Weight[k] = t \div Weight[k]
    BY <2>1, <2>3, RoundedTwice
  <2>6. new < Overflow
    <3> HIDE DEF new
    <3> QED
      BY <1>0, <2>1, <2>4
  <2>7. TargetToCompact(new) = bits
    <3>1. CASE k = 0
      <4>1. Weight[0] = 1
        BY WeightFacts
      <4>2. Rounded(t, 0) = t
        BY <2>1, <4>1 DEF Rounded
      <4> QED
        BY <2>3, <3>1, <4>2
    <3>2. CASE k # 0
      <4>1. Reads(new, TargetToCompact(new))
        <5> HIDE DEF new
        <5> QED
          BY <2>4, <2>6, CompactFacts
      <4>2. PICK j : Loses(new, j) /\ (j # 0 => TargetToCompact(new) = <<j + 3, new \div Weight[j]>>)
        BY <4>1 DEF Reads
      <4>3. j = k
        <5>1. j \in Nat /\ k \in Nat /\ new \in Nat /\ new <= new
          BY <2>3, <2>4, <4>2 DEF Loses
        <5> HIDE DEF new
        <5>2. j <= k /\ k <= j
          BY <2>5, <4>2, <5>1, LosesMore
        <5> QED
          BY <5>1, <5>2
      <4> QED
        BY <2>3, <2>5, <3>2, <4>2, <4>3
    <3> QED
      BY <3>1, <3>2
  <2>8. new \in 0..Floor
    <3> HIDE DEF new
    <3> QED
      BY <1>0, <2>1, <2>4
  <2> QED
    BY <2>2, <2>4, <2>7, <2>8 DEF Kept, Reads
<1> QED
  BY <1>1, <1>2

(* And writing keeps the order of a target that survives and a larger one. *)
LEMMA WrittenKeeps ==
    ASSUME NEW bits, Kept(bits), NEW t \in 0..Floor, CompactToTarget(bits) <= t
    PROVE  CompactToTarget(bits) <= CompactToTarget(TargetToCompact(t))
<1> DEFINE s == CompactToTarget(bits)
           new == CompactToTarget(TargetToCompact(t))
<1>0. Floor \in Nat \ {0} /\ Floor < Overflow /\ Overflow \in Nat
  <2>1. 31 \in Nat /\ 31 + 3 <= MaxExponent /\ MaxExponent - 3 = 31
    BY DEF MaxExponent
  <2>2. Overflow \in Nat
    BY <2>1, WeightSteps DEF Overflow
  <2> QED
    BY <2>2, FloorFacts
<1>1. s \in 0..Floor /\ TargetToCompact(s) = bits
  BY DEF Kept
<1>2. CompactToTarget(TargetToCompact(s)) = s
  BY <1>1
<1>3. new \in Nat
  BY <1>0, WrittenFacts DEF Kept
<1> HIDE DEF s, new
<1>4. CASE s = 0
  BY <1>3, <1>4 DEF s, new
<1>5. CASE s # 0
  <2>1. s \in Nat \ {0} /\ t \in Nat \ {0} /\ s <= t /\ s < Overflow /\ t < Overflow
    BY <1>0, <1>1, <1>5 DEF s
  <2>2. PICK j : Loses(s, j) /\ CompactToTarget(TargetToCompact(s)) = Rounded(s, j)
    BY <2>1, CompactFacts DEF Reads
  <2>3. PICK k : Loses(t, k) /\ CompactToTarget(TargetToCompact(t)) = Rounded(t, k)
    BY <2>1, CompactFacts DEF Reads
  <2>4. s <= Rounded(t, k)
    BY <1>2, <2>1, <2>2, <2>3, RoundedKeeps
  <2> QED
    BY <2>3, <2>4 DEF s
<1> QED
  BY <1>4, <1>5

(* A product divided by n, against the factor that stays.                  *)
LEMMA Scaled ==
    ASSUME NEW a \in Nat, NEW c \in Nat, NEW n \in Nat \ {0}
    PROVE  /\ (a * c) \div n \in Nat
           /\ c <= n => (a * c) \div n <= a
           /\ c >= n => (a * c) \div n >= a
<1> DEFINE p == a * c
           q == p \div n
<1>1. p \in Nat
  OBVIOUS
<1>2. c <= n => p <= a * n
  OBVIOUS
<1>3. c >= n => a * n <= p
  OBVIOUS
<1>4. a * n \in Nat
  OBVIOUS
<1> HIDE DEF p
<1>5. q \in Nat /\ q * n \in Nat /\ q * n <= p
  BY <1>1, DivFacts
<1>6. c >= n => a <= q
  BY <1>1, <1>3, DivBound
<1> HIDE DEF q
<1>7. ASSUME c <= n PROVE q <= a
  <2> SUFFICES ASSUME a + 1 <= q PROVE FALSE
    BY <1>5
  <2>1. (a + 1) * n <= q * n
    BY <1>5
  <2>2. (a + 1) * n = a * n + n
    OBVIOUS
  <2>3. q * n <= a * n
    <3> DEFINE x == q * n
               y == a * n
    <3>1. x \in Nat /\ y \in Nat /\ x <= p /\ p <= y
      BY <1>2, <1>4, <1>5, <1>7
    <3> HIDE DEF x, y
    <3>2. x <= y
      BY <1>1, <3>1
    <3> QED
      BY <3>2 DEF x, y
  <2> DEFINE x == q * n
             y == a * n
             z == (a + 1) * n
  <2>4. x \in Nat /\ y \in Nat /\ z <= x /\ z = y + n /\ x <= y
    BY <1>4, <1>5, <2>1, <2>2, <2>3
  <2> HIDE DEF x, y, z
  <2> QED
    BY <2>4
<1> QED
  BY <1>5, <1>6, <1>7 DEF p, q

(* The clamp keeps a span on its side of the intended one.                 *)
LEMMA ClampFacts ==
    ASSUME NEW span \in Int
    PROVE  LET intended == RetargetInterval * TargetBlockTime
           IN  /\ intended \in Nat \ {0}
               /\ ClampedSpan(span) \in Nat
               /\ span <= intended => ClampedSpan(span) <= intended
               /\ span >= intended => ClampedSpan(span) >= intended
               /\ ClampedSpan(span) >= intended \div MaxRetargetFactor
<1> DEFINE I == RetargetInterval * TargetBlockTime
           F == MaxRetargetFactor
           lowest == I \div F
           highest == I * F
<1>1. I \in Nat \ {0} /\ F \in Nat \ {0}
  BY DifficultyAssumption
<1>2. ClampedSpan(span) = Greater(lowest, Lesser(highest, span))
  BY DEF ClampedSpan
<1> HIDE DEF I, F
<1>3. highest \in Nat /\ I <= highest
  BY <1>1
<1>4. lowest \in Nat /\ lowest <= I
  <2>1. lowest \in Nat /\ lowest * F <= I
    BY <1>1, DivFacts
  <2> HIDE DEF lowest
  <2>2. lowest <= lowest * F /\ lowest * F \in Nat
    BY <1>1, <2>1
  <2> QED
    BY <1>1, <2>1, <2>2
<1> HIDE DEF lowest, highest
<1>5. /\ Greater(lowest, Lesser(highest, span)) \in Nat
      /\ span <= I => Greater(lowest, Lesser(highest, span)) <= I
      /\ span >= I => Greater(lowest, Lesser(highest, span)) >= I
      /\ Greater(lowest, Lesser(highest, span)) >= lowest
  BY <1>1, <1>3, <1>4 DEF Greater, Lesser
<1> QED
  BY <1>1, <1>2, <1>5 DEF I, F, lowest

(* The target before it is written, at the end of a period.                *)
Adjusted(old, span) ==
    Lesser(Floor, (old * ClampedSpan(span)) \div (RetargetInterval * TargetBlockTime))

(* It stays under the floor, and on the right side of the old one.  Where  *)
(* the factor divides the length of a period, it does not fall further     *)
(* than by the factor.                                                     *)
LEMMA AdjustedFacts ==
    ASSUME NEW old \in 0..Floor, NEW span \in Int
    PROVE  LET intended == RetargetInterval * TargetBlockTime
               new == Adjusted(old, span)
           IN  /\ new \in 0..Floor
               /\ span <= intended => new <= old
               /\ span >= intended => new >= old
               /\ intended % MaxRetargetFactor = 0 => new >= old \div MaxRetargetFactor
<1> DEFINE I == RetargetInterval * TargetBlockTime
           F == MaxRetargetFactor
           c == ClampedSpan(span)
           x == (old * c) \div I
           new == Adjusted(old, span)
<1>0. Floor \in Nat \ {0} /\ F \in Nat \ {0}
  BY FloorFacts, DifficultyAssumption
<1>1. /\ I \in Nat \ {0} /\ c \in Nat
      /\ span <= I => c <= I
      /\ span >= I => c >= I
      /\ c >= I \div F
  BY ClampFacts
<1>2. new = Lesser(Floor, x)
  BY DEF Adjusted
<1> HIDE DEF I, c
<1>3. /\ x \in Nat
      /\ c <= I => x <= old
      /\ c >= I => x >= old
  BY <1>0, <1>1, Scaled
<1>4. ASSUME I % F = 0 PROVE x >= old \div F
  <2> DEFINE u == I \div F
             d == old \div F
  <2>1. u \in Nat /\ I = F * u
    <3> HIDE DEF F
    <3> QED
      BY <1>0, <1>1, <1>4
  <2>2. d \in Nat /\ d * F \in Nat /\ d * F <= old
    <3> HIDE DEF F
    <3> QED
      BY <1>0, DivFacts
  <2> HIDE DEF u, d, F
  <2>3. d * I = (d * F) * u
    BY <1>0, <2>1, <2>2
  <2>4. (d * F) * u <= old * u
    BY <2>1, <2>2
  <2>5. u <= c
    BY <1>1 DEF u
  <2>6. old * u <= old * c
    BY <1>1, <2>1, <2>5
  <2>7. d * I <= old * c /\ old * c \in Nat
    <3> DEFINE p == (d * F) * u
               q == old * u
               r == old * c
    <3>1. p \in Nat /\ q \in Nat /\ r \in Nat /\ p <= q /\ q <= r /\ d * I = p
      BY <1>1, <2>1, <2>2, <2>3, <2>4, <2>6
    <3> HIDE DEF p, q, r
    <3>2. p <= r
      BY <3>1
    <3> QED
      BY <3>1, <3>2 DEF r
  <2> DEFINE r == old * c
  <2>8. d * I <= r /\ r \in Nat
    BY <2>7
  <2> HIDE DEF r
  <2>9. d <= r \div I
    BY <1>1, <2>2, <2>8, DivBound
  <2> QED
    BY <1>1, <2>2, <2>9 DEF d, r
<1>5. old \div F \in Nat /\ old \div F <= old
  <2> DEFINE d == old \div F
  <2>1. d \in Nat /\ d * F \in Nat /\ d * F <= old
    BY <1>0, DivFacts
  <2> HIDE DEF d
  <2>2. d <= d * F
    BY <1>0, <2>1
  <2> QED
    BY <2>1, <2>2 DEF d
<1> DEFINE d == old \div F
<1>6. d \in Nat /\ d <= old /\ (I % F = 0 => x >= d)
  BY <1>4, <1>5
<1> HIDE DEF x, d, new
<1>7. new \in 0..Floor
  BY <1>0, <1>2, <1>3 DEF Lesser
<1>8. /\ span <= I => new <= old
      /\ span >= I => new >= old
  BY <1>0, <1>1, <1>2, <1>3 DEF Lesser
<1>9. I % F = 0 => new >= d
  <2> DEFINE P == I % F = 0
  <2>1. P => x >= d
    BY <1>6
  <2> HIDE DEF P
  <2>2. P => new >= d
    BY <1>0, <1>2, <1>3, <1>6, <2>1 DEF Lesser
  <2> QED
    BY <2>2 DEF P
<1> QED
  BY <1>7, <1>8, <1>9 DEF new, I, d

(* The bits of the block at the tip survive.                               *)
TipOK == Kept(Tip.bits)

(* Genesis has the bits of the floor. *)
LEMMA TipStart == ASSUME Init PROVE TipOK
<1> DEFINE b == [time |-> 0, bits |-> PowLimitBits]
<1>1. Tip = b
  BY DEF Init, Tip
<1>2. Tip.bits = PowLimitBits
  BY <1>1
<1>3. Floor \in 0..Floor
  BY FloorFacts
<1> QED
  BY <1>2, <1>3, FloorAssumption DEF TipOK, Kept, Floor

(* What a new block does to the bits at the tip: at the end of a period    *)
(* they are the written form of the adjusted target, else nothing.         *)
LEMMA TipStep ==
    ASSUME ChainOK, Next
    PROVE  LET span == Tip.time - PeriodStart.time
           IN  /\ span \in Int /\ Len(chain) \in Nat \ {0} /\ Len(chain) <= LastHeight
               /\ Len(chain') = Len(chain) + 1
               /\ Len(chain) % RetargetInterval # 0 => Tip'.bits = Tip.bits
               /\ Len(chain) % RetargetInterval = 0 =>
                     Tip'.bits = TargetToCompact(Adjusted(CompactToTarget(Tip.bits), span))
<1>1. PICK time \in 0..(Clock + MaxFutureBlockTime) : Extend(time)
  BY DEF Next
<1> DEFINE new == [time |-> time, bits |-> NextBits]
           n == Len(chain)
           start == RetargetPeriodStartHeight(n)
<1>2. chain' = Append(chain, new) /\ n <= LastHeight
  BY <1>1 DEF Extend
<1>3. PICK S : chain \in Seq(S)
  BY DEF ChainOK
<1>4. n \in Nat \ {0} /\ DOMAIN chain = 1..n
  BY <1>3 DEF ChainOK
<1>5. Len(chain') = n + 1 /\ chain'[n + 1] = new
  <2> DEFINE R == S \cup {new}
  <2>1. chain \in Seq(R) /\ new \in R
    BY <1>3, SeqMonotonic
  <2> HIDE DEF R, new
  <2> QED
    BY <1>2, <2>1
<1>6. Tip' = new
  BY <1>5 DEF Tip
<1>7. Tip'.bits = NextBits
  <2> DEFINE b == NextBits
  <2>1. Tip' = [time |-> time, bits |-> b]
    BY <1>6
  <2> HIDE DEF b
  <2>2. Tip'.bits = b
    BY <2>1
  <2> QED
    BY <2>2 DEF b
<1>8. start \in 0..(n - 1)
  BY <1>4, DifficultyAssumption DEF RetargetPeriodStartHeight
<1>9. Tip.time \in Nat /\ PeriodStart.time \in Nat
  <2>1. start + 1 \in 1..n /\ n \in 1..n
    BY <1>4, <1>8
  <2>2. Tip = chain[n] /\ PeriodStart = chain[start + 1]
    BY DEF Tip, PeriodStart
  <2> HIDE DEF n, start
  <2> QED
    BY <1>4, <2>1, <2>2 DEF ChainOK
<1>10. /\ n % RetargetInterval # 0 => NextBits = Tip.bits
       /\ n % RetargetInterval = 0 =>
             NextBits = TargetToCompact(
                            Adjusted(CompactToTarget(Tip.bits), Tip.time - PeriodStart.time))
  <2>1. n # 0
    BY <1>4
  <2> QED
    BY <2>1 DEF NextBits, ExpectedBits, Adjusted, Floor
<1>11. Tip.time - PeriodStart.time \in Int
  BY <1>9
<1> QED
  BY <1>2, <1>4, <1>5, <1>7, <1>10, <1>11

(* The adjusted target is written; that is the whole step.                 *)
LEMMA TipKept ==
    ASSUME ChainOK, TipOK, Next
    PROVE  LET span == Tip.time - PeriodStart.time
               intended == RetargetInterval * TargetBlockTime
               old == CompactToTarget(Tip.bits)
               new == CompactToTarget(Tip'.bits)
           IN  /\ TipOK'
               /\ span <= intended => new <= old
               /\ span >= intended => new >= old
               /\ Len(chain) % RetargetInterval # 0 => new = old
               /\ Len(chain) % RetargetInterval = 0 /\ intended % MaxRetargetFactor = 0 =>
                     \/ old \div MaxRetargetFactor = 0
                     \/ old \div MaxRetargetFactor < 2 * new
<1> DEFINE span == Tip.time - PeriodStart.time
           I == RetargetInterval * TargetBlockTime
           F == MaxRetargetFactor
           old == CompactToTarget(Tip.bits)
           new == CompactToTarget(Tip'.bits)
           x == Adjusted(old, span)
           Ends == Len(chain) % RetargetInterval = 0
           Divides == I % F = 0
           d == old \div F
<1>0. Floor \in Nat \ {0}
  BY FloorFacts
<1>1. /\ span \in Int
      /\ ~Ends => Tip'.bits = Tip.bits
      /\ Ends => Tip'.bits = TargetToCompact(x)
  BY TipStep
<1>2. old \in 0..Floor /\ Kept(Tip.bits)
  BY DEF TipOK, Kept
<1>3. /\ x \in 0..Floor
      /\ span <= I => x <= old
      /\ span >= I => x >= old
      /\ Divides => x >= d
  BY <1>1, <1>2, AdjustedFacts
<1>4. I \in Nat /\ d \in Nat
  <2>1. F \in Nat \ {0} /\ old \in Nat
    BY <1>0, <1>2, DifficultyAssumption
  <2>2. d \in Nat
    <3> HIDE DEF F, old
    <3> QED
      BY <2>1, DivFacts
  <2> QED
    BY <2>2, DifficultyAssumption
<1>5. CASE ~Ends
  <2>1. Tip'.bits = Tip.bits
    BY <1>1, <1>5
  <2>2. new = old /\ TipOK'
    BY <2>1 DEF TipOK
  <2> HIDE DEF span, I, F, old, new, x, Ends, Divides, d
  <2>3. old <= old
    BY <1>0, <1>2
  <2>4. /\ TipOK'
        /\ span <= I => new <= old
        /\ span >= I => new >= old
        /\ ~Ends => new = old
        /\ Ends /\ Divides => d = 0 \/ d < 2 * new
    BY <1>5, <2>2, <2>3
  <2> QED
    BY <2>4 DEF span, I, F, old, new, Ends, Divides, d
<1>6. CASE Ends
  <2>1. Tip'.bits = TargetToCompact(x)
    BY <1>1, <1>6
  <2>2. Kept(TargetToCompact(x)) /\ new <= x /\ (x # 0 => x < 2 * new)
    <3> HIDE DEF x
    <3> QED
      BY <1>3, <2>1, WrittenFacts
  <2>3. TipOK'
    BY <2>1, <2>2 DEF TipOK
  <2>4. x >= old => new >= old
    <3> HIDE DEF x
    <3>1. ASSUME old <= x PROVE old <= new
      BY <1>2, <1>3, <2>1, <3>1, WrittenKeeps
    <3> HIDE DEF old, new
    <3> QED
      BY <1>0, <1>2, <1>3, <3>1
  <2>5. new \in Nat
    BY <1>0, <2>3 DEF TipOK, Kept
  <2> HIDE DEF span, I, F, old, new, x, Ends, Divides, d
  <2>6. span <= I => new <= old
    BY <1>0, <1>1, <1>2, <1>3, <1>4, <2>2, <2>5
  <2>7. Divides => d = 0 \/ d < 2 * new
    BY <1>0, <1>3, <1>4, <2>2, <2>5
  <2>8. span >= I => new >= old
    BY <1>3, <2>4
  <2>9. ~Ends => new = old
    BY <1>6
  <2> QED
    BY <2>3, <2>6, <2>7, <2>8, <2>9 DEF span, I, F, old, new, Ends, Divides, d
<1> QED
  BY <1>5, <1>6

(* So the bits always survive. *)
LEMMA TipAlways == Spec => []TipOK
<1>1. Init => TipOK
  BY TipStart
<1>2. ChainOK /\ TipOK /\ [Next]_vars => TipOK'
  <2> SUFFICES ASSUME ChainOK, TipOK, [Next]_vars PROVE TipOK'
    OBVIOUS
  <2>1. CASE Next
    BY <2>1, TipKept
  <2>2. CASE UNCHANGED vars
    BY <2>2 DEF TipOK, Tip, vars
  <2> QED
    BY <2>1, <2>2
<1> QED
  BY <1>1, <1>2, ChainAlways, PTL DEF Spec

(* A span no shorter than that of a period on time stays so when clamped.  *)
LEMMA OnTimeClamped ==
    ASSUME NEW span \in Int, span >= OnTime
    PROVE  /\ OnTime \in Nat /\ OnTime <= RetargetInterval * TargetBlockTime
           /\ ClampedSpan(span) \in Nat /\ OnTime <= ClampedSpan(span)
<1> DEFINE I == RetargetInterval * TargetBlockTime
           F == MaxRetargetFactor
           lowest == I \div F
           highest == I * F
<1>1. I \in Nat \ {0} /\ F \in Nat \ {0}
  BY DifficultyAssumption
<1>2. ClampedSpan(span) = Greater(lowest, Lesser(highest, span))
  BY DEF ClampedSpan
<1>3. OnTime \in Nat /\ OnTime <= I
  <2>1. /\ RetargetInterval \in Nat \ {0} /\ TargetBlockTime \in Nat \ {0}
    BY DifficultyAssumption
  <2>2. OnTime = I - TargetBlockTime /\ TargetBlockTime <= I
    BY <2>1 DEF OnTime
  <2> HIDE DEF I
  <2> QED
    BY <1>1, <2>1, <2>2
<1>4. ClampedSpan(span) \in Nat
  BY ClampFacts
<1> HIDE DEF I, F
<1>5. highest \in Nat /\ I <= highest
  BY <1>1
<1>6. lowest \in Nat
  BY <1>1, DivFacts
<1> HIDE DEF lowest, highest
<1>7. OnTime <= Greater(lowest, Lesser(highest, span))
  BY <1>1, <1>3, <1>5, <1>6 DEF Greater, Lesser
<1> QED
  BY <1>2, <1>3, <1>4, <1>7 DEF I

(* A larger factor, divided by the same number, gives no less.             *)
LEMMA ScaledMore ==
    ASSUME NEW a \in Nat, NEW b \in Nat, NEW c \in Nat, NEW n \in Nat \ {0}, b <= c
    PROVE  (a * b) \div n <= (a * c) \div n
<1> DEFINE p == a * b
           r == a * c
           q == p \div n
<1>1. p \in Nat /\ r \in Nat /\ p <= r
  OBVIOUS
<1> HIDE DEF p, r
<1>2. q \in Nat /\ q * n \in Nat /\ q * n <= p
  BY <1>1, DivFacts
<1> HIDE DEF q
<1>3. q * n <= r
  <2> DEFINE x == q * n
  <2>1. x \in Nat /\ x <= p
    BY <1>2
  <2> HIDE DEF x
  <2>2. x <= r
    BY <1>1, <2>1
  <2> QED
    BY <2>2 DEF x
<1>4. q <= r \div n
  BY <1>1, <1>2, <1>3, DivBound
<1> QED
  BY <1>4 DEF p, q, r

(* So the target loses one part in RetargetInterval at most, and then what *)
(* a header cannot carry.                                                  *)
LEMMA OnTimeLoses ==
    ASSUME ChainOK, TipOK, Next
    PROVE  LET span == Tip.time - PeriodStart.time
               intended == RetargetInterval * TargetBlockTime
               old == CompactToTarget(Tip.bits)
               new == CompactToTarget(Tip'.bits)
           IN  span >= OnTime => new >= Written((old * OnTime) \div intended)
<1> DEFINE span == Tip.time - PeriodStart.time
           I == RetargetInterval * TargetBlockTime
           old == CompactToTarget(Tip.bits)
           new == CompactToTarget(Tip'.bits)
           x == Adjusted(old, span)
           y == (old * OnTime) \div I
           Ends == Len(chain) % RetargetInterval = 0
<1> SUFFICES ASSUME span >= OnTime PROVE new >= Written(y)
  OBVIOUS
<1>0. Floor \in Nat \ {0}
  BY FloorFacts
<1>1. /\ span \in Int
      /\ ~Ends => Tip'.bits = Tip.bits
      /\ Ends => Tip'.bits = TargetToCompact(x)
  BY TipStep
<1>2. old \in 0..Floor
  BY DEF TipOK, Kept
<1>3. /\ I \in Nat \ {0} /\ OnTime \in Nat /\ OnTime <= I
      /\ ClampedSpan(span) \in Nat /\ OnTime <= ClampedSpan(span)
  BY <1>1, OnTimeClamped, DifficultyAssumption
<1>4. x \in 0..Floor
  BY <1>1, <1>2, AdjustedFacts
<1>5. x = Lesser(Floor, (old * ClampedSpan(span)) \div I)
  BY DEF Adjusted
<1> DEFINE c == ClampedSpan(span)
<1> HIDE DEF span, I, old, c
<1>6. y \in Nat /\ y <= old
  BY <1>0, <1>2, <1>3, Scaled
<1>7. y <= (old * c) \div I /\ (old * c) \div I \in Nat
  <2>1. /\ old \in Nat /\ c \in Nat /\ I \in Nat \ {0}
        /\ OnTime \in Nat /\ OnTime <= c
    BY <1>0, <1>2, <1>3 DEF c
  <2>2. (old * OnTime) \div I <= (old * c) \div I
    BY <2>1, ScaledMore
  <2>3. (old * c) \div I \in Nat
    BY <2>1, Scaled
  <2> QED
    BY <2>2, <2>3
<1>8. y \in 0..Floor /\ y <= x
  <2> DEFINE z == (old * c) \div I
  <2>1. x = Lesser(Floor, z) /\ z \in Nat /\ y <= z
    BY <1>5, <1>7 DEF c
  <2> HIDE DEF x, y, z
  <2> QED
    BY <1>0, <1>2, <1>6, <2>1 DEF Lesser
<1> HIDE DEF x, y
<1> DEFINE w == TargetToCompact(y)
<1>9. Kept(w) /\ CompactToTarget(w) <= y /\ CompactToTarget(w) \in 0..Floor
  BY <1>8, WrittenFacts DEF Kept
<1> HIDE DEF w
<1>10. CASE Ends
  <2>1. CompactToTarget(w) <= x
    BY <1>0, <1>4, <1>8, <1>9
  <2>2. CompactToTarget(w) <= CompactToTarget(TargetToCompact(x))
    BY <1>4, <1>9, <2>1, WrittenKeeps
  <2>3. new = CompactToTarget(TargetToCompact(x))
    BY <1>1, <1>10
  <2> HIDE DEF new
  <2>4. new \in Nat
    BY <1>0, <1>4, <2>3, WrittenFacts DEF Kept
  <2> QED
    BY <1>0, <1>9, <2>2, <2>3, <2>4 DEF Written, w
<1>11. CASE ~Ends
  <2>1. new = old
    BY <1>1, <1>11 DEF old
  <2> HIDE DEF new
  <2>2. CompactToTarget(w) <= new
    BY <1>0, <1>2, <1>6, <1>8, <1>9, <2>1
  <2> QED
    BY <1>0, <1>2, <1>9, <2>1, <2>2 DEF Written, w
<1> QED
  BY <1>10, <1>11

(* AdjustmentFollowsSpan, for any base of the encoding, any interval, time *)
(* and clamp, and any timestamps miners choose, although the target is     *)
(* rounded to three bytes each time (consensus.py:138-151, block.py:64-85).*)
THEOREM AdjustmentAlwaysFollows == Spec => AdjustmentFollowsSpan
<1>1. ASSUME ChainOK, TipOK, Next
      PROVE  LET span == Tip.time - PeriodStart.time
                 intended == RetargetInterval * TargetBlockTime
                 old == CompactToTarget(Tip.bits)
                 new == CompactToTarget(Tip'.bits)
             IN  /\ span <= intended => new <= old
                 /\ span >= intended => new >= old
                 /\ span >= OnTime => new >= Written((old * OnTime) \div intended)
                 /\ Len(chain) % RetargetInterval # 0 => new = old
  BY <1>1, TipKept, OnTimeLoses
<1>2. ChainOK /\ TipOK /\ [Next]_vars =>
         [LET span == Tip.time - PeriodStart.time
              intended == RetargetInterval * TargetBlockTime
              old == CompactToTarget(Tip.bits)
              new == CompactToTarget(Tip'.bits)
          IN  /\ span <= intended => new <= old
              /\ span >= intended => new >= old
              /\ span >= OnTime => new >= Written((old * OnTime) \div intended)
              /\ Len(chain) % RetargetInterval # 0 => new = old]_vars
  BY <1>1
<1> QED
  BY <1>2, ChainAlways, TipAlways, PTL DEF Spec, AdjustmentFollowsSpan

(* TargetWritable, on a branch of any height, for as long as the target    *)
(* has not been adjusted down to nothing.                                  *)
THEOREM TargetStaysWritable == Spec => [](CompactToTarget(Tip.bits) > 0 => TargetWritable)
<1>1. TipOK => (CompactToTarget(Tip.bits) > 0 => TargetWritable)
  <2> SUFFICES ASSUME TipOK, CompactToTarget(Tip.bits) > 0 PROVE TargetWritable
    OBVIOUS
  <2> DEFINE t == CompactToTarget(Tip.bits)
  <2>1. /\ WellFormedBits(Tip.bits) /\ t \in 0..Floor /\ t > 0
        /\ TargetToCompact(t) = Tip.bits
    BY DEF TipOK, Kept
  <2>2. Floor \in Nat
    BY FloorFacts
  <2> HIDE DEF t
  <2>3. t \in 1..Floor
    BY <2>1, <2>2
  <2> QED
    BY <2>1, <2>3 DEF TargetWritable, Floor, t
<1> QED
  BY <1>1, TipAlways, PTL

(* The floor leaves room for every retarget up to LastHeight to be as hard *)
(* as the clamp allows, and for what the encoding loses each time: half at *)
(* most.                                                                   *)
RoomLeft(room) ==
    /\ room \in [0..LastHeight -> Nat \ {0}]
    /\ room[0] <= CompactToTarget(PowLimitBits)
    /\ \A h \in 1..LastHeight :
          room[h] <= IF h % RetargetInterval = 0
                     THEN room[h - 1] \div (2 * MaxRetargetFactor)
                     ELSE room[h - 1]

(* And the clamp divides the length of a period.                           *)
ClampDivides == (RetargetInterval * TargetBlockTime) % MaxRetargetFactor = 0

(* There is room left at the tip.                                          *)
TipAbove(room) ==
    /\ TipHeight \in 0..LastHeight
    /\ room[TipHeight] <= CompactToTarget(Tip.bits)

(* A block leaves the room that is meant for the ones after it. *)
LEMMA RoomStep ==
    ASSUME NEW room, RoomLeft(room), ClampDivides, ChainOK, TipOK, TipAbove(room), Next
    PROVE  TipAbove(room)'
<1> DEFINE F == MaxRetargetFactor
           n == Len(chain)
           old == CompactToTarget(Tip.bits)
           new == CompactToTarget(Tip'.bits)
           d == old \div F
           Ends == n % RetargetInterval = 0
<1>0. /\ n \in Nat \ {0} /\ n <= LastHeight /\ Len(chain') = n + 1 /\ LastHeight \in Nat
      /\ F \in Nat \ {0} /\ Floor \in Nat
  BY TipStep, BranchAssumption, DifficultyAssumption, FloorFacts
<1>1. TipHeight = n - 1 /\ TipHeight' = n
  BY <1>0 DEF TipHeight
<1>2. old \in Nat /\ new \in Nat
  BY <1>0, TipKept DEF TipOK, Kept
<1>3. /\ ~Ends => new = old
      /\ Ends => d = 0 \/ d < 2 * new
  BY TipKept DEF ClampDivides
<1> DEFINE p == room[n - 1]
           q == room[n]
<1>4. p \in Nat \ {0} /\ q \in Nat \ {0} /\ p <= old
  <2>1. n - 1 \in 0..LastHeight /\ n \in 0..LastHeight
    BY <1>0
  <2>2. p <= old
    BY <1>1 DEF TipAbove
  <2> HIDE DEF n
  <2> QED
    BY <2>1, <2>2 DEF RoomLeft
<1>5. /\ ~Ends => q <= p
      /\ Ends => q <= p \div (2 * F)
  <2>1. n \in 1..LastHeight
    BY <1>0
  <2> QED
    BY <2>1 DEF RoomLeft
<1> HIDE DEF p, q, old, new, d, F, Ends, n
<1>6. CASE ~Ends
  <2>1. q <= new
    BY <1>2, <1>3, <1>4, <1>5, <1>6
  <2> QED
    BY <1>0, <1>1, <2>1 DEF TipAbove, q, new
<1>7. CASE Ends
  <2> DEFINE g == 2 * F
             u == p \div g
  <2>1. g \in Nat \ {0}
    BY <1>0
  <2> HIDE DEF g
  <2>2. u \in Nat /\ u * g \in Nat /\ u * g <= p
    BY <1>4, <2>1, DivFacts
  <2> HIDE DEF u
  <2>3. q <= u
    BY <1>5, <1>7 DEF u, g
  <2>4. q * g <= u * g /\ q * g \in Nat
    BY <1>4, <2>1, <2>2, <2>3
  <2>5. q * g = (2 * q) * F
    BY <1>0, <1>4 DEF g
  <2>6. (2 * q) * F <= old
    <3> DEFINE a == q * g
               b == u * g
    <3>1. a \in Nat /\ b \in Nat /\ a <= b /\ b <= p
      BY <2>2, <2>4
    <3> HIDE DEF a, b
    <3>2. a <= old
      BY <1>2, <1>4, <3>1
    <3> QED
      BY <2>5, <3>2 DEF a
  <2>7. 2 * q <= d
    <3> DEFINE r == 2 * q
    <3>1. r \in Nat /\ r * F <= old
      BY <1>4, <2>6
    <3> HIDE DEF r
    <3>2. r <= old \div F
      BY <1>0, <1>2, <3>1, DivBound
    <3> QED
      BY <3>2 DEF r, d
  <2>8. d \in Nat
    BY <1>0, <1>2, DivFacts DEF d
  <2>9. q <= new
    BY <1>2, <1>3, <1>4, <1>7, <2>7, <2>8
  <2> QED
    BY <1>0, <1>1, <2>9 DEF TipAbove, q, new
<1> QED
  BY <1>6, <1>7

(* TargetWritable, wherever the floor leaves that room: the bits that a    *)
(* header must carry can be written, and say what the rules computed.      *)
THEOREM TargetAlwaysWritable ==
    ASSUME ClampDivides, \E room : RoomLeft(room)
    PROVE  Spec => []TargetWritable
<1>0. PICK room : RoomLeft(room)
  OBVIOUS
<1>1. Init => TipAbove(room)
  <2> SUFFICES ASSUME Init PROVE TipAbove(room)
    OBVIOUS
  <2>1. TipHeight = 0 /\ 0 \in 0..LastHeight
    BY ChainStart, BranchAssumption DEF TipHeight
  <2> DEFINE b == [time |-> 0, bits |-> PowLimitBits]
  <2>2. Tip = b
    BY DEF Init, Tip
  <2>3. Tip.bits = PowLimitBits
    BY <2>2
  <2> QED
    BY <1>0, <2>1, <2>3 DEF TipAbove, RoomLeft
<1>2. ChainOK /\ TipOK /\ TipAbove(room) /\ [Next]_vars => TipAbove(room)'
  <2> SUFFICES ASSUME ChainOK, TipOK, TipAbove(room), [Next]_vars PROVE TipAbove(room)'
    OBVIOUS
  <2>1. CASE Next
    BY <1>0, <2>1, RoomStep
  <2>2. CASE UNCHANGED vars
    BY <2>2 DEF TipAbove, TipHeight, Tip, vars
  <2> QED
    BY <2>1, <2>2
<1>3. TipAbove(room) /\ TipOK => CompactToTarget(Tip.bits) > 0
  <2> SUFFICES ASSUME TipAbove(room), TipOK PROVE CompactToTarget(Tip.bits) > 0
    OBVIOUS
  <2> DEFINE t == CompactToTarget(Tip.bits)
             h == TipHeight
             q == room[h]
  <2>1. h \in 0..LastHeight /\ q <= t
    BY DEF TipAbove
  <2>2. q \in Nat \ {0}
    <3> HIDE DEF h
    <3> QED
      BY <1>0, <2>1 DEF RoomLeft
  <2>3. t \in Nat
    BY FloorFacts DEF TipOK, Kept
  <2> HIDE DEF t, q
  <2>4. t > 0
    BY <2>1, <2>2, <2>3
  <2> QED
    BY <2>4 DEF t
<1> QED
  BY <1>1, <1>2, <1>3, ChainAlways, TipAlways, TargetStaysWritable, PTL DEF Spec

(***************************************************************************)
(* The merkle tree.  A list without repeats makes rows without repeats, so *)
(* that the hash which doubling adds to an odd row is never taken for two; *)
(* so two such lists with the same root have the same rows from the root   *)
(* down.  Leaves are not pairs, so both reach their leaves at once.        *)
(***************************************************************************)

(* A row is a sequence of something.                                       *)
IsRow(row) == row # <<>> /\ \E S : row \in Seq(S)

(* The row that is made from a row, up to one of a single hash. *)
NextRow(row) == Paired(Evened(row))

(* How a row is filled up to an even length.                               *)
LEMMA EvenedFacts ==
    ASSUME NEW row, IsRow(row)
    PROVE  /\ Len(row) \in Nat \ {0} /\ DOMAIN row = 1..Len(row)
           /\ Len(Evened(row)) = 2 * ((Len(row) + 1) \div 2)
           /\ \A i \in 1..Len(row) : Evened(row)[i] = row[i]
           /\ Odd(row) => Evened(row)[Len(row) + 1] = row[Len(row)]
<1>1. PICK S : row \in Seq(S) /\ row # <<>>
  BY DEF IsRow
<1>2. Len(row) \in Nat \ {0} /\ DOMAIN row = 1..Len(row)
  BY <1>1
<1>3. CASE Odd(row)
  <2>1. Last(row) = row[Len(row)] /\ row[Len(row)] \in S
    BY <1>1, <1>2 DEF Last
  <2>2. Evened(row) = Append(row, row[Len(row)])
    BY <1>3, <2>1 DEF Evened
  <2>3. /\ Len(Append(row, row[Len(row)])) = Len(row) + 1
        /\ \A i \in 1..Len(row) : Append(row, row[Len(row)])[i] = row[i]
        /\ Append(row, row[Len(row)])[Len(row) + 1] = row[Len(row)]
    BY <1>1, <1>2, <2>1
  <2>4. Len(row) + 1 = 2 * ((Len(row) + 1) \div 2)
    BY <1>2, <1>3 DEF Odd
  <2> QED
    BY <1>2, <2>2, <2>3, <2>4
<1>4. CASE ~Odd(row)
  <2>1. Evened(row) = row
    BY <1>4 DEF Evened
  <2>2. Len(row) % 2 = 0
    BY <1>2, <1>4 DEF Odd
  <2>3. Len(row) = 2 * ((Len(row) + 1) \div 2)
    <3> DEFINE n == Len(row)
               q == n \div 2
    <3>1. n \in Nat /\ n % 2 = 0
      BY <1>2, <2>2
    <3> HIDE DEF n
    <3>2. q \in Nat /\ n = 2 * q
      BY <3>1
    <3> HIDE DEF q
    <3>3. (2 * q + 1) \div 2 = q
      BY <3>2
    <3> QED
      BY <3>2, <3>3 DEF n
  <2> QED
    BY <1>2, <1>4, <2>1, <2>3
<1> QED
  BY <1>3, <1>4

(* The row above has a pair for every two hashes.                          *)
LEMMA NextRowFacts ==
    ASSUME NEW row, IsRow(row)
    PROVE  /\ IsRow(NextRow(row))
           /\ Len(NextRow(row)) = (Len(row) + 1) \div 2
           /\ DOMAIN NextRow(row) = 1..((Len(row) + 1) \div 2)
           /\ \A i \in 1..((Len(row) + 1) \div 2) :
                 NextRow(row)[i] = <<Evened(row)[2 * i - 1], Evened(row)[2 * i]>>
<1> DEFINE h == (Len(row) + 1) \div 2
           e == Evened(row)
           S == {<<e[2 * i - 1], e[2 * i]>> : i \in 1..h}
<1>1. Len(row) \in Nat \ {0} /\ Len(e) = 2 * h
  BY EvenedFacts
<1>2. h \in Nat \ {0}
  BY <1>1
<1>3. Len(e) \div 2 = h
  <2> HIDE DEF h, e
  <2> QED
    BY <1>1, <1>2
<1>4. NextRow(row) = [i \in 1..h |-> <<e[2 * i - 1], e[2 * i]>>]
  BY <1>3 DEF NextRow, Paired, PairHash
<1> HIDE DEF h, e
<1>5. NextRow(row) \in [1..h -> S]
  BY <1>4
<1>6. NextRow(row) \in Seq(S) /\ Len(NextRow(row)) = h
  <2> HIDE DEF S
  <2> QED
    BY <1>2, <1>5
<1>7. NextRow(row) # <<>>
  BY <1>2, <1>6
<1>8. IsRow(NextRow(row))
  BY <1>6, <1>7 DEF IsRow
<1> QED
  BY <1>4, <1>6, <1>8 DEF h, e

(* The recursive definition inside Rows: a row of one hash repeats, and    *)
(* such a tree up to row N.                                                *)
Above(row) == IF Len(row) = 1 THEN row ELSE NextRow(row)

IsTree(g, list, N) == g = [k \in 0..N |-> IF k = 0 THEN list ELSE Above(g[k - 1])]

(* There is such a tree.                                                   *)
LEMMA TreeExists ==
    ASSUME NEW list, NEW N \in Nat
    PROVE  \E g : IsTree(g, list, N)
<1> DEFINE P == {n \in Nat :
                   \E f : f = [e \in 0..n |-> IF e = 0 THEN list ELSE Above(f[e - 1])]}
<1>1. 0 \in P
  <2> DEFINE f == [e \in 0..0 |-> list]
  <2>1. f = [e \in 0..0 |-> IF e = 0 THEN list ELSE Above(f[e - 1])]
    OBVIOUS
  <2> QED
    BY <2>1
<1>2. ASSUME NEW n \in Nat, n \in P PROVE n + 1 \in P
  <2>1. PICK f : f = [e \in 0..n |-> IF e = 0 THEN list ELSE Above(f[e - 1])]
    BY <1>2
  <2> DEFINE g == [e \in 0..(n + 1) |-> IF e = n + 1 THEN Above(f[n]) ELSE f[e]]
             h == [e \in 0..(n + 1) |-> IF e = 0 THEN list ELSE Above(g[e - 1])]
  <2>2. ASSUME NEW e \in 0..(n + 1) PROVE g[e] = h[e]
    <3>1. CASE e = n + 1
      <4>1. e # 0 /\ e - 1 = n /\ n \in 0..(n + 1) /\ n # n + 1
        BY <3>1
      <4>2. g[e - 1] = f[n]
        BY <4>1
      <4> QED
        BY <3>1, <4>1, <4>2
    <3>2. CASE e = 0
      <4>1. e # n + 1 /\ e \in 0..n
        BY <3>2
      <4>2. f[e] = list
        BY <2>1, <3>2, <4>1
      <4> QED
        BY <3>2, <4>1, <4>2
    <3>3. CASE e # n + 1 /\ e # 0
      <4>1. e \in 0..n /\ e - 1 \in 0..(n + 1) /\ e - 1 # n + 1 /\ e - 1 \in 0..n
        BY <3>3
      <4>2. f[e] = Above(f[e - 1])
        BY <2>1, <3>3, <4>1
      <4>3. g[e - 1] = f[e - 1]
        BY <4>1
      <4> QED
        BY <3>3, <4>1, <4>2, <4>3
    <3> QED
      BY <3>1, <3>2, <3>3
  <2>3. g = h
    BY <2>2
  <2> HIDE DEF g
  <2> QED
    BY <2>3
<1> HIDE DEF P
<1>3. N \in P
  BY <1>1, <1>2, NatSetInduction
<1> QED
  BY <1>3 DEF P, IsTree

(* The rows of a list.                                                     *)
LEMMA RowsFacts ==
    ASSUME NEW list, IsRow(list)
    PROVE  /\ DOMAIN Rows(list) = 0..Len(list)
           /\ Rows(list)[0] = list
           /\ \A k \in 0..Len(list) : k + 1 \in 0..Len(list) =>
                 Rows(list)[k + 1] = Above(Rows(list)[k])
<1>0. Len(list) \in Nat
  BY EvenedFacts
<1>1. \E g : IsTree(g, list, Len(list))
  BY <1>0, TreeExists
<1>2. IsTree(Rows(list), list, Len(list))
  BY <1>1 DEF Rows, IsTree, Above, NextRow
<1>3. Rows(list) = [k \in 0..Len(list) |-> IF k = 0 THEN list ELSE Above(Rows(list)[k - 1])]
  BY <1>2 DEF IsTree
<1>4. DOMAIN Rows(list) = 0..Len(list)
  BY <1>3
<1>5. Rows(list)[0] = list
  <2>1. 0 \in 0..Len(list)
    BY <1>0
  <2> QED
    BY <1>3, <2>1
<1>6. ASSUME NEW k \in 0..Len(list), k + 1 \in 0..Len(list)
      PROVE  Rows(list)[k + 1] = Above(Rows(list)[k])
  <2>1. k + 1 # 0 /\ (k + 1) - 1 = k
    OBVIOUS
  <2> QED
    BY <1>3, <1>6, <2>1
<1> QED
  BY <1>4, <1>5, <1>6

(* Rows get shorter until one hash is left.                                *)
LEMMA RowsShrink ==
    ASSUME NEW list, IsRow(list), NEW k \in 0..Len(list)
    PROVE  /\ IsRow(Rows(list)[k]) /\ Len(Rows(list)[k]) \in Nat \ {0}
           /\ Len(Rows(list)[k]) = 1 \/ Len(Rows(list)[k]) + k <= Len(list)
<1> DEFINE r == Rows(list)
           N == Len(list)
           Shrunk(j) == /\ IsRow(r[j]) /\ Len(r[j]) \in Nat \ {0}
                        /\ Len(r[j]) = 1 \/ Len(r[j]) + j <= N
           P == {j \in Nat : j <= N => Shrunk(j)}
<1>0. N \in Nat /\ N # 0 /\ r[0] = list
  BY EvenedFacts, RowsFacts
<1>1. 0 \in P
  BY <1>0
<1>up. ASSUME NEW j \in 0..N, j + 1 \in 0..N PROVE r[j + 1] = Above(r[j])
  BY <1>up, RowsFacts
<1> HIDE DEF r, N
<1>2. ASSUME NEW j \in Nat, j + 1 <= N, Shrunk(j) PROVE Shrunk(j + 1)
  <2>1. j \in 0..N /\ j + 1 \in 0..N
    BY <1>0, <1>2
  <2>2. r[j + 1] = Above(r[j])
    BY <2>1, <1>up
  <2>3. CASE Len(r[j]) = 1
    <3>1. r[j + 1] = r[j]
      BY <2>2, <2>3 DEF Above
    <3> QED
      BY <1>2, <2>3, <3>1
  <2>4. CASE Len(r[j]) # 1
    <3>1. r[j + 1] = NextRow(r[j])
      BY <2>2, <2>4 DEF Above
    <3>2. IsRow(NextRow(r[j])) /\ Len(NextRow(r[j])) = (Len(r[j]) + 1) \div 2
      BY <1>2, NextRowFacts
    <3> DEFINE n == Len(r[j])
               m == (n + 1) \div 2
    <3>8. n \in Nat \ {0} /\ n # 1 /\ n + j <= N
      BY <1>2, <2>4
    <3>5. Len(r[j + 1]) = m
      BY <3>1, <3>2
    <3> HIDE DEF n
    <3>3. n \in Nat /\ n > 1 /\ n + j <= N
      BY <1>0, <3>8
    <3>4. m \in Nat /\ m >= 1 /\ m <= n - 1
      BY <3>3
    <3> HIDE DEF m
    <3>6. m \in Nat \ {0} /\ m + (j + 1) <= N
      BY <1>0, <3>3, <3>4
    <3>7. IsRow(r[j + 1])
      BY <3>1, <3>2
    <3> QED
      BY <3>5, <3>6, <3>7
  <2> QED
    BY <2>3, <2>4
<1>3. \A j \in Nat : j \in P => j + 1 \in P
  <2> SUFFICES ASSUME NEW j \in Nat, j \in P PROVE j + 1 \in P
    OBVIOUS
  <2>1. j + 1 <= N => j <= N
    BY <1>0
  <2>2. j + 1 <= N => Shrunk(j + 1)
    BY <1>2, <2>1
  <2> HIDE DEF Shrunk
  <2> QED
    BY <2>2
<1> HIDE DEF P
<1>4. k \in P
  BY <1>1, <1>3, NatSetInduction
<1> QED
  BY <1>4 DEF P, r, N

(* Once there is one hash, the rows repeat it.                             *)
LEMMA RowsEnd ==
    ASSUME NEW list, IsRow(list), NEW d \in 0..Len(list), Len(Rows(list)[d]) = 1,
           NEW k \in d..Len(list)
    PROVE  Rows(list)[k] = Rows(list)[d]
<1> DEFINE r == Rows(list)
           N == Len(list)
           P == {j \in Nat : d + j <= N => r[d + j] = r[d]}
<1>0. N \in Nat
  BY EvenedFacts
<1>1. 0 \in P
  OBVIOUS
<1>2. ASSUME NEW j \in Nat, j \in P PROVE j + 1 \in P
  <2> SUFFICES ASSUME d + (j + 1) <= N PROVE r[d + (j + 1)] = r[d]
    OBVIOUS
  <2>1. /\ d + j \in 0..N /\ (d + j) + 1 \in 0..N /\ (d + j) + 1 = d + (j + 1)
        /\ r[d + j] = r[d]
    BY <1>0, <1>2
  <2>2. r[(d + j) + 1] = Above(r[d + j])
    BY <2>1, RowsFacts
  <2> QED
    BY <2>1, <2>2 DEF Above
<1>3. k - d \in Nat /\ d + (k - d) <= N /\ d + (k - d) = k
  BY <1>0
<1> HIDE DEF P
<1>4. k - d \in P
  BY <1>1, <1>2, <1>3, NatSetInduction
<1> QED
  BY <1>3, <1>4 DEF P

(* A tree of d rows above its leaves.                                      *)
Tall(list, d) ==
    /\ d \in 0..Len(list)
    /\ Len(Rows(list)[d]) = 1
    /\ \A k \in 0..(d - 1) : /\ Len(Rows(list)[k]) > 1
                             /\ Rows(list)[k + 1] = NextRow(Rows(list)[k])
    /\ MerkleRoot(list) = Rows(list)[d][1]
    /\ Depth(list) = d

(* Every tree has a height: where the row of one hash is.                  *)
LEMMA TreesAreTall ==
    ASSUME NEW list, IsRow(list)
    PROVE  \E d : Tall(list, d)
<1> DEFINE r == Rows(list)
           N == Len(list)
           T == {k \in 0..N : Len(r[k]) = 1}
<1>0. N \in Nat /\ N # 0 /\ DOMAIN r = 0..N
  BY EvenedFacts, RowsFacts
<1>1. Len(r[N]) = 1
  <2>1. N \in 0..N
    BY <1>0
  <2>2. /\ Len(r[N]) \in Nat \ {0}
        /\ Len(r[N]) = 1 \/ Len(r[N]) + N <= N
    BY <2>1, RowsShrink
  <2> QED
    BY <1>0, <2>2
<1>2. PICK d \in T : \A k \in T : d <= k
  <2>1. T \in SUBSET Nat /\ T # {}
    BY <1>0, <1>1
  <2> HIDE DEF T
  <2> QED
    BY <2>1, LeastNumber
<1>3. d \in 0..N /\ Len(r[d]) = 1
  BY <1>2
<1>end. \A k \in d..N : r[k] = r[d]
  BY <1>3, RowsEnd
<1>up. \A k \in 0..N : k + 1 \in 0..N => r[k + 1] = Above(r[k])
  BY RowsFacts
<1>len. \A k \in 0..N : Len(r[k]) \in Nat \ {0}
  BY RowsShrink
<1>8. MerkleRoot(list) = r[d][1]
  <2>1. r[N] = r[d]
    BY <1>0, <1>3, <1>end
  <2> QED
    BY <2>1 DEF MerkleRoot
<1> HIDE DEF r, N
<1>4. ASSUME NEW k \in 0..(d - 1)
      PROVE  Len(r[k]) > 1 /\ r[k + 1] = NextRow(r[k])
  <2>1. k \in 0..N /\ k + 1 \in 0..N /\ k \notin T
    BY <1>0, <1>2, <1>3
  <2>2. Len(r[k]) # 1 /\ Len(r[k]) \in Nat \ {0}
    BY <2>1, <1>len
  <2>3. r[k + 1] = Above(r[k])
    BY <2>1, <1>up
  <2>4. Len(r[k]) > 1
    <3> DEFINE n == Len(r[k])
    <3>1. n # 1 /\ n \in Nat \ {0}
      BY <2>2
    <3> HIDE DEF n
    <3>2. n > 1
      BY <3>1
    <3> QED
      BY <3>2 DEF n
  <2> QED
    BY <2>2, <2>3, <2>4 DEF Above
<1>6. {k \in DOMAIN r : Len(r[k]) > 1} = 0..(d - 1)
  <2>1. ASSUME NEW k \in 0..N, Len(r[k]) > 1 PROVE k \in 0..(d - 1)
    <3>1. CASE k < d
      BY <1>3, <3>1
    <3>2. CASE k >= d
      <4>1. r[k] = r[d]
        BY <1>0, <1>3, <1>end, <3>2
      <4> DEFINE n == Len(r[k])
      <4>2. n = 1 /\ n > 1
        BY <1>3, <2>1, <4>1
      <4> HIDE DEF n
      <4>3. FALSE
        BY <4>2
      <4> QED
        BY <4>3
    <3> QED
      BY <1>0, <1>3, <3>1, <3>2
  <2>2. 0..(d - 1) \subseteq 0..N
    BY <1>0, <1>3
  <2> QED
    BY <1>0, <1>4, <2>1, <2>2
<1>7. Depth(list) = d
  <2>1. Cardinality(0..(d - 1)) = d
    <3>1. d \in Nat /\ 0 \in Int /\ d - 1 \in Int
      BY <1>0, <1>3
    <3>2. Cardinality(0..(d - 1)) = IF 0 <= d - 1 THEN (d - 1) - 0 + 1 ELSE 0
      BY <3>1, FS_Interval
    <3> QED
      BY <3>1, <3>2
  <2> QED
    BY <1>6, <2>1 DEF Depth, r
<1> QED
  BY <1>3, <1>4, <1>7, <1>8 DEF Tall, r, N

(* Halves: the pairs of a row of n hashes.                                 *)
LEMMA PairPlaces ==
    ASSUME NEW n \in Nat
    PROVE  /\ (n + 1) \div 2 \in Nat
           /\ \A i \in 1..((n + 1) \div 2) : 2 * i - 1 \in 1..n /\ 2 * i <= n + 1
           /\ \A j \in 1..n : \E i \in 1..((n + 1) \div 2) : j = 2 * i - 1 \/ j = 2 * i
<1> DEFINE h == (n + 1) \div 2
<1>1. h \in Nat /\ (2 * h = n \/ 2 * h = n + 1)
  OBVIOUS
<1>2. ASSUME NEW j \in 1..n PROVE \E i \in 1..h : j = 2 * i - 1 \/ j = 2 * i
  <2> DEFINE i == (j + 1) \div 2
  <2>1. i \in Nat /\ (2 * i = j \/ 2 * i = j + 1)
    OBVIOUS
  <2> HIDE DEF i, h
  <2>2. i \in 1..h
    BY <1>1, <2>1
  <2>3. j = 2 * i - 1 \/ j = 2 * i
    BY <2>1
  <2> QED
    BY <2>2, <2>3
<1> HIDE DEF h
<1>3. \A i \in 1..h : 2 * i - 1 \in 1..n /\ 2 * i <= n + 1
  BY <1>1
<1> QED
  BY <1>1, <1>2, <1>3 DEF h

(* Hashes that differ make pairs that differ.                              *)
LEMMA NextRowInjective ==
    ASSUME NEW row, IsRow(row), IsInjective(row)
    PROVE  IsInjective(NextRow(row))
<1> DEFINE n == Len(row)
           h == (n + 1) \div 2
<1>1. /\ n \in Nat /\ DOMAIN row = 1..n /\ DOMAIN NextRow(row) = 1..h
      /\ \A i \in 1..n : Evened(row)[i] = row[i]
      /\ \A i \in 1..h : NextRow(row)[i] = <<Evened(row)[2 * i - 1], Evened(row)[2 * i]>>
  BY EvenedFacts, NextRowFacts
<1>2. \A i \in 1..h : 2 * i - 1 \in 1..n
  BY <1>1, PairPlaces
<1> SUFFICES ASSUME NEW a \in 1..h, NEW b \in 1..h, NextRow(row)[a] = NextRow(row)[b]
             PROVE  a = b
  BY <1>1 DEF IsInjective
<1>3. row[2 * a - 1] = row[2 * b - 1]
  <2>1. 2 * a - 1 \in 1..n /\ 2 * b - 1 \in 1..n
    BY <1>2
  <2>2. Evened(row)[2 * a - 1] = Evened(row)[2 * b - 1]
    BY <1>1
  <2> QED
    BY <1>1, <2>1, <2>2
<1>4. 2 * a - 1 = 2 * b - 1
  BY <1>1, <1>2, <1>3 DEF IsInjective
<1> HIDE DEF h
<1> QED
  BY <1>4

(* Two rows without repeats have the same pairs only if they are the same: *)
(* a last hash that was doubled is not taken for two.                      *)
LEMMA Unpaired ==
    ASSUME NEW r, NEW s, IsRow(r), IsRow(s), IsInjective(r), IsInjective(s),
           NextRow(r) = NextRow(s)
    PROVE  r = s
<1> DEFINE n == Len(r)
           m == Len(s)
           h == (n + 1) \div 2
<1>1. /\ n \in Nat \ {0} /\ DOMAIN r = 1..n
      /\ Len(NextRow(r)) = (n + 1) \div 2
      /\ \A i \in 1..n : Evened(r)[i] = r[i]
      /\ Odd(r) => Evened(r)[n + 1] = r[n]
      /\ \A i \in 1..((n + 1) \div 2) :
            NextRow(r)[i] = <<Evened(r)[2 * i - 1], Evened(r)[2 * i]>>
  BY EvenedFacts, NextRowFacts
<1>2. /\ m \in Nat \ {0} /\ DOMAIN s = 1..m
      /\ Len(NextRow(s)) = (m + 1) \div 2
      /\ \A i \in 1..m : Evened(s)[i] = s[i]
      /\ Odd(s) => Evened(s)[m + 1] = s[m]
      /\ \A i \in 1..((m + 1) \div 2) :
            NextRow(s)[i] = <<Evened(s)[2 * i - 1], Evened(s)[2 * i]>>
  BY EvenedFacts, NextRowFacts
<1>3. (n + 1) \div 2 = (m + 1) \div 2
  BY <1>1, <1>2
<1>4. h \in Nat /\ (n = 2 * h \/ n = 2 * h - 1) /\ (m = 2 * h \/ m = 2 * h - 1) /\ h >= 1
  <2>1. h \in Nat /\ (n = 2 * h \/ n = 2 * h - 1) /\ h >= 1
    <3> HIDE DEF n
    <3> QED
      BY <1>1
  <2>2. m = 2 * ((m + 1) \div 2) \/ m = 2 * ((m + 1) \div 2) - 1
    <3> HIDE DEF m
    <3> QED
      BY <1>2
  <2> QED
    BY <1>3, <2>1, <2>2
<1>5. \A i \in 1..h : /\ Evened(r)[2 * i - 1] = Evened(s)[2 * i - 1]
                      /\ Evened(r)[2 * i] = Evened(s)[2 * i]
  <2> TAKE i \in 1..h
  <2>1. <<Evened(r)[2 * i - 1], Evened(r)[2 * i]>> = <<Evened(s)[2 * i - 1], Evened(s)[2 * i]>>
    BY <1>1, <1>2, <1>3
  <2> HIDE DEF h
  <2> QED
    BY <2>1
<1>odd. /\ n = 2 * h - 1 => Odd(r)
        /\ m = 2 * h - 1 => Odd(s)
  <2> HIDE DEF h, n, m
  <2>1. (2 * h - 1) % 2 = 1
    BY <1>4
  <2> QED
    BY <2>1 DEF Odd, n, m
<1> HIDE DEF h, n, m
<1>6. /\ 2 * h - 1 \in 1..n /\ 2 * h - 1 \in 1..m /\ h \in 1..h
      /\ (2 * h - 1) + 1 = 2 * h /\ 2 * h # 2 * h - 1
  BY <1>4
<1>7. n = m
  <2>1. CASE n = 2 * h - 1 /\ m = 2 * h
    <3>1. Evened(r)[2 * h] = r[2 * h - 1]
      BY <1>1, <1>6, <1>odd, <2>1
    <3>2. r[2 * h - 1] = s[2 * h - 1]
      BY <1>1, <1>2, <1>5, <1>6
    <3>3. s[2 * h] = s[2 * h - 1]
      <4>1. 2 * h \in 1..m
        BY <1>4, <2>1
      <4> QED
        BY <1>2, <1>5, <1>6, <3>1, <3>2, <4>1
    <3>4. 2 * h \in DOMAIN s /\ 2 * h - 1 \in DOMAIN s
      BY <1>2, <1>4, <1>6, <2>1
    <3> QED
      BY <1>6, <3>3, <3>4 DEF IsInjective
  <2>2. CASE m = 2 * h - 1 /\ n = 2 * h
    <3>1. Evened(s)[2 * h] = s[2 * h - 1]
      BY <1>2, <1>6, <1>odd, <2>2
    <3>2. r[2 * h - 1] = s[2 * h - 1]
      BY <1>1, <1>2, <1>5, <1>6
    <3>3. r[2 * h] = r[2 * h - 1]
      <4>1. 2 * h \in 1..n
        BY <1>4, <2>2
      <4> QED
        BY <1>1, <1>5, <1>6, <3>1, <3>2, <4>1
    <3>4. 2 * h \in DOMAIN r /\ 2 * h - 1 \in DOMAIN r
      BY <1>1, <1>4, <1>6, <2>2
    <3> QED
      BY <1>6, <3>3, <3>4 DEF IsInjective
  <2> QED
    BY <1>4, <2>1, <2>2
<1>8. ASSUME NEW j \in 1..n PROVE r[j] = s[j]
  <2>1. PICK i \in 1..((n + 1) \div 2) : j = 2 * i - 1 \/ j = 2 * i
    BY <1>1, PairPlaces
  <2>2. i \in 1..h /\ j \in 1..m
    BY <1>7 DEF h
  <2>3. Evened(r)[j] = Evened(s)[j]
    BY <1>5, <2>1, <2>2
  <2> QED
    BY <1>1, <1>2, <2>2, <2>3
<1>9. PICK S, T : r \in Seq(S) /\ s \in Seq(T)
  BY DEF IsRow
<1>10. r = [j \in 1..n |-> r[j]] /\ s = [j \in 1..n |-> s[j]]
  BY <1>1, <1>2, <1>7, <1>9
<1> QED
  BY <1>8, <1>10

(* No row of a list without repeats has a repeat.                          *)
LEMMA RowsInjective ==
    ASSUME NEW list, IsRow(list), IsInjective(list), NEW k \in 0..Len(list)
    PROVE  IsInjective(Rows(list)[k])
<1> DEFINE r == Rows(list)
           N == Len(list)
           P == {j \in Nat : j <= N => IsInjective(r[j])}
<1>0. N \in Nat /\ r[0] = list
  BY EvenedFacts, RowsFacts
<1>up. \A j \in 0..N : /\ IsRow(r[j])
                       /\ j + 1 \in 0..N => r[j + 1] = Above(r[j])
  BY RowsFacts, RowsShrink
<1> HIDE DEF r, N
<1>1. 0 \in P
  BY <1>0
<1>2. ASSUME NEW j \in Nat, j \in P PROVE j + 1 \in P
  <2> SUFFICES ASSUME j + 1 <= N PROVE IsInjective(r[j + 1])
    OBVIOUS
  <2>1. j \in 0..N /\ j + 1 \in 0..N /\ IsInjective(r[j])
    BY <1>0, <1>2
  <2>2. IsRow(r[j]) /\ r[j + 1] = Above(r[j])
    BY <1>up, <2>1
  <2>3. IsInjective(NextRow(r[j]))
    BY <2>1, <2>2, NextRowInjective
  <2>4. r[j + 1] = r[j] \/ r[j + 1] = NextRow(r[j])
    BY <2>2 DEF Above
  <2> QED
    BY <2>1, <2>3, <2>4
<1> HIDE DEF P
<1>3. k \in P
  BY <1>1, <1>2, NatSetInduction
<1> QED
  BY <1>3 DEF P, r, N

(* Under the same root, the rows of two lists are the same from the top    *)
(* down to the leaves of the one with the smaller tree.                    *)
LEMMA SameRoot ==
    ASSUME NEW a, NEW b, IsRow(a), IsRow(b), IsInjective(a), IsInjective(b),
           NEW da \in Nat, NEW db \in Nat, Tall(a, da), Tall(b, db), da <= db,
           MerkleRoot(a) = MerkleRoot(b)
    PROVE  a = Rows(b)[db - da]
<1> DEFINE r == Rows(a)
           s == Rows(b)
           P == {j \in Nat : j <= da => r[da - j] = s[db - j]}
<1>0. /\ Len(a) \in Nat /\ Len(b) \in Nat /\ da <= Len(a) /\ db <= Len(b)
      /\ r[0] = a
  BY EvenedFacts, RowsFacts DEF Tall
<1>1. \A k \in 0..da : IsRow(r[k]) /\ IsInjective(r[k])
  <2> TAKE k \in 0..da
  <2>1. k \in 0..Len(a)
    BY <1>0
  <2> QED
    BY <2>1, RowsShrink, RowsInjective
<1>2. \A k \in 0..db : IsRow(s[k]) /\ IsInjective(s[k])
  <2> TAKE k \in 0..db
  <2>1. k \in 0..Len(b)
    BY <1>0
  <2> QED
    BY <2>1, RowsShrink, RowsInjective
<1>3. /\ \A k \in 0..(da - 1) : r[k + 1] = NextRow(r[k])
      /\ \A k \in 0..(db - 1) : s[k + 1] = NextRow(s[k])
      /\ r[da][1] = s[db][1] /\ Len(r[da]) = 1 /\ Len(s[db]) = 1
  BY DEF Tall
<1> HIDE DEF r, s
<1>4. r[da] = s[db]
  <2>1. PICK S, T : r[da] \in Seq(S) /\ s[db] \in Seq(T)
    BY <1>1, <1>2 DEF IsRow
  <2>2. ASSUME NEW u, NEW U, u \in Seq(U), Len(u) = 1 PROVE u = [i \in 1..1 |-> u[1]]
    BY <2>2
  <2>3. r[da] = [i \in 1..1 |-> r[da][1]] /\ s[db] = [i \in 1..1 |-> s[db][1]]
    BY <1>3, <2>1, <2>2
  <2> QED
    BY <1>3, <2>3
<1>5. 0 \in P
  BY <1>4
<1>6. ASSUME NEW j \in Nat, j \in P PROVE j + 1 \in P
  <2> SUFFICES ASSUME j + 1 <= da PROVE r[da - (j + 1)] = s[db - (j + 1)]
    OBVIOUS
  <2> DEFINE k == da - (j + 1)
             l == db - (j + 1)
  <2>1. /\ k \in 0..(da - 1) /\ l \in 0..(db - 1) /\ k + 1 = da - j /\ l + 1 = db - j
        /\ k \in 0..da /\ l \in 0..db /\ j <= da
    OBVIOUS
  <2>2. r[k + 1] = s[l + 1]
    BY <1>6, <2>1
  <2> HIDE DEF k, l
  <2>3. NextRow(r[k]) = NextRow(s[l])
    BY <1>3, <2>1, <2>2
  <2>4. r[k] = s[l]
    BY <1>1, <1>2, <2>1, <2>3, Unpaired
  <2> QED
    BY <2>4 DEF k, l
<1> HIDE DEF P
<1>7. da \in P
  BY <1>5, <1>6, NatSetInduction
<1>8. r[da - da] = s[db - da]
  BY <1>7 DEF P
<1> QED
  BY <1>0, <1>8 DEF s

(* No txid is the hash of a pair: a hash has one preimage, and the bytes   *)
(* of a transaction are longer than those of a pair.                       *)
NoTxidIsPair == \A t \in Txid : \A left, right : t # PairHash(left, right)

(* A root commits to one list, among those without repeats.                *)
LEMMA OneList ==
    ASSUME NoTxidIsPair, NEW a \in Seq(Txid), NEW b \in Seq(Txid), a # <<>>, b # <<>>,
           IsInjective(a), IsInjective(b), MerkleRoot(a) = MerkleRoot(b)
    PROVE  a = b
<1>1. IsRow(a) /\ IsRow(b)
  BY DEF IsRow
<1>2. PICK da : Tall(a, da)
  BY <1>1, TreesAreTall
<1>3. PICK db : Tall(b, db)
  BY <1>1, TreesAreTall
<1>4. /\ da \in Nat /\ db \in Nat /\ da <= Len(a) /\ db <= Len(b)
      /\ Len(a) \in Nat /\ Len(b) \in Nat
  BY <1>1, <1>2, <1>3, EvenedFacts DEF Tall
<1>5. ASSUME NEW c \in Seq(Txid), NEW e, IsRow(c), IsRow(e), NEW d \in Nat, d # 0, Tall(e, d),
             NEW k \in 1..d, c = Rows(e)[k]
      PROVE  FALSE
  <2>1. /\ k - 1 \in 0..(d - 1) /\ (k - 1) + 1 = k
        /\ Len(e) \in Nat /\ d <= Len(e) /\ k - 1 \in 0..Len(e)
    BY <1>5, EvenedFacts DEF Tall
  <2>2. Rows(e)[k] = NextRow(Rows(e)[k - 1])
    BY <1>5, <2>1 DEF Tall
  <2>3. IsRow(Rows(e)[k - 1]) /\ Len(Rows(e)[k - 1]) \in Nat \ {0}
    BY <1>5, <2>1, RowsShrink
  <2> DEFINE n == Len(Rows(e)[k - 1])
  <2>4. 1 \in 1..((n + 1) \div 2)
    <3>1. n \in Nat \ {0}
      BY <2>3
    <3> HIDE DEF n
    <3> QED
      BY <3>1
  <2>5. \E x, y : NextRow(Rows(e)[k - 1])[1] = <<x, y>>
    BY <2>3, <2>4, NextRowFacts
  <2>6. c[1] \in Txid
    <3>1. Len(c) \in Nat \ {0}
      BY <1>5, EvenedFacts
    <3> QED
      BY <3>1
  <2> QED
    BY <1>5, <2>2, <2>5, <2>6 DEF NoTxidIsPair, PairHash
<1>6. CASE da <= db
  <2>1. a = Rows(b)[db - da]
    BY <1>1, <1>2, <1>3, <1>4, <1>6, SameRoot
  <2>2. CASE da = db
    <3>1. Rows(b)[0] = b /\ db - da = 0
      BY <1>1, <1>4, <2>2, RowsFacts
    <3> QED
      BY <2>1, <3>1
  <2>3. CASE da # db
    <3>1. db - da \in 1..db /\ db # 0
      BY <1>4, <1>6, <2>3
    <3> QED
      BY <1>1, <1>3, <1>4, <1>5, <2>1, <3>1
  <2> QED
    BY <2>2, <2>3
<1>7. CASE db <= da
  <2>1. b = Rows(a)[da - db]
    BY <1>1, <1>2, <1>3, <1>4, <1>7, SameRoot
  <2>2. CASE da = db
    <3>1. Rows(a)[0] = a /\ da - db = 0
      BY <1>1, <1>4, <2>2, RowsFacts
    <3> QED
      BY <2>1, <3>1
  <2>3. CASE da # db
    <3>1. da - db \in 1..da /\ da # 0
      BY <1>4, <1>7, <2>3
    <3> QED
      BY <1>1, <1>2, <1>4, <1>5, <2>1, <3>1
  <2> QED
    BY <2>2, <2>3
<1> QED
  BY <1>4, <1>6, <1>7

(* Nothing without repeats is refused by the tree.                         *)
LEMMA NoneRejected ==
    ASSUME NEW list, IsRow(list), IsInjective(list)
    PROVE  ~Rejected(list)
<1>1. list # <<>>
  BY DEF IsRow
<1>2. ASSUME NEW k \in 0..Len(list), Malleable(Rows(list)[k]) PROVE FALSE
  <2> DEFINE row == Rows(list)[k]
             n == Len(row)
  <2>1. IsRow(row) /\ IsInjective(row)
    BY RowsShrink, RowsInjective
  <2>2. n \in Nat /\ DOMAIN row = 1..n
    BY <2>1, EvenedFacts
  <2>3. n >= 3 /\ row[n] = row[n - 1]
    BY <1>2 DEF Malleable
  <2> HIDE DEF row, n
  <2>4. n \in 1..n /\ n - 1 \in 1..n /\ n # n - 1
    BY <2>2, <2>3
  <2> QED
    BY <2>1, <2>2, <2>3, <2>4 DEF IsInjective
<1>3. ASSUME NEW row \in Range(Rows(list)), Malleable(row) PROVE FALSE
  <2>1. PICK k \in DOMAIN Rows(list) : row = Rows(list)[k]
    BY DEF Range
  <2>2. k \in 0..Len(list)
    BY RowsFacts
  <2> QED
    BY <1>2, <1>3, <2>1, <2>2
<1> QED
  BY <1>1, <1>3 DEF Rejected

(* The recursive definition inside VerifyProof: a step of the path, and    *)
(* the climb up to step N.                                                 *)
Climb(path, k, hash) ==
    IF path[k].isLeft THEN PairHash(path[k].hash, hash) ELSE PairHash(hash, path[k].hash)

IsClimb(g, t, path, N) ==
    g = [k \in 0..N |-> IF k = 0 THEN t ELSE Climb(path, k, g[k - 1])]

(* There is such a climb.                                                  *)
LEMMA ClimbExists ==
    ASSUME NEW t, NEW path, NEW N \in Nat
    PROVE  \E g : IsClimb(g, t, path, N)
<1> DEFINE P == {n \in Nat :
                   \E f : f = [e \in 0..n |-> IF e = 0 THEN t ELSE Climb(path, e, f[e - 1])]}
<1>1. 0 \in P
  <2> DEFINE f == [e \in 0..0 |-> t]
  <2>1. f = [e \in 0..0 |-> IF e = 0 THEN t ELSE Climb(path, e, f[e - 1])]
    OBVIOUS
  <2> QED
    BY <2>1
<1>2. ASSUME NEW n \in Nat, n \in P PROVE n + 1 \in P
  <2>1. PICK f : f = [e \in 0..n |-> IF e = 0 THEN t ELSE Climb(path, e, f[e - 1])]
    BY <1>2
  <2> DEFINE g == [e \in 0..(n + 1) |-> IF e = n + 1 THEN Climb(path, n + 1, f[n]) ELSE f[e]]
             h == [e \in 0..(n + 1) |-> IF e = 0 THEN t ELSE Climb(path, e, g[e - 1])]
  <2>2. ASSUME NEW e \in 0..(n + 1) PROVE g[e] = h[e]
    <3>1. CASE e = n + 1
      <4>1. e # 0 /\ e - 1 = n /\ n \in 0..(n + 1) /\ n # n + 1
        BY <3>1
      <4>2. g[e - 1] = f[n]
        BY <4>1
      <4> QED
        BY <3>1, <4>1, <4>2
    <3>2. CASE e = 0
      <4>1. e # n + 1 /\ e \in 0..n
        BY <3>2
      <4>2. f[e] = t
        BY <2>1, <3>2, <4>1
      <4> QED
        BY <3>2, <4>1, <4>2
    <3>3. CASE e # n + 1 /\ e # 0
      <4>1. e \in 0..n /\ e - 1 \in 0..(n + 1) /\ e - 1 # n + 1 /\ e - 1 \in 0..n
        BY <3>3
      <4>2. f[e] = Climb(path, e, f[e - 1])
        BY <2>1, <3>3, <4>1
      <4>3. g[e - 1] = f[e - 1]
        BY <4>1
      <4> QED
        BY <3>3, <4>1, <4>2, <4>3
    <3> QED
      BY <3>1, <3>2, <3>3
  <2>3. g = h
    BY <2>2
  <2> HIDE DEF g
  <2> QED
    BY <2>3
<1> HIDE DEF P
<1>3. N \in P
  BY <1>1, <1>2, NatSetInduction
<1> QED
  BY <1>3 DEF P, IsClimb

(* verify_proof compares the end of a climb with the root.                 *)
LEMMA VerifyClimbs ==
    ASSUME NEW t, NEW path, NEW root, Len(path) \in Nat
    PROVE  \E g : /\ g[0] = t
                  /\ \A k \in 1..Len(path) : g[k] = Climb(path, k, g[k - 1])
                  /\ VerifyProof(t, path, root) <=> g[Len(path)] = root
<1> DEFINE c == CHOOSE g : IsClimb(g, t, path, Len(path))
<1>1. IsClimb(c, t, path, Len(path))
  BY ClimbExists
<1>2. VerifyProof(t, path, root) <=> c[Len(path)] = root
  BY DEF VerifyProof, IsClimb, Climb
<1> HIDE DEF c
<1>3. c = [k \in 0..Len(path) |-> IF k = 0 THEN t ELSE Climb(path, k, c[k - 1])]
  BY <1>1 DEF IsClimb
<1>4. c[0] = t
  <2>1. 0 \in 0..Len(path)
    OBVIOUS
  <2> QED
    BY <1>3, <2>1
<1>5. ASSUME NEW k \in 1..Len(path) PROVE c[k] = Climb(path, k, c[k - 1])
  <2>1. k \in 0..Len(path) /\ k # 0
    OBVIOUS
  <2> QED
    BY <1>3, <2>1
<1> QED
  BY <1>2, <1>4, <1>5

(* One row up: the hash at place p goes into the pair at half of p.        *)
LEMMA PlaceAbove ==
    ASSUME NEW row, IsRow(row), NEW p \in Nat, p < Len(row)
    PROVE  /\ p \div 2 \in Nat /\ p \div 2 < Len(NextRow(row))
           /\ p % 2 = 1 => NextRow(row)[p \div 2 + 1] = <<Evened(row)[p], row[p + 1]>>
           /\ p % 2 # 1 => NextRow(row)[p \div 2 + 1] = <<row[p + 1], Evened(row)[p + 2]>>
<1> DEFINE n == Len(row)
           h == (n + 1) \div 2
           q == p \div 2
<1>1. /\ n \in Nat /\ Len(NextRow(row)) = h
      /\ \A i \in 1..n : Evened(row)[i] = row[i]
      /\ \A i \in 1..h : NextRow(row)[i] = <<Evened(row)[2 * i - 1], Evened(row)[2 * i]>>
  BY EvenedFacts, NextRowFacts
<1>2. /\ q \in Nat /\ p < n /\ h \in Nat
      /\ n = 2 * h \/ n + 1 = 2 * h
      /\ p % 2 = 1 => p = 2 * q + 1
      /\ p % 2 # 1 => p = 2 * q
  <2>1. /\ q \in Nat
        /\ p % 2 = 1 => p = 2 * q + 1
        /\ p % 2 # 1 => p = 2 * q
    OBVIOUS
  <2>2. h \in Nat /\ (n = 2 * h \/ n + 1 = 2 * h)
    <3> HIDE DEF n
    <3> QED
      BY <1>1
  <2> QED
    BY <2>1, <2>2
<1> HIDE DEF n, h, q
<1>3. q + 1 \in 1..h /\ q < h /\ p + 1 \in 1..n
  BY <1>1, <1>2
<1>4. NextRow(row)[q + 1] = <<Evened(row)[2 * (q + 1) - 1], Evened(row)[2 * (q + 1)]>>
  BY <1>1, <1>3
<1>5. Evened(row)[p + 1] = row[p + 1]
  BY <1>1, <1>3
<1>6. CASE p % 2 = 1
  <2>1. 2 * (q + 1) - 1 = p /\ 2 * (q + 1) = p + 1
    BY <1>2, <1>6
  <2> QED
    BY <1>1, <1>2, <1>3, <1>4, <1>5, <1>6, <2>1 DEF q
<1>7. CASE p % 2 # 1
  <2>1. 2 * (q + 1) - 1 = p + 1 /\ 2 * (q + 1) = p + 2
    BY <1>2, <1>7
  <2> QED
    BY <1>1, <1>2, <1>3, <1>4, <1>5, <1>7, <2>1 DEF q
<1> QED
  BY <1>6, <1>7

(* What merkle_proof lists: row by row the neighbour, and its side.        *)
Siblings(list, at, path, d) ==
    \A k \in 1..d :
        /\ path[k].isLeft <=> at[k - 1] % 2 = 1
        /\ path[k].hash = Evened(Rows(list)[k - 1])[IF at[k - 1] % 2 = 1
                                                    THEN at[k - 1] ELSE at[k - 1] + 2]

(* merkle_proof has a step for every row, and each is such a neighbour. *)
LEMMA ProofFacts ==
    ASSUME NEW list, IsRow(list), NEW i \in 1..Len(list), NEW d, Tall(list, d)
    PROVE  /\ Len(MerkleProof(list, i)) = d
           /\ \E at : /\ at[0] = i - 1 /\ \A k \in 0..d : at[k] \in Nat
                      /\ \A k \in 0..(d - 1) : at[k + 1] = at[k] \div 2
                      /\ Siblings(list, at, MerkleProof(list, i), d)
<1> DEFINE N == Len(list)
           at == CHOOSE f : IsHalving(f, i - 1, N)
           path == MerkleProof(list, i)
           side(k) == [hash |-> Evened(Rows(list)[k])[IF at[k] % 2 = 1 THEN at[k] ELSE at[k] + 2],
                       isLeft |-> at[k] % 2 = 1]
<1>1. N \in Nat /\ i - 1 \in Nat /\ d \in 0..N /\ Depth(list) = d
  BY EvenedFacts DEF Tall
<1>2. IsHalving(at, i - 1, N)
  BY <1>1, HalvingsExist
<1>3. path = [k \in 1..d |-> side(k - 1)]
  BY <1>1 DEF MerkleProof, IsHalving
<1> HIDE DEF at, path
<1>4. /\ at \in [0..N -> Nat] /\ at[0] = i - 1
      /\ \A e \in 0..N : e + 1 \in 0..N => at[e + 1] = at[e] \div 2
  BY <1>1, <1>2, HalvingsType
<1>5. Len(path) = d
  BY <1>1, <1>3
<1>6. Siblings(list, at, path, d)
  BY <1>3 DEF Siblings
<1>7. \A k \in 0..(d - 1) : k \in 0..N /\ k + 1 \in 0..N
  BY <1>1
<1>8. \A k \in 0..d : at[k] \in Nat
  BY <1>1, <1>4
<1> QED
  BY <1>4, <1>5, <1>6, <1>7, <1>8 DEF path

(* A proof convinces for the transaction at its place and no other.        *)
LEMMA ProofConvinces ==
    ASSUME NEW list, IsRow(list), NEW i \in 1..Len(list), NEW t
    PROVE  VerifyProof(t, MerkleProof(list, i), MerkleRoot(list)) <=> t = list[i]
<1>1. PICK d : Tall(list, d)
  BY TreesAreTall
<1> DEFINE path == MerkleProof(list, i)
           r == Rows(list)
<1>2. PICK at : /\ at[0] = i - 1 /\ \A k \in 0..d : at[k] \in Nat
                /\ \A k \in 0..(d - 1) : at[k + 1] = at[k] \div 2
                /\ Siblings(list, at, path, d)
  BY <1>1, ProofFacts
<1>3. Len(path) = d /\ d \in Nat /\ d <= Len(list) /\ Len(list) \in Nat
  BY <1>1, ProofFacts, EvenedFacts DEF Tall
<1>4. PICK g : /\ g[0] = t
               /\ \A k \in 1..Len(path) : g[k] = Climb(path, k, g[k - 1])
               /\ VerifyProof(t, path, MerkleRoot(list)) <=> g[Len(path)] = MerkleRoot(list)
  BY <1>3, VerifyClimbs
<1>5. /\ r[0] = list /\ Len(r[d]) = 1 /\ MerkleRoot(list) = r[d][1]
      /\ \A k \in 0..(d - 1) : r[k + 1] = NextRow(r[k])
  BY <1>1, RowsFacts DEF Tall
<1>6. \A k \in 0..d : IsRow(r[k])
  <2> TAKE k \in 0..d
  <2>1. k \in 0..Len(list)
    BY <1>3
  <2> QED
    BY <2>1, RowsShrink
<1>7. \A k \in 0..(d - 1) :
         /\ path[k + 1].isLeft <=> at[k] % 2 = 1
         /\ path[k + 1].hash = Evened(r[k])[IF at[k] % 2 = 1 THEN at[k] ELSE at[k] + 2]
  <2> TAKE k \in 0..(d - 1)
  <2>1. k + 1 \in 1..d /\ (k + 1) - 1 = k
    BY <1>3
  <2> QED
    BY <1>2, <2>1 DEF Siblings
<1> HIDE DEF path, r
<1> DEFINE On(k) == at[k] < Len(r[k]) /\ (g[k] = r[k][at[k] + 1] <=> t = list[i])
           P == {k \in Nat : k <= d => On(k)}
<1>8. 0 \in P
  <2>1. (i - 1) + 1 = i /\ i - 1 < Len(list)
    BY <1>3
  <2> QED
    BY <1>2, <1>4, <1>5, <2>1
<1>9. ASSUME NEW k \in Nat, k + 1 <= d, On(k) PROVE On(k + 1)
  <2>1. k \in 0..(d - 1) /\ k \in 0..d /\ k + 1 \in 1..d /\ (k + 1) - 1 = k
    BY <1>3, <1>9
  <2> DEFINE p == at[k]
             row == r[k]
             q == p \div 2
  <2>2. /\ IsRow(row) /\ p \in Nat /\ p < Len(row)
        /\ r[k + 1] = NextRow(row) /\ at[k + 1] = q
    BY <1>2, <1>5, <1>6, <1>9, <2>1
  <2>3. g[k + 1] = Climb(path, k + 1, g[k])
    BY <1>3, <1>4, <2>1
  <2>4. /\ path[k + 1].isLeft <=> p % 2 = 1
        /\ p % 2 = 1 => path[k + 1].hash = Evened(row)[p]
        /\ p % 2 # 1 => path[k + 1].hash = Evened(row)[p + 2]
    BY <1>7, <2>1
  <2>5. g[k] = row[p + 1] <=> t = list[i]
    BY <1>9
  <2> HIDE DEF p, row
  <2>6. /\ q < Len(NextRow(row))
        /\ p % 2 = 1 => NextRow(row)[q + 1] = <<Evened(row)[p], row[p + 1]>>
        /\ p % 2 # 1 => NextRow(row)[q + 1] = <<row[p + 1], Evened(row)[p + 2]>>
    BY <2>2, PlaceAbove
  <2> HIDE DEF q
  <2>7. g[k + 1] = NextRow(row)[q + 1] <=> g[k] = row[p + 1]
    <3>1. CASE p % 2 = 1
      <4>1. g[k + 1] = <<Evened(row)[p], g[k]>>
        BY <2>3, <2>4, <3>1 DEF Climb, PairHash
      <4>2. NextRow(row)[q + 1] = <<Evened(row)[p], row[p + 1]>>
        BY <2>6, <3>1
      <4> QED
        BY <4>1, <4>2
    <3>2. CASE p % 2 # 1
      <4>1. g[k + 1] = <<g[k], Evened(row)[p + 2]>>
        BY <2>3, <2>4, <3>2 DEF Climb, PairHash
      <4>2. NextRow(row)[q + 1] = <<row[p + 1], Evened(row)[p + 2]>>
        BY <2>6, <3>2
      <4> QED
        BY <4>1, <4>2
    <3> QED
      BY <3>1, <3>2
  <2> QED
    BY <2>2, <2>5, <2>6, <2>7
<1> HIDE DEF On
<1>10. ASSUME NEW k \in Nat, k \in P PROVE k + 1 \in P
  <2>1. k + 1 <= d => k <= d
    BY <1>3
  <2>2. k + 1 <= d => On(k + 1)
    BY <1>9, <1>10, <2>1
  <2> QED
    BY <2>2
<1> HIDE DEF P
<1>11. d \in P
  BY <1>3, <1>8, <1>10, NatSetInduction
<1>12. at[d] < Len(r[d]) /\ (g[d] = r[d][at[d] + 1] <=> t = list[i])
  BY <1>3, <1>11 DEF P, On
<1>13. at[d] = 0
  <2>1. at[d] \in Nat
    BY <1>2, <1>3
  <2> DEFINE z == at[d]
  <2>2. z \in Nat /\ z < 1
    BY <1>5, <1>12, <2>1
  <2> HIDE DEF z
  <2>3. z = 0
    BY <2>2
  <2> QED
    BY <2>3 DEF z
<1> QED
  BY <1>3, <1>4, <1>5, <1>12, <1>13 DEF path

(* RootCommits, for blocks of any length: the root in a header stands for  *)
(* one list of transactions, a list without repeats is never refused, and  *)
(* a proof convinces for the transaction at its place and no other.        *)
THEOREM RootAlwaysCommits == ASSUME NoTxidIsPair PROVE Writing => []RootCommits
<1> DEFINE Listed == txids \in Seq(Txid)
<1>1. Empty => Listed
  BY DEF Empty
<1>2. Listed /\ [AddTransaction]_txids => Listed'
  BY DEF AddTransaction
<1>3. Listed => RootCommits
  <2> SUFFICES ASSUME txids \in Seq(Txid), IsInjective(txids), txids # <<>>
               PROVE  LET root == MerkleRoot(txids)
                      IN  /\ Fits(txids, root)
                          /\ \A list \in Lists : Fits(list, root) => list = txids
                          /\ \A i \in DOMAIN txids : \A t \in Txid :
                                VerifyProof(t, MerkleProof(txids, i), root) <=> t = txids[i]
    BY DEF RootCommits
  <2>1. IsRow(txids) /\ DOMAIN txids = 1..Len(txids)
    BY DEF IsRow
  <2>2. Fits(txids, MerkleRoot(txids))
    BY <2>1, NoneRejected DEF Fits
  <2>3. ASSUME NEW list \in Lists, Fits(list, MerkleRoot(txids)) PROVE list = txids
    <3>1. list \in Seq(Txid) /\ list # <<>>
      <4>1. PICK n \in 1..MaxTxs : list \in [1..n -> Txid]
        BY DEF Lists
      <4>2. n \in Nat \ {0}
        BY <4>1
      <4> QED
        BY <4>1, <4>2
    <3> QED
      BY <2>3, <3>1, OneList DEF Fits
  <2>4. \A i \in DOMAIN txids : \A t \in Txid :
           VerifyProof(t, MerkleProof(txids, i), MerkleRoot(txids)) <=> t = txids[i]
    BY <2>1, ProofConvinces
  <2> QED
    BY <2>2, <2>3, <2>4
<1> HIDE DEF Listed
<1> QED
  BY <1>1, <1>2, <1>3, PTL DEF Writing
===============================================================================
