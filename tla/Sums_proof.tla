------------------------------- MODULE Sums_proof -------------------------------
(***************************************************************************)
(* What the proofs about amounts, fees, rewards and work need to know of   *)
(* sums, and of rewards that are halved from era to era.  Induction is by  *)
(* least counterexample: the natural numbers are well founded (WFMin), so  *)
(* the sizes of the finite sets for which a claim fails have a least       *)
(* element.  Claims are given as sets, not operators.                      *)
(***************************************************************************)
EXTENDS Sums, FiniteSetTheorems, WellFoundedInduction, TLAPS

(* A nonempty set of natural numbers has a least element.                  *)
LEMMA LeastNumber ==
    ASSUME NEW T \in SUBSET Nat, T # {}
    PROVE  \E m \in T : \A k \in T : m <= k
<1>1. IsWellFoundedOn(OpToRel(<, Nat), Nat)
  BY NatLessThanWellFounded
<1>2. PICK m \in T : \A k \in T : ~(<<k, m>> \in OpToRel(<, Nat))
  BY <1>1, WFMin
<1>3. \A k \in T : ~(k < m)
  BY <1>2 DEF OpToRel
<1> QED
  BY <1>3

(* Induction: a set that holds 0 and, with a number, the next one, holds   *)
(* every natural number.                                                   *)
LEMMA NatSetInduction ==
    ASSUME NEW P, 0 \in P, \A n \in Nat : n \in P => n + 1 \in P
    PROVE  \A n \in Nat : n \in P
<1> SUFFICES ASSUME Nat \ P # {} PROVE FALSE
  OBVIOUS
<1>1. PICK m \in Nat \ P : \A k \in Nat \ P : m <= k
  BY LeastNumber
<1>2. m # 0 /\ m - 1 \in Nat /\ m - 1 \in P
  BY <1>1
<1>3. (m - 1) + 1 \in P
  BY <1>2
<1> QED
  BY <1>1, <1>3

(* Among subsets of a finite set there is a smallest.                      *)
LEMMA SmallestSet ==
    ASSUME NEW S, IsFiniteSet(S), NEW Q, Q \subseteq SUBSET S, Q # {}
    PROVE  \E s \in Q : \A x \in s : s \ {x} \notin Q
<1> DEFINE Sizes == {Cardinality(s) : s \in Q}
<1>1. \A s \in Q : IsFiniteSet(s) /\ Cardinality(s) \in Nat
  BY FS_Subset, FS_CardinalityType
<1>2. PICK m \in Sizes : \A k \in Sizes : m <= k
  <2>1. Sizes \in SUBSET Nat /\ Sizes # {}
    BY <1>1
  <2> HIDE DEF Sizes
  <2> QED
    BY <2>1, LeastNumber
<1>3. PICK s \in Q : Cardinality(s) = m
  BY <1>2
<1>4. ASSUME NEW x \in s, s \ {x} \in Q PROVE FALSE
  <2>1. Cardinality(s \ {x}) = m - 1
    BY <1>1, <1>3, <1>4, FS_RemoveElement
  <2>2. m <= m - 1 /\ m \in Nat
    BY <1>1, <1>2, <1>3, <1>4, <2>1
  <2> QED
    BY <2>2
<1> QED
  BY <1>3, <1>4

(* Induction over a finite set, one element at a time.                     *)
LEMMA FiniteSetInduction ==
    ASSUME NEW S, IsFiniteSet(S), NEW P,
           {} \in P,
           \A T \in SUBSET S : \A x \in S \ T : T \in P => T \cup {x} \in P
    PROVE  S \in P
<1> DEFINE Q == {s \in SUBSET S : s \notin P}
<1> SUFFICES ASSUME S \notin P PROVE FALSE
  OBVIOUS
<1>1. Q # {} /\ Q \subseteq SUBSET S
  OBVIOUS
<1>2. PICK s \in Q : \A x \in s : s \ {x} \notin Q
  <2> HIDE DEF Q
  <2> QED  BY <1>1, SmallestSet
<1>3. PICK x \in s : TRUE
  BY <1>2
<1>4. s \ {x} \in P /\ s \ {x} \in SUBSET S /\ x \in S \ (s \ {x})
  BY <1>2, <1>3
<1>5. (s \ {x}) \cup {x} = s
  BY <1>3
<1> QED
  BY <1>2, <1>4, <1>5

(* A nonempty finite set of natural numbers has a greatest element.        *)
LEMMA GreatestNumber ==
    ASSUME NEW T \in SUBSET Nat, IsFiniteSet(T), T # {}
    PROVE  \E m \in T : \A k \in T : k <= m
<1> DEFINE P == {s \in SUBSET T : s # {} => \E m \in s : \A k \in s : k <= m}
<1>1. {} \in P
  OBVIOUS
<1>2. ASSUME NEW s \in SUBSET T, NEW x \in T \ s, s \in P PROVE s \cup {x} \in P
  <2>1. CASE s = {}
    BY <2>1
  <2>2. CASE s # {}
    <3>1. PICK m \in s : \A k \in s : k <= m
      BY <1>2, <2>2
    <3>2. CASE x <= m
      BY <3>1, <3>2
    <3>3. CASE ~(x <= m)
      <4>1. \A k \in s \cup {x} : k <= x
        BY <3>1, <3>3
      <4> QED
        BY <4>1
    <3> QED
      BY <3>2, <3>3
  <2> QED
    BY <2>1, <2>2
<1>3. T \in P
  <2> HIDE DEF P
  <2> QED
    BY <1>1, <1>2, FiniteSetInduction
<1> QED
  BY <1>3

--------------------------------------------------------------------------------
(* Recursion over the natural numbers up to N: the n-th value is made by   *)
(* the n-th step, which stays in X, from the one before.                   *)
StaysIn(X, F, N) == \A n \in 1..N : \A x \in X : F[n][x] \in X

Follows(g, x0, F, N) == g[0] = x0 /\ \A n \in 1..N : g[n] = F[n][g[n - 1]]

(* There are such values.                                                  *)
LEMMA RecursionExists ==
    ASSUME NEW X, NEW x0 \in X, NEW N \in Nat, NEW F, StaysIn(X, F, N)
    PROVE  \E g \in [0..N -> X] : Follows(g, x0, F, N)
<1> DEFINE P == {k \in Nat : k <= N => \E g \in [0..N -> X] : Follows(g, x0, F, k)}
<1>1. 0 \in P
  <2> DEFINE g == [n \in 0..N |-> x0]
  <2>1. g \in [0..N -> X] /\ g[0] = x0
    OBVIOUS
  <2>2. Follows(g, x0, F, 0)
    BY <2>1 DEF Follows
  <2> QED
    BY <2>1, <2>2
<1>2. ASSUME NEW k \in Nat, k \in P PROVE k + 1 \in P
  <2> SUFFICES ASSUME k + 1 <= N PROVE \E g \in [0..N -> X] : Follows(g, x0, F, k + 1)
    OBVIOUS
  <2>1. PICK f \in [0..N -> X] : Follows(f, x0, F, k)
    BY <1>2
  <2> DEFINE g == [f EXCEPT ![k + 1] = F[k + 1][f[k]]]
  <2>2. k \in 0..N /\ k + 1 \in 1..N /\ k + 1 \in 0..N /\ f[k] \in X
    OBVIOUS
  <2>3. F[k + 1][f[k]] \in X
    BY <2>2 DEF StaysIn
  <2>4. g \in [0..N -> X]
    BY <2>3
  <2>5. \A n \in 0..N : g[n] = IF n = k + 1 THEN F[k + 1][f[k]] ELSE f[n]
    OBVIOUS
  <2> HIDE DEF g
  <2>6. g[0] = x0
    BY <2>1, <2>5 DEF Follows
  <2>7. ASSUME NEW n \in 1..(k + 1) PROVE g[n] = F[n][g[n - 1]]
    <3>1. n \in 0..N /\ n - 1 \in 0..N /\ n - 1 # k + 1
      OBVIOUS
    <3>2. g[n - 1] = f[n - 1]
      BY <2>5, <3>1
    <3>3. CASE n = k + 1
      <4>1. n - 1 = k
        BY <3>3
      <4> QED
        BY <2>5, <3>1, <3>2, <3>3, <4>1
    <3>4. CASE n # k + 1
      <4>1. n \in 1..k
        BY <3>4
      <4> QED
        BY <2>1, <2>5, <3>1, <3>2, <3>4, <4>1 DEF Follows
    <3> QED
      BY <3>3, <3>4
  <2> QED
    BY <2>4, <2>6, <2>7 DEF Follows
<1> HIDE DEF P
<1>3. N \in P
  BY <1>1, <1>2, NatSetInduction
<1> QED
  BY <1>3 DEF P

--------------------------------------------------------------------------------
(* The recursion behind a sum.                                             *)
SumPick(s) == CHOOSE x \in s : TRUE

SumNext(f, g, s) == IF s = {} THEN 0 ELSE f[SumPick(s)] + g[s \ {SumPick(s)}]

IsAdder(f, g, D) == g = [s \in D |-> SumNext(f, g, s)]

LEMMA SumPickIn ==
    ASSUME NEW s, s # {}
    PROVE  SumPick(s) \in s
BY DEF SumPick

LEMMA SumIsAnAdder ==
    ASSUME NEW f, NEW S
    PROVE  SumOver(f, S) = (CHOOSE g : IsAdder(f, g, SUBSET S))[S]
BY DEF SumOver, MapThenSumSet, MapThenFoldSet, IsAdder, SumNext, SumPick

LEMMA AdderExists ==
    ASSUME NEW f, NEW S, IsFiniteSet(S)
    PROVE  \E g : IsAdder(f, g, SUBSET S)
<1> DEFINE Small(n) == {s \in SUBSET S : Cardinality(s) <= n}
           P == {n \in Nat : \E g : IsAdder(f, g, Small(n))}
<1>1. \A s \in SUBSET S : IsFiniteSet(s) /\ Cardinality(s) \in Nat
  BY FS_Subset, FS_CardinalityType
<1>2. 0 \in P
  <2>1. \A s \in Small(0) : s = {}
    BY <1>1, FS_EmptySet
  <2>2. IsAdder(f, [s \in Small(0) |-> 0], Small(0))
    BY <2>1 DEF IsAdder, SumNext
  <2> QED
    BY <2>2
<1>3. ASSUME NEW n \in Nat, n \in P PROVE n + 1 \in P
  <2>1. PICK g : IsAdder(f, g, Small(n))
    BY <1>3
  <2> DEFINE h == [s \in Small(n + 1) |-> SumNext(f, g, s)]
  <2>2. \A s \in Small(n) : s \in Small(n + 1) /\ h[s] = g[s]
    BY <1>1, <2>1 DEF IsAdder
  <2>3. \A s \in Small(n + 1) : s # {} => s \ {SumPick(s)} \in Small(n)
    <3> SUFFICES ASSUME NEW s \in Small(n + 1), s # {}
                 PROVE  s \ {SumPick(s)} \in Small(n)
      OBVIOUS
    <3>1. SumPick(s) \in s
      BY SumPickIn
    <3>2. Cardinality(s \ {SumPick(s)}) = Cardinality(s) - 1
      BY <1>1, <3>1, FS_RemoveElement
    <3> QED
      BY <1>1, <3>2
  <2>4. \A s \in Small(n + 1) : SumNext(f, g, s) = SumNext(f, h, s)
    BY <2>2, <2>3 DEF SumNext
  <2>5. IsAdder(f, h, Small(n + 1))
    BY <2>4 DEF IsAdder
  <2>6. \E k : IsAdder(f, k, Small(n + 1))
    <3> HIDE DEF h, Small
    <3> QED
      BY <2>5
  <2> QED
    BY <2>6
<1>4. Cardinality(S) \in P
  <2> HIDE DEF P
  <2> QED  BY <1>1, <1>2, <1>3, NatSetInduction
<1>5. Small(Cardinality(S)) = SUBSET S
  BY FS_Subset, FS_CardinalityType
<1> QED
  BY <1>4, <1>5

LEMMA AddersAgree ==
    ASSUME NEW f, NEW S, IsFiniteSet(S), NEW T \in SUBSET S, NEW g, NEW h,
           IsAdder(f, g, SUBSET S), IsAdder(f, h, SUBSET T)
    PROVE  g[T] = h[T]
<1> DEFINE Q == {s \in SUBSET T : g[s] # h[s]}
<1> SUFFICES ASSUME Q # {} PROVE FALSE
  OBVIOUS
<1>1. PICK s \in Q : \A x \in s : s \ {x} \notin Q
  <2>1. IsFiniteSet(T) /\ Q \subseteq SUBSET T
    BY FS_Subset
  <2> HIDE DEF Q
  <2> QED  BY <2>1, SmallestSet
<1>2. g[s] = SumNext(f, g, s) /\ h[s] = SumNext(f, h, s)
  BY <1>1 DEF IsAdder
<1>3. s # {}
  BY <1>1, <1>2 DEF SumNext
<1>4. SumPick(s) \in s
  BY <1>3, SumPickIn
<1>5. g[s \ {SumPick(s)}] = h[s \ {SumPick(s)}]
  BY <1>1, <1>4
<1> QED
  BY <1>1, <1>2, <1>5 DEF SumNext

(* A sum by its own recursion.                                             *)
LEMMA SumStep ==
    ASSUME NEW f, NEW S, IsFiniteSet(S)
    PROVE  /\ S = {} => SumOver(f, S) = 0
           /\ S # {} => SumOver(f, S) = f[SumPick(S)] + SumOver(f, S \ {SumPick(S)})
<1> DEFINE g == CHOOSE g : IsAdder(f, g, SUBSET S)
           R == S \ {SumPick(S)}
           h == CHOOSE h : IsAdder(f, h, SUBSET R)
<1>1. IsAdder(f, g, SUBSET S) /\ SumOver(f, S) = g[S]
  BY AdderExists, SumIsAnAdder
<1>2. IsFiniteSet(R)
  BY FS_Subset
<1>3. IsAdder(f, h, SUBSET R) /\ SumOver(f, R) = h[R]
  BY <1>2, AdderExists, SumIsAnAdder
<1> HIDE DEF g, h
<1>4. g[R] = h[R]
  BY <1>1, <1>3, AddersAgree
<1>5. g[S] = SumNext(f, g, S)
  BY <1>1 DEF IsAdder
<1> QED
  BY <1>1, <1>3, <1>4, <1>5 DEF SumNext

--------------------------------------------------------------------------------
(* What is used of sums elsewhere.                                         *)

(* The empty sum is 0.                                                     *)
LEMMA SumEmpty ==
    ASSUME NEW f
    PROVE  SumOver(f, {}) = 0
BY SumStep, FS_EmptySet

(* A sum of integers is an integer.                                        *)
LEMMA SumInt ==
    ASSUME NEW S, IsFiniteSet(S), NEW f, \A x \in S : f[x] \in Int
    PROVE  SumOver(f, S) \in Int
<1> DEFINE Q == {s \in SUBSET S : SumOver(f, s) \notin Int}
<1> SUFFICES ASSUME Q # {} PROVE FALSE
  OBVIOUS
<1>1. PICK s \in Q : \A x \in s : s \ {x} \notin Q
  <2>1. Q \subseteq SUBSET S
    OBVIOUS
  <2> HIDE DEF Q
  <2> QED  BY <2>1, SmallestSet
<1>2. IsFiniteSet(s) /\ s # {}
  <2>1. SumOver(f, s) \notin Int /\ SumOver(f, {}) \in Int
    BY <1>1, SumEmpty
  <2> QED
    BY <1>1, <2>1, FS_Subset
<1>3. SumPick(s) \in s
  BY <1>2, SumPickIn
<1>4. SumOver(f, s \ {SumPick(s)}) \in Int /\ f[SumPick(s)] \in Int
  BY <1>1, <1>3
<1> QED
  BY <1>1, <1>2, <1>4, SumStep

(* Any element may be taken out first.                                     *)
LEMMA SumTakeOut ==
    ASSUME NEW S, IsFiniteSet(S), NEW f, \A x \in S : f[x] \in Int, NEW x \in S
    PROVE  SumOver(f, S) = f[x] + SumOver(f, S \ {x})
<1> DEFINE Q == {s \in SUBSET S : \E y \in s : SumOver(f, s) # f[y] + SumOver(f, s \ {y})}
<1> SUFFICES ASSUME Q # {} PROVE FALSE
  OBVIOUS
<1>1. PICK s \in Q : \A y \in s : s \ {y} \notin Q
  <2>1. Q \subseteq SUBSET S
    OBVIOUS
  <2> HIDE DEF Q
  <2> QED  BY <2>1, SmallestSet
<1>2. PICK y \in s : SumOver(f, s) # f[y] + SumOver(f, s \ {y})
  BY <1>1
<1> DEFINE c == SumPick(s)
<1>3. IsFiniteSet(s) /\ c \in s /\ s \in SUBSET S
  BY <1>1, <1>2, FS_Subset, SumPickIn
<1> HIDE DEF c
<1>4. SumOver(f, s) = f[c] + SumOver(f, s \ {c})
  BY <1>3, SumStep DEF c
<1>5. c # y
  BY <1>2, <1>4
<1>6. /\ SumOver(f, s \ {c}) = f[y] + SumOver(f, (s \ {c}) \ {y})
      /\ SumOver(f, s \ {y}) = f[c] + SumOver(f, (s \ {y}) \ {c})
  <2>1. s \ {c} \notin Q /\ s \ {y} \notin Q
    BY <1>1, <1>2, <1>3
  <2>2. s \ {c} \in SUBSET S /\ y \in s \ {c}
    BY <1>2, <1>3, <1>5
  <2>3. s \ {y} \in SUBSET S /\ c \in s \ {y}
    BY <1>2, <1>3, <1>5
  <2> QED
    BY <2>1, <2>2, <2>3
<1>7. (s \ {c}) \ {y} = (s \ {y}) \ {c}
  OBVIOUS
<1>8. SumOver(f, (s \ {y}) \ {c}) \in Int /\ f[c] \in Int /\ f[y] \in Int
  <2>1. IsFiniteSet((s \ {y}) \ {c})
    BY <1>3, FS_Subset
  <2> QED
    BY <1>2, <1>3, <2>1, SumInt
<1> DEFINE rest == SumOver(f, (s \ {y}) \ {c})
<1>9. /\ SumOver(f, s) = f[c] + (f[y] + rest)
      /\ SumOver(f, s \ {y}) = f[c] + rest
      /\ rest \in Int
  BY <1>4, <1>6, <1>7, <1>8
<1> HIDE DEF rest
<1> QED
  BY <1>2, <1>8, <1>9

(* One element more.                                                       *)
LEMMA SumAdd ==
    ASSUME NEW S, IsFiniteSet(S), NEW x, x \notin S, NEW f,
           \A y \in S \cup {x} : f[y] \in Int
    PROVE  SumOver(f, S \cup {x}) = SumOver(f, S) + f[x]
<1>1. IsFiniteSet(S \cup {x})
  BY FS_AddElement
<1>2. SumOver(f, S \cup {x}) = f[x] + SumOver(f, (S \cup {x}) \ {x})
  BY <1>1, SumTakeOut
<1>3. (S \cup {x}) \ {x} = S
  OBVIOUS
<1>4. SumOver(f, S) \in Int /\ f[x] \in Int
  BY SumInt
<1>5. SumOver(f, S \cup {x}) = f[x] + SumOver(f, S)
  BY <1>2, <1>3
<1> QED
  BY <1>4, <1>5

(* Only the values on the set count.                                       *)
LEMMA SumSame ==
    ASSUME NEW S, IsFiniteSet(S), NEW f, NEW g, \A x \in S : f[x] = g[x]
    PROVE  SumOver(f, S) = SumOver(g, S)
<1> DEFINE Q == {s \in SUBSET S : SumOver(f, s) # SumOver(g, s)}
<1> SUFFICES ASSUME Q # {} PROVE FALSE
  OBVIOUS
<1>1. PICK s \in Q : \A x \in s : s \ {x} \notin Q
  <2>1. Q \subseteq SUBSET S
    OBVIOUS
  <2> HIDE DEF Q
  <2> QED  BY <2>1, SmallestSet
<1>2. IsFiniteSet(s) /\ s # {}
  BY <1>1, FS_Subset, SumEmpty
<1>3. SumPick(s) \in s
  BY <1>2, SumPickIn
<1>4. SumOver(f, s \ {SumPick(s)}) = SumOver(g, s \ {SumPick(s)}) /\ f[SumPick(s)] = g[SumPick(s)]
  BY <1>1, <1>3
<1> QED
  BY <1>1, <1>2, <1>4, SumStep

(* Two sets with nothing in common.                                        *)
LEMMA SumUnion ==
    ASSUME NEW S, IsFiniteSet(S), NEW T, IsFiniteSet(T), S \cap T = {}, NEW f,
           \A x \in S \cup T : f[x] \in Int
    PROVE  SumOver(f, S \cup T) = SumOver(f, S) + SumOver(f, T)
<1> DEFINE P == {s \in SUBSET T : SumOver(f, S \cup s) = SumOver(f, S) + SumOver(f, s)}
<1>1. {} \in P
  <2>1. S \cup {} = S /\ SumOver(f, {}) = 0 /\ SumOver(f, S) \in Int
    BY SumEmpty, SumInt
  <2> QED  BY <2>1
<1>2. ASSUME NEW s \in SUBSET T, NEW x \in T \ s, s \in P
      PROVE  s \cup {x} \in P
  <2>1. IsFiniteSet(s) /\ IsFiniteSet(S \cup s)
    BY FS_Subset, FS_Union
  <2>2. SumOver(f, s \cup {x}) = SumOver(f, s) + f[x]
    BY <2>1, SumAdd
  <2>3. SumOver(f, (S \cup s) \cup {x}) = SumOver(f, S \cup s) + f[x]
    <3>1. x \notin S \cup s
      OBVIOUS
    <3> QED
      BY <2>1, <3>1, SumAdd
  <2>4. SumOver(f, S) \in Int /\ SumOver(f, s) \in Int /\ f[x] \in Int
    BY <2>1, SumInt
  <2>5. S \cup (s \cup {x}) = (S \cup s) \cup {x}
    OBVIOUS
  <2>6. SumOver(f, S \cup s) = SumOver(f, S) + SumOver(f, s)
    BY <1>2
  <2>7. SumOver(f, S \cup (s \cup {x})) = SumOver(f, S) + SumOver(f, s \cup {x})
    <3>1. SumOver(f, S \cup (s \cup {x})) = (SumOver(f, S) + SumOver(f, s)) + f[x]
      BY <2>3, <2>5, <2>6
    <3> QED
      BY <2>2, <2>4, <3>1
  <2> QED
    BY <2>7
<1>3. T \in P
  <2> HIDE DEF P
  <2> QED  BY <1>1, <1>2, FiniteSetInduction
<1> QED
  BY <1>3

(* Summand by summand.                                                     *)
LEMMA SumMonotone ==
    ASSUME NEW S, IsFiniteSet(S), NEW f, NEW g,
           \A x \in S : f[x] \in Int /\ g[x] \in Int /\ f[x] <= g[x]
    PROVE  SumOver(f, S) <= SumOver(g, S)
<1> DEFINE P == {s \in SUBSET S : SumOver(f, s) <= SumOver(g, s)}
<1>1. {} \in P
  BY SumEmpty
<1>2. ASSUME NEW s \in SUBSET S, NEW x \in S \ s, s \in P
      PROVE  s \cup {x} \in P
  <2>1. IsFiniteSet(s)
    BY FS_Subset
  <2>2. /\ SumOver(f, s \cup {x}) = SumOver(f, s) + f[x]
        /\ SumOver(g, s \cup {x}) = SumOver(g, s) + g[x]
        /\ SumOver(f, s) \in Int /\ SumOver(g, s) \in Int
    BY <2>1, SumAdd, SumInt
  <2> QED
    BY <1>2, <2>2
<1>3. S \in P
  <2> HIDE DEF P
  <2> QED  BY <1>1, <1>2, FiniteSetInduction
<1> QED
  BY <1>3

(* A sum of natural numbers is one.                                        *)
LEMMA SumNat ==
    ASSUME NEW S, IsFiniteSet(S), NEW f, \A x \in S : f[x] \in Nat
    PROVE  SumOver(f, S) \in Nat
<1> DEFINE P == {s \in SUBSET S : SumOver(f, s) \in Nat}
<1>1. {} \in P
  BY SumEmpty
<1>2. ASSUME NEW s \in SUBSET S, NEW x \in S \ s, s \in P
      PROVE  s \cup {x} \in P
  <2>1. IsFiniteSet(s)
    BY FS_Subset
  <2>2. SumOver(f, s \cup {x}) = SumOver(f, s) + f[x]
    <3>1. \A y \in s \cup {x} : f[y] \in Int
      OBVIOUS
    <3> QED
      BY <2>1, <3>1, SumAdd
  <2> QED
    BY <1>2, <2>2
<1>3. S \in P
  <2> HIDE DEF P
  <2> QED  BY <1>1, <1>2, FiniteSetInduction
<1> QED
  BY <1>3

(* A part is at most the whole.                                            *)
LEMMA SumPart ==
    ASSUME NEW S, IsFiniteSet(S), NEW T \in SUBSET S, NEW f,
           \A x \in S : f[x] \in Nat
    PROVE  SumOver(f, T) <= SumOver(f, S)
<1>1. IsFiniteSet(T) /\ IsFiniteSet(S \ T)
  BY FS_Subset
<1>2. SumOver(f, T \cup (S \ T)) = SumOver(f, T) + SumOver(f, S \ T)
  <2>1. \A x \in T \cup (S \ T) : f[x] \in Int
    OBVIOUS
  <2>2. T \cap (S \ T) = {}
    OBVIOUS
  <2> QED
    BY <1>1, <2>1, <2>2, SumUnion
<1>3. SumOver(f, T) \in Nat /\ SumOver(f, S \ T) \in Nat
  BY <1>1, SumNat
<1>4. T \cup (S \ T) = S
  OBVIOUS
<1>5. SumOver(f, S) = SumOver(f, T) + SumOver(f, S \ T)
  BY <1>2, <1>4
<1> QED
  BY <1>3, <1>5

(* The same amounts under other names.                                     *)
LEMMA SumRenamed ==
    ASSUME NEW S, IsFiniteSet(S), NEW h, NEW f, NEW g,
           \A x \in S : f[x] \in Int /\ g[h[x]] = f[x],
           \A x, y \in S : h[x] = h[y] => x = y
    PROVE  /\ IsFiniteSet({h[x] : x \in S})
           /\ SumOver(g, {h[x] : x \in S}) = SumOver(f, S)
<1> DEFINE Image(s) == {h[x] : x \in s}
           P == {s \in SUBSET S : /\ IsFiniteSet(Image(s))
                                  /\ SumOver(g, Image(s)) = SumOver(f, s)}
<1>1. {} \in P
  <2>1. Image({}) = {}
    OBVIOUS
  <2> HIDE DEF Image
  <2> QED  BY <2>1, SumEmpty, FS_EmptySet
<1>2. ASSUME NEW s \in SUBSET S, NEW x \in S \ s, s \in P
      PROVE  s \cup {x} \in P
  <2>1. IsFiniteSet(s)
    BY FS_Subset
  <2>2. IsFiniteSet(Image(s)) /\ SumOver(g, Image(s)) = SumOver(f, s)
    BY <1>2
  <2>3. Image(s \cup {x}) = Image(s) \cup {h[x]}
    OBVIOUS
  <2>4. h[x] \notin Image(s)
    OBVIOUS
  <2>5. /\ \A y \in Image(s) \cup {h[x]} : g[y] \in Int
        /\ g[h[x]] = f[x]
    OBVIOUS
  <2> HIDE DEF Image
  <2>6. SumOver(g, Image(s) \cup {h[x]}) = SumOver(g, Image(s)) + g[h[x]]
    BY <2>2, <2>4, <2>5, SumAdd
  <2>8. IsFiniteSet(Image(s) \cup {h[x]})
    BY <2>2, FS_AddElement
  <2>7. SumOver(f, s \cup {x}) = SumOver(f, s) + f[x]
    BY <2>1, SumAdd
  <2> QED
    BY <2>2, <2>3, <2>5, <2>6, <2>7, <2>8
<1>3. S \in P
  <2> HIDE DEF P
  <2> QED  BY <1>1, <1>2, FiniteSetInduction
<1> QED
  BY <1>3

(* A sum over an interval grows by its last term.                          *)
LEMMA SumInterval ==
    ASSUME NEW a \in Int, NEW n \in Int, a <= n + 1, NEW f,
           \A i \in a..(n + 1) : f[i] \in Int
    PROVE  SumOver(f, a..(n + 1)) = SumOver(f, a..n) + f[n + 1]
<1>1. a..(n + 1) = (a..n) \cup {n + 1} /\ n + 1 \notin a..n
  OBVIOUS
<1>2. IsFiniteSet(a..n)
  BY FS_Interval
<1> DEFINE S == a..n
           x == n + 1
<1>3. \A i \in S \cup {x} : f[i] \in Int
  BY <1>1
<1>4. a..(n + 1) = S \cup {x} /\ x \notin S /\ IsFiniteSet(S)
  BY <1>1, <1>2
<1> HIDE DEF S, x
<1>5. SumOver(f, S \cup {x}) = SumOver(f, S) + f[x]
  BY <1>3, <1>4, SumAdd
<1> QED
  BY <1>4, <1>5 DEF S, x

(***************************************************************************)
(* Eras.                                                                   *)
(***************************************************************************)

(* What the recursive definition of a reward asks: it is halved from era   *)
(* to era, up to era N.                                                    *)
IsHalving(f, s, N) ==
    f = [e \in 0..N |-> IF e = 0 THEN s ELSE f[e - 1] \div 2]

(* There is such a reward.                                                 *)
LEMMA HalvingsExist ==
    ASSUME NEW s, NEW N \in Nat
    PROVE  \E f : IsHalving(f, s, N)
<1> DEFINE P == {n \in Nat :
                   \E f : f = [e \in 0..n |-> IF e = 0 THEN s ELSE f[e - 1] \div 2]}
<1>1. 0 \in P
  <2> DEFINE f == [e \in 0..0 |-> s]
  <2>1. f = [e \in 0..0 |-> IF e = 0 THEN s ELSE f[e - 1] \div 2]
    OBVIOUS
  <2> QED
    BY <2>1
<1>2. ASSUME NEW n \in Nat, n \in P PROVE n + 1 \in P
  <2>1. PICK f : f = [e \in 0..n |-> IF e = 0 THEN s ELSE f[e - 1] \div 2]
    BY <1>2
  <2> DEFINE g == [e \in 0..(n + 1) |-> IF e = n + 1 THEN f[n] \div 2 ELSE f[e]]
             h == [e \in 0..(n + 1) |-> IF e = 0 THEN s ELSE g[e - 1] \div 2]
  <2>2. ASSUME NEW e \in 0..(n + 1) PROVE g[e] = h[e]
    <3>1. CASE e = n + 1
      <4>1. e # 0 /\ e - 1 = n /\ n \in 0..(n + 1) /\ n # n + 1
        BY <3>1
      <4>2. g[e - 1] = f[n]
        BY <4>1
      <4> QED
        BY <3>1, <4>1, <4>2
    <3>2. CASE e = 0
      <4>1. e # n + 1 /\ e \in 0..n
        BY <3>2
      <4>2. f[e] = s
        BY <2>1, <3>2, <4>1
      <4> QED
        BY <3>2, <4>1, <4>2
    <3>3. CASE e # 0 /\ e # n + 1
      <4>1. e \in 0..n /\ e - 1 \in 0..(n + 1) /\ e - 1 # n + 1
        BY <3>3
      <4>2. f[e] = f[e - 1] \div 2
        BY <2>1, <3>3, <4>1
      <4>3. g[e - 1] = f[e - 1]
        BY <4>1
      <4> QED
        BY <3>3, <4>1, <4>2, <4>3
    <3> QED
      BY <3>1, <3>2, <3>3
  <2>3. g = h
    BY <2>2
  <2>4. \E k : k = [e \in 0..(n + 1) |-> IF e = 0 THEN s ELSE k[e - 1] \div 2]
    <3> HIDE DEF g
    <3> QED
      BY <2>3
  <2> QED
    BY <2>4
<1> HIDE DEF P
<1>3. N \in P
  BY <1>1, <1>2, NatSetInduction
<1> QED
  BY <1>3 DEF P, IsHalving

(* The solution holds natural numbers.                                     *)
LEMMA HalvingsType ==
    ASSUME NEW s \in Nat, NEW N \in Nat, NEW f, IsHalving(f, s, N)
    PROVE  /\ f \in [0..N -> Nat]
           /\ f[0] = s
           /\ \A e \in 0..N : e + 1 \in 0..N => f[e + 1] = f[e] \div 2
<1>f. f = [e \in 0..N |-> IF e = 0 THEN s ELSE f[e - 1] \div 2]
  BY DEF IsHalving
<1> DEFINE P == {n \in Nat : n \in 0..N => f[n] \in Nat}
<1>1. f[0] = s
  <2>1. 0 \in 0..N
    OBVIOUS
  <2> QED
    BY <1>f, <2>1
<1>2. ASSUME NEW e \in 0..N, e + 1 \in 0..N PROVE f[e + 1] = f[e] \div 2
  <2>1. e + 1 # 0 /\ (e + 1) - 1 = e
    OBVIOUS
  <2> QED
    BY <1>f, <1>2, <2>1
<1>3. 0 \in P
  BY <1>1
<1>4. ASSUME NEW n \in Nat, n \in P PROVE n + 1 \in P
  <2> SUFFICES ASSUME n + 1 \in 0..N PROVE f[n + 1] \in Nat
    OBVIOUS
  <2>1. n \in 0..N
    OBVIOUS
  <2>2. f[n] \in Nat
    BY <1>4, <2>1
  <2>3. f[n] \div 2 \in Nat
    BY <2>2
  <2> QED
    BY <1>2, <2>1, <2>3
<1>5. \A n \in Nat : n \in P
  <2> HIDE DEF P
  <2> QED
    BY <1>3, <1>4, NatSetInduction
<1>6. ASSUME NEW e \in 0..N PROVE f[e] \in Nat
  <2>1. e \in Nat
    OBVIOUS
  <2> QED
    BY <1>5, <2>1
<1>7. f = [e \in 0..N |-> f[e]]
  BY <1>f
<1> HIDE DEF P
<1>8. f \in [0..N -> Nat]
  <2> DEFINE g == [e \in 0..N |-> f[e]]
  <2>1. g \in [0..N -> Nat]
    BY <1>6
  <2> HIDE DEF g
  <2> QED
    BY <1>7, <2>1 DEF g
<1> QED
  BY <1>1, <1>2, <1>8

(* The next height stays in its era or opens the next one.                 *)
LEMMA NextEra ==
    ASSUME NEW I \in Nat \ {0}, NEW h \in Nat
    PROVE  LET q == h \div I
           IN  /\ q \in Nat
               /\ q * I <= h /\ h < (q + 1) * I
               /\ h + 1 < (q + 1) * I => (h + 1) \div I = q
               /\ h + 1 = (q + 1) * I => (h + 1) \div I = q + 1
               /\ h + 1 < (q + 1) * I \/ h + 1 = (q + 1) * I
<1> DEFINE q == h \div I
           r == h % I
<1>1. q \in Nat /\ r \in 0..(I - 1) /\ h = I * q + r
  OBVIOUS
<1> HIDE DEF q, r
<1>2. I * q = q * I /\ (q + 1) * I = q * I + I /\ q * I \in Nat
  BY <1>1
<1>3. q * I <= h /\ h < (q + 1) * I
  BY <1>1, <1>2
<1>4. ASSUME NEW k \in Nat, k * I <= h + 1, h + 1 < (k + 1) * I
      PROVE  (h + 1) \div I = k
  BY <1>4
<1> QED
  BY <1>1, <1>2, <1>3, <1>4 DEF q

(***************************************************************************)
(* Rewards in eras of I blocks: r[e] is the reward of a block of era e,    *)
(* and from era M on nothing is paid.                                      *)
(***************************************************************************)
RewardAt(r, M, I, h) == IF h \div I >= M THEN 0 ELSE r[h \div I]

PaidBefore(r, M, I, n) == SumOver([era \in 0..M |-> r[era] * I], 0..(n - 1))

PaidUpTo(r, M, I, h) ==
    IF h \div I >= M THEN PaidBefore(r, M, I, M)
    ELSE PaidBefore(r, M, I, h \div I) + RewardAt(r, M, I, h) * (h - (h \div I) * I + 1)

LEMMA EraIs ==
    ASSUME NEW I \in Nat \ {0}, NEW x \in Nat, NEW k \in Nat, k * I <= x, x < (k + 1) * I
    PROVE  x \div I = k
OBVIOUS

LEMMA RewardType ==
    ASSUME NEW I \in Nat \ {0}, NEW M \in Nat, NEW r \in [0..M -> Nat], NEW h \in Nat
    PROVE  h \div I \in Nat /\ RewardAt(r, M, I, h) \in Nat
<1>1. h \div I \in Nat
  BY NextEra
<1>2. CASE h \div I >= M
  BY <1>1, <1>2 DEF RewardAt
<1>3. CASE ~(h \div I >= M)
  <2>1. h \div I \in 0..M
    BY <1>1, <1>3
  <2> QED
    BY <1>1, <1>3, <2>1 DEF RewardAt
<1> QED
  BY <1>2, <1>3

LEMMA WholeEras ==
    ASSUME NEW I \in Nat \ {0}, NEW M \in Nat, NEW r \in [0..M -> Nat]
    PROVE  /\ PaidBefore(r, M, I, 0) = 0
           /\ \A n \in 0..M :
                 /\ PaidBefore(r, M, I, n) \in Nat
                 /\ PaidBefore(r, M, I, n + 1) = PaidBefore(r, M, I, n) + r[n] * I
<1> DEFINE f == [era \in 0..M |-> r[era] * I]
           E(n) == PaidBefore(r, M, I, n)
<1>1. \A e \in 0..M : f[e] \in Nat /\ f[e] = r[e] * I
  <2> SUFFICES ASSUME NEW e \in 0..M PROVE r[e] * I \in Nat
    OBVIOUS
  <2> DEFINE x == r[e]
  <2>1. x \in Nat
    OBVIOUS
  <2> HIDE DEF x
  <2>2. x * I \in Nat
    BY <2>1
  <2> QED
    BY <2>2 DEF x
<1>2. \A n : E(n) = SumOver(f, 0..(n - 1))
  BY DEF PaidBefore
<1> HIDE DEF f, E
<1>3. E(0) = 0
  <2>1. 0..(0 - 1) = {}
    OBVIOUS
  <2> QED
    BY <1>2, <2>1, SumEmpty
<1>4. ASSUME NEW n \in 0..M
      PROVE  E(n) \in Nat /\ E(n + 1) = E(n) + r[n] * I
  <2> DEFINE m == n - 1
  <2>1. m \in Int /\ 0 <= m + 1 /\ m + 1 = n /\ n \in Nat /\ (n + 1) - 1 = m + 1
    OBVIOUS
  <2>2. \A i \in 0..(m + 1) : f[i] \in Nat /\ f[i] \in Int
    <3> SUFFICES ASSUME NEW i \in 0..(m + 1) PROVE i \in 0..M
      BY <1>1
    <3> QED
      BY <2>1
  <2>3. \A i \in 0..m : i \in 0..(m + 1)
    BY <2>1
  <2>4. E(n) = SumOver(f, 0..m) /\ E(n + 1) = SumOver(f, 0..(m + 1))
    BY <1>2, <2>1
  <2> HIDE DEF m
  <2>5. SumOver(f, 0..m) \in Nat
    <3>1. IsFiniteSet(0..m)
      BY <2>1, FS_Interval
    <3> QED
      BY <2>2, <2>3, <3>1, SumNat
  <2>6. SumOver(f, 0..(m + 1)) = SumOver(f, 0..m) + f[m + 1]
    BY <2>1, <2>2, SumInterval
  <2> QED
    BY <1>1, <2>1, <2>4, <2>5, <2>6
<1> QED
  BY <1>3, <1>4 DEF E

(* Counting era by era counts the reward of every block once.              *)
LEMMA PaidFirst ==
    ASSUME NEW I \in Nat \ {0}, NEW M \in Nat, NEW r \in [0..M -> Nat]
    PROVE  PaidUpTo(r, M, I, 0) = RewardAt(r, M, I, 0)
<1>1. 0 \div I = 0
  OBVIOUS
<1>2. CASE 0 >= M
  <2>1. M = 0
    BY <1>2
  <2>2. PaidUpTo(r, M, I, 0) = PaidBefore(r, M, I, M) /\ RewardAt(r, M, I, 0) = 0
    BY <1>1, <1>2 DEF PaidUpTo, RewardAt
  <2>3. PaidBefore(r, M, I, 0) = 0
    BY WholeEras
  <2> QED
    BY <2>1, <2>2, <2>3
<1>3. CASE ~(0 >= M)
  <2> DEFINE w == RewardAt(r, M, I, 0)
  <2>1. PaidUpTo(r, M, I, 0) = PaidBefore(r, M, I, 0) + w * (0 - 0 * I + 1)
    BY <1>1, <1>3 DEF PaidUpTo
  <2>2. w \in Nat /\ 0 - 0 * I + 1 = 1
    BY RewardType
  <2>3. PaidBefore(r, M, I, 0) = 0
    BY WholeEras
  <2> HIDE DEF w
  <2>4. PaidUpTo(r, M, I, 0) = w
    BY <2>1, <2>2, <2>3
  <2> QED
    BY <2>4 DEF w
<1> QED
  BY <1>2, <1>3

LEMMA PaidNext ==
    ASSUME NEW I \in Nat \ {0}, NEW M \in Nat, NEW r \in [0..M -> Nat], NEW h \in Nat
    PROVE  /\ PaidUpTo(r, M, I, h) \in Nat
           /\ PaidUpTo(r, M, I, h + 1) = PaidUpTo(r, M, I, h) + RewardAt(r, M, I, h + 1)
<1> DEFINE q == h \div I
           R(x) == RewardAt(r, M, I, x)
           E(n) == PaidBefore(r, M, I, n)
           U(x) == PaidUpTo(r, M, I, x)
<1>1. /\ q \in Nat
      /\ q * I <= h /\ h < (q + 1) * I
      /\ h + 1 < (q + 1) * I => (h + 1) \div I = q
      /\ h + 1 = (q + 1) * I => (h + 1) \div I = q + 1
      /\ h + 1 < (q + 1) * I \/ h + 1 = (q + 1) * I
  BY NextEra
<1>2. h + 1 \in Nat
  OBVIOUS
<1>3. R(h) \in Nat /\ R(h + 1) \in Nat
  BY <1>2, RewardType
<1>4. \A n \in 0..M : E(n) \in Nat /\ E(n + 1) = E(n) + r[n] * I
  BY WholeEras
<1>5. /\ U(h) = IF q >= M THEN E(M) ELSE E(q) + R(h) * (h - q * I + 1)
      /\ R(h) = IF q >= M THEN 0 ELSE r[q]
      /\ U(h + 1) = IF (h + 1) \div I >= M THEN E(M)
                    ELSE E((h + 1) \div I)
                           + R(h + 1) * ((h + 1) - ((h + 1) \div I) * I + 1)
      /\ R(h + 1) = IF (h + 1) \div I >= M THEN 0 ELSE r[(h + 1) \div I]
  BY DEF PaidUpTo, RewardAt
<1> HIDE DEF q, R, E, U
<1>6. CASE q >= M
  <2>1. (h + 1) \div I >= M
    BY <1>1, <1>6
  <2>2. U(h) = E(M) /\ U(h + 1) = E(M) /\ R(h + 1) = 0
    BY <1>5, <1>6, <2>1
  <2> QED
    BY <1>4, <2>2 DEF U, R
<1>7. CASE ~(q >= M)
  <2> DEFINE w == r[q]
             T == E(q)
             k == h - q * I + 1
  <2>1. q \in 0..M /\ q + 1 \in 0..M
    BY <1>1, <1>7
  <2>2. w \in Nat /\ T \in Nat /\ E(q + 1) = T + w * I
    BY <1>4, <2>1
  <2>3. q * I \in Nat /\ (q + 1) * I = q * I + I /\ k \in Nat
    BY <1>1
  <2>4. U(h) = T + w * k
    BY <1>5, <1>7
  <2>5. U(h) \in Nat
    <3> HIDE DEF w, T, k
    <3>1. w * k \in Nat
      BY <2>2, <2>3
    <3> QED
      BY <2>2, <2>4, <3>1
  <2>6. CASE h + 1 < (q + 1) * I
    <3>1. (h + 1) \div I = q /\ (h + 1) - q * I + 1 = k + 1
      BY <1>1, <2>3, <2>6
    <3>2. R(h + 1) = w /\ U(h + 1) = T + w * (k + 1)
      BY <1>5, <1>7, <3>1
    <3> HIDE DEF w, T, k
    <3>3. w * (k + 1) = w * k + w /\ w * k \in Nat
      BY <2>2, <2>3
    <3> QED
      BY <2>2, <2>4, <2>5, <3>2, <3>3 DEF U, R
  <2>7. CASE h + 1 = (q + 1) * I
    <3>1. (h + 1) \div I = q + 1 /\ k = I
      BY <1>1, <2>3, <2>7
    <3>2. U(h) = E(q + 1)
      <4> HIDE DEF w, T, k
      <4> QED
        BY <2>2, <2>4, <3>1
    <3>3. CASE q + 1 >= M
      <4>1. q + 1 = M
        BY <1>1, <1>7, <3>3
      <4>2. U(h + 1) = E(q + 1) /\ R(h + 1) = 0
        BY <1>5, <3>1, <3>3, <4>1
      <4> QED
        BY <2>5, <3>2, <4>2 DEF U, R
    <3>4. CASE ~(q + 1 >= M)
      <4>1. (h + 1) - (q + 1) * I + 1 = 1
        BY <2>7
      <4>2. U(h + 1) = E(q + 1) + R(h + 1) * 1
        BY <1>5, <3>1, <3>4, <4>1
      <4> QED
        BY <1>3, <2>5, <3>2, <4>2 DEF U, R
    <3> QED
      BY <3>3, <3>4
  <2> QED
    BY <1>1, <2>5, <2>6, <2>7 DEF U, R
<1> QED
  BY <1>6, <1>7

(* What an era still pays, and what the next one pays.                     *)
EraRunsOut(r, M, I, h) ==
    LET next == ((h \div I) + 1) * I
    IN  /\ next \in Nat /\ h < next
        /\ RewardAt(r, M, I, next) = RewardAt(r, M, I, h) \div 2
        /\ PaidUpTo(r, M, I, h) + (next - 1 - h) * RewardAt(r, M, I, h)
             = PaidUpTo(r, M, I, next - 1)

LEMMA RestOfEra ==
    ASSUME NEW I \in Nat \ {0}, NEW M \in Nat, NEW r \in [0..M -> Nat], NEW h \in Nat,
           (h \div I) + 1 < M,
           \A e \in 0..M : e + 1 \in 0..M => r[e + 1] = r[e] \div 2
    PROVE  EraRunsOut(r, M, I, h)
<1> DEFINE q == h \div I
           n == (q + 1) * I
<1>1. q \in Nat /\ q * I <= h /\ h < n /\ q * I \in Nat /\ n = q * I + I /\ n \in Nat
  <2>1. q \in Nat /\ q * I <= h /\ h < n
    BY NextEra
  <2> HIDE DEF q
  <2> QED
    BY <2>1
<1>2. (n - 1) \div I = q /\ n \div I = q + 1
  <2> HIDE DEF q
  <2>2. n - 1 \in Nat /\ q + 1 \in Nat /\ n < ((q + 1) + 1) * I /\ (q + 1) * I <= n
        /\ q * I <= n - 1 /\ n - 1 < (q + 1) * I
    BY <1>1
  <2> HIDE DEF n
  <2> QED
    BY <1>1, <2>2, EraIs
<1>3. /\ RewardAt(r, M, I, h) = r[q]
      /\ RewardAt(r, M, I, n - 1) = r[q]
      /\ RewardAt(r, M, I, n) = r[q + 1]
      /\ PaidUpTo(r, M, I, h) = PaidBefore(r, M, I, q) + r[q] * (h - q * I + 1)
      /\ PaidUpTo(r, M, I, n - 1) = PaidBefore(r, M, I, q) + r[q] * ((n - 1) - q * I + 1)
  <2>1. ~(q >= M) /\ ~(q + 1 >= M)
    BY <1>1
  <2> HIDE DEF n
  <2> QED
    BY <1>2, <2>1 DEF RewardAt, PaidUpTo
<1>4. q \in 0..M /\ q + 1 \in 0..M
  BY <1>1
<1>5. r[q] \in Nat /\ r[q + 1] = r[q] \div 2 /\ PaidBefore(r, M, I, q) \in Nat
  BY <1>4, WholeEras
<1>6. PaidUpTo(r, M, I, h) + (n - 1 - h) * r[q] = PaidUpTo(r, M, I, n - 1)
  <2> DEFINE w == r[q]
             T == PaidBefore(r, M, I, q)
             a == h - q * I + 1
             b == n - 1 - h
  <2>1. w \in Nat /\ T \in Nat
    BY <1>5
  <2>2. a \in Nat /\ b \in Nat /\ (n - 1) - q * I + 1 = a + b
    BY <1>1
  <2>3. PaidUpTo(r, M, I, h) = T + w * a /\ PaidUpTo(r, M, I, n - 1) = T + w * (a + b)
    BY <1>3, <2>2
  <2> HIDE DEF w, T, a, b, q, n
  <2>4. w * (a + b) = w * a + b * w /\ w * a \in Nat /\ b * w \in Nat
    BY <2>1, <2>2
  <2> QED
    BY <2>1, <2>3, <2>4 DEF b, w
<1> QED
  BY <1>1, <1>3, <1>5, <1>6 DEF EraRunsOut

(* In the last era and after it, nothing is halved any more.               *)
LEMMA LastEra ==
    ASSUME NEW I \in Nat \ {0}, NEW M \in Nat, NEW r \in [0..M -> Nat],
           NEW h \in Nat, h \div I >= M - 1, NEW k \in Nat, h <= k
    PROVE  RewardAt(r, M, I, k) \in {0, RewardAt(r, M, I, h)}
<1> DEFINE p == h \div I
           q == k \div I
<1>1. p \in Nat /\ q \in Nat /\ p * I <= h /\ k < (q + 1) * I
  BY NextEra
<1>2. p <= q
  <2> SUFFICES ASSUME q + 1 <= p PROVE FALSE
    BY <1>1
  <2> HIDE DEF p, q
  <2>1. PICK d \in Nat : p = (q + 1) + d
    <3>1. p - (q + 1) \in Nat /\ p = (q + 1) + (p - (q + 1))
      BY <1>1
    <3> QED
      BY <3>1
  <2>2. p * I = (q + 1) * I + d * I /\ d * I \in Nat /\ (q + 1) * I \in Nat
    BY <1>1, <2>1
  <2> QED
    BY <1>1, <2>2
<1>3. CASE q >= M
  BY <1>3 DEF RewardAt
<1>4. CASE ~(q >= M)
  <2>1. p = q
    <3>1. p >= M - 1
      OBVIOUS
    <3> HIDE DEF p, q
    <3> QED
      BY <1>1, <1>2, <1>4, <3>1
  <2> QED
    BY <2>1 DEF RewardAt
<1> QED
  BY <1>3, <1>4

(* Up to any height less is paid than by all eras, and these pay less than *)
(* twice what the first one does: the halving series.                      *)
LEMMA ErasGrow ==
    ASSUME NEW I \in Nat \ {0}, NEW M \in Nat, NEW r \in [0..M -> Nat]
    PROVE  \A n \in 0..M : PaidBefore(r, M, I, n) <= PaidBefore(r, M, I, M)
<1> DEFINE E(n) == PaidBefore(r, M, I, n)
           P == {n \in Nat : n <= M => E(M - n) <= E(M)}
<1>1. \A n \in 0..M : E(n) \in Nat /\ E(n + 1) >= E(n)
  <2> SUFFICES ASSUME NEW n \in 0..M PROVE E(n) \in Nat /\ E(n + 1) >= E(n)
    OBVIOUS
  <2> DEFINE w == r[n]
  <2>1. E(n) \in Nat /\ E(n + 1) = E(n) + w * I /\ w \in Nat
    BY WholeEras
  <2> HIDE DEF w, E
  <2>2. w * I \in Nat
    BY <2>1
  <2> QED
    BY <2>1, <2>2
<1> HIDE DEF E
<1>2. 0 \in P
  <2>1. M \in 0..M /\ M - 0 = M
    OBVIOUS
  <2>2. E(M) \in Nat
    BY <1>1, <2>1
  <2> QED
    BY <2>1, <2>2
<1>3. ASSUME NEW n \in Nat, n \in P PROVE n + 1 \in P
  <2> SUFFICES ASSUME n + 1 <= M PROVE E(M - (n + 1)) <= E(M)
    OBVIOUS
  <2> DEFINE m == M - (n + 1)
  <2>1. m \in 0..M /\ m + 1 = M - n /\ m + 1 \in 0..M /\ n <= M /\ M \in 0..M
    OBVIOUS
  <2>2. E(m) \in Nat /\ E(m + 1) >= E(m) /\ E(m + 1) \in Nat /\ E(M) \in Nat
    BY <1>1, <2>1
  <2>3. E(m + 1) <= E(M)
    BY <1>3, <2>1
  <2> HIDE DEF m
  <2>4. E(m) <= E(M)
    BY <2>2, <2>3
  <2> QED
    BY <2>4 DEF m
<1>4. \A n \in Nat : n \in P
  <2> HIDE DEF P
  <2> QED
    BY <1>2, <1>3, NatSetInduction
<1>5. ASSUME NEW n \in 0..M PROVE E(n) <= E(M)
  <2>1. M - n \in Nat /\ M - n <= M /\ M - (M - n) = n
    OBVIOUS
  <2> QED
    BY <1>4, <2>1
<1> QED
  BY <1>5 DEF E

LEMMA PaidAtMostAll ==
    ASSUME NEW I \in Nat \ {0}, NEW M \in Nat, NEW r \in [0..M -> Nat], NEW h \in Nat
    PROVE  PaidUpTo(r, M, I, h) <= PaidBefore(r, M, I, M)
<1> DEFINE q == h \div I
           E(n) == PaidBefore(r, M, I, n)
<1>1. q \in Nat /\ q * I <= h /\ h < (q + 1) * I
  BY NextEra
<1>2. \A n \in 0..M : E(n) \in Nat /\ E(n + 1) = E(n) + r[n] * I /\ E(n) <= E(M)
  BY WholeEras, ErasGrow
<1>3. PaidUpTo(r, M, I, h) =
          IF q >= M THEN E(M) ELSE E(q) + (IF q >= M THEN 0 ELSE r[q]) * (h - q * I + 1)
  BY DEF PaidUpTo, RewardAt
<1> HIDE DEF q, E
<1>4. CASE q >= M
  <2>1. M \in 0..M
    OBVIOUS
  <2>2. E(M) \in Nat
    BY <1>2, <2>1
  <2> QED
    BY <1>3, <1>4, <2>2 DEF E
<1>5. CASE ~(q >= M)
  <2> DEFINE w == r[q]
             k == h - q * I + 1
  <2>1. q \in 0..M /\ q + 1 \in 0..M
    BY <1>1, <1>5
  <2>2. E(q) \in Nat /\ w \in Nat /\ E(q + 1) = E(q) + w * I /\ E(q + 1) <= E(M)
        /\ E(q + 1) \in Nat /\ E(M) \in Nat
    <3>1. M \in 0..M
      OBVIOUS
    <3> QED
      BY <1>2, <2>1, <3>1
  <2>3. k \in Nat /\ k <= I
    <3>1. q * I \in Nat /\ (q + 1) * I = q * I + I
      BY <1>1
    <3> QED
      BY <1>1, <3>1
  <2>4. PaidUpTo(r, M, I, h) = E(q) + w * k
    BY <1>3, <1>5
  <2> HIDE DEF w, k
  <2>5. w * k <= w * I /\ w * k \in Nat /\ w * I \in Nat
    <3>1. PICK d \in Nat : I = k + d
      <4>1. I - k \in Nat /\ I = k + (I - k)
        BY <2>3
      <4> QED
        BY <4>1
    <3>2. w * I = w * k + w * d /\ w * d \in Nat /\ w * k \in Nat
      BY <2>2, <2>3, <3>1
    <3> QED
      BY <3>2
  <2>6. E(q) + w * k <= E(M)
    <3> DEFINE x == w * k
               y == w * I
    <3>1. x <= y /\ x \in Nat /\ y \in Nat /\ E(q) + y <= E(M)
      BY <2>2, <2>5
    <3> HIDE DEF x, y
    <3>2. E(q) + x <= E(M)
      BY <2>2, <3>1
    <3> QED
      BY <3>2 DEF x
  <2> QED
    BY <2>4, <2>6 DEF E
<1> QED
  BY <1>4, <1>5

LEMMA HalfAndRest ==
    ASSUME NEW w \in Nat, NEW v, v = w \div 2 PROVE \E d \in Nat : w = 2 * v + d
  <1>1. w = 2 * v + (w % 2) /\ (w % 2) \in Nat
    OBVIOUS
  <1> QED
    BY <1>1

LEMMA RoomRemains ==
    ASSUME NEW a \in Nat, NEW x \in Nat, NEW y \in Nat, NEW t \in Nat, NEW u \in Nat,
           x = 2 * y + t, a + 2 * x <= 2 * u
    PROVE  (a + x) + 2 * y <= 2 * u
  OBVIOUS

LEMMA AllBelowSeries ==
    ASSUME NEW I \in Nat \ {0}, NEW M \in Nat, NEW r \in [0..M -> Nat],
           \A e \in 0..M : e + 1 \in 0..M => r[e + 1] = r[e] \div 2
    PROVE  PaidBefore(r, M, I, M) <= 2 * r[0] * I
<1> DEFINE E(n) == PaidBefore(r, M, I, n)
           P == {n \in Nat : n <= M => E(n) + 2 * (r[n] * I) <= 2 * (r[0] * I)}
<1>1. \A n \in 0..M : E(n) \in Nat /\ E(n + 1) = E(n) + r[n] * I /\ r[n] \in Nat
  BY WholeEras
<1>2. E(0) = 0 /\ r[0] \in Nat
  <2>1. 0 \in 0..M
    OBVIOUS
  <2> QED
    BY <2>1, WholeEras
<1> HIDE DEF E
<1>3. 0 \in P
  <2> DEFINE w == r[0]
  <2>1. w \in Nat
    BY <1>2
  <2> HIDE DEF w
  <2>2. w * I \in Nat
    BY <2>1
  <2>3. E(0) + 2 * (w * I) <= 2 * (w * I)
    BY <1>2, <2>2
  <2> QED
    BY <2>3 DEF w
<1>4. ASSUME NEW n \in Nat, n \in P PROVE n + 1 \in P
  <2> SUFFICES ASSUME n + 1 <= M PROVE E(n + 1) + 2 * (r[n + 1] * I) <= 2 * (r[0] * I)
    OBVIOUS
  <2> DEFINE w == r[n]
             v == r[n + 1]
             z == r[0]
  <2>1. n \in 0..M /\ n + 1 \in 0..M /\ n <= M
    OBVIOUS
  <2>2. w \in Nat /\ v \in Nat /\ v = w \div 2 /\ E(n) \in Nat
        /\ E(n + 1) = E(n) + w * I /\ z \in Nat
    BY <1>1, <1>2, <2>1
  <2>3. E(n) + 2 * (w * I) <= 2 * (z * I)
    BY <1>4, <2>1
  <2> HIDE DEF w, v, z
  <2>4. PICK d \in Nat : w = 2 * v + d
    BY <2>2, HalfAndRest
  <2>5. w * I = 2 * (v * I) + d * I /\ d * I \in Nat /\ v * I \in Nat /\ z * I \in Nat
    BY <2>2, <2>4
  <2> DEFINE x == w * I
             y == v * I
             u == z * I
             t == d * I
  <2>6. x = 2 * y + t /\ t \in Nat /\ y \in Nat /\ u \in Nat /\ x \in Nat
        /\ E(n) + 2 * x <= 2 * u /\ E(n + 1) = E(n) + x
    BY <2>2, <2>3, <2>5
  <2> HIDE DEF x, y, u, t
  <2>7. E(n + 1) + 2 * y <= 2 * u
    <3>1. (E(n) + x) + 2 * y <= 2 * u
      BY <2>2, <2>6, RoomRemains
    <3> QED
      BY <2>6, <3>1
  <2> QED
    BY <2>7 DEF y, u, v, z
<1>5. \A n \in Nat : n \in P
  <2> HIDE DEF P
  <2> QED
    BY <1>3, <1>4, NatSetInduction
<1>6. E(M) + 2 * (r[M] * I) <= 2 * (r[0] * I)
  BY <1>5
<1>7. M \in 0..M
  OBVIOUS
<1>8. E(M) \in Nat /\ r[M] \in Nat
  BY <1>1, <1>7
<1> DEFINE w == r[M]
           z == r[0]
<1>9. w \in Nat /\ z \in Nat /\ E(M) + 2 * (w * I) <= 2 * (z * I)
  BY <1>2, <1>6, <1>8
<1> HIDE DEF w, z
<1>10. w * I \in Nat /\ z * I \in Nat /\ 2 * z * I = 2 * (z * I)
  BY <1>9
<1>11. E(M) <= 2 * z * I
  <2> DEFINE x == w * I
             y == z * I
  <2>1. x \in Nat /\ y \in Nat /\ E(M) \in Nat /\ E(M) + 2 * x <= 2 * y
    BY <1>8, <1>9, <1>10
  <2> HIDE DEF x, y
  <2>2. E(M) <= 2 * y
    BY <2>1
  <2> QED
    BY <1>10, <2>2 DEF y
<1> QED
  BY <1>11 DEF E, z
=================================================================================
