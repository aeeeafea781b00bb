------------------------------ MODULE Peers_proof ------------------------------
(***************************************************************************)
(* Proofs about Peers, for any number of nodes, every tree of blocks,      *)
(* every limit on messages and whatever connections break: types, that no  *)
(* block is awaited which is not on its way (p2p.py, 707 and 740), and     *)
(* what the nodes show, keep and announce meanwhile.                       *)
(*                                                                         *)
(* A request that n keeps in requested_blocks is answered because of four  *)
(* things, which make up the invariant.  Messages say the truth: a node    *)
(* announces only what it has, and is asked only for what it announced.    *)
(* Nodes never forget a block.  Plans are sound: what is left of a handler *)
(* speaks to peers that are still connected, and the request it made goes  *)
(* to the one it is counted against.  And the end of a connection clears   *)
(* both sides at once.  Every action then changes one plan, one line and   *)
(* what one node keeps for one peer, and OneStep says what is left to show *)
(* of such a step; Handled, Sent and Silent are its three forms.           *)
(***************************************************************************)
EXTENDS Peers, Sums_proof, SequenceTheorems

--------------------------------------------------------------------------------
(* Trees. *)

(* What genesis has, and every block whose parent has it, every block has. *)
LEMMA TreeInduction ==
    ASSUME NEW P, Genesis \in P,
           \A b \in Block \ {Genesis} : Parent[b] \in P => b \in P
    PROVE  Block \subseteq P
<1> SUFFICES ASSUME Block \ P # {} PROVE FALSE
  OBVIOUS
<1>1. Block \ P \in SUBSET (Block \ {Genesis})
  OBVIOUS
<1>2. PICK b \in Block \ P : Parent[b] \notin Block \ P
  BY <1>1, BlockAssumption
<1>3. Parent[b] \in Block /\ b \in Block \ {Genesis}
  BY <1>1, <1>2, BlockAssumption
<1> QED
  BY <1>2, <1>3

(* Recursion along the tree: the value of a block is made by its step,     *)
(* which stays in X, from the value of its parent.                         *)
Grows(X, F) == \A b \in Block \ {Genesis} : \A x \in X : F[b][x] \in X

(* The values that the steps F make, from x0 at genesis. *)
Follow(g, x0, F) ==
    /\ g[Genesis] = x0
    /\ \A b \in Block \ {Genesis} : g[b] = F[b][g[Parent[b]]]

(* A relation that has x0 at genesis and every value a step makes. *)
Inherited(x0, F, C) ==
    /\ <<Genesis, x0>> \in C
    /\ \A b \in Block \ {Genesis} : \A x : <<Parent[b], x>> \in C => <<b, F[b][x]>> \in C

(* There are such values: the least relation that inherits is a function.  *)
LEMMA TreeRecursion ==
    ASSUME NEW X, NEW x0 \in X, NEW F, Grows(X, F)
    PROVE  \E g \in [Block -> X] : Follow(g, x0, F)
<1> DEFINE All == Block \X X
           R == {p \in All : \A C \in SUBSET All : Inherited(x0, F, C) => p \in C}
           Known == {b \in Block : \E x \in X : <<b, x>> \in R /\ \A y \in X : <<b, y>> \in R => y = x}
<1>1. Inherited(x0, F, R)
  <2>1. <<Genesis, x0>> \in R
    BY BlockAssumption DEF Inherited
  <2>2. ASSUME NEW b \in Block \ {Genesis}, NEW x, <<Parent[b], x>> \in R
        PROVE  <<b, F[b][x]>> \in R
    <3>1. x \in X /\ F[b][x] \in X
      BY <2>2 DEF Grows
    <3>2. ASSUME NEW C \in SUBSET All, Inherited(x0, F, C)
          PROVE  <<b, F[b][x]>> \in C
      <4>1. <<Parent[b], x>> \in C
        BY <2>2, <3>2
      <4> QED
        BY <3>2, <4>1 DEF Inherited
    <3> QED
      BY <3>1, <3>2
  <2> HIDE DEF R
  <2> QED
    BY <2>1, <2>2 DEF Inherited
<1>2. ASSUME NEW C \in SUBSET R, Inherited(x0, F, C) PROVE C = R
  <2>1. C \in SUBSET All
    OBVIOUS
  <2>2. R \subseteq C
    BY <1>2, <2>1
  <2> QED
    BY <2>2
<1>3. R \subseteq All
  OBVIOUS
<1> HIDE DEF R
<1>4. Genesis \in Known
  <2>1. ASSUME NEW y \in X, <<Genesis, y>> \in R, y # x0 PROVE FALSE
    <3> DEFINE C == R \ {<<Genesis, y>>}
    <3>1. Inherited(x0, F, C)
      BY <1>1, <2>1 DEF Inherited
    <3> HIDE DEF C
    <3>2. C = R
      BY <1>2, <3>1 DEF C
    <3> QED
      BY <2>1, <3>2 DEF C
  <2> QED
    BY <1>1, <2>1, BlockAssumption DEF Inherited
<1>5. ASSUME NEW b \in Block \ {Genesis}, Parent[b] \in Known PROVE b \in Known
  <2>1. PICK x \in X : <<Parent[b], x>> \in R /\ \A y \in X : <<Parent[b], y>> \in R => y = x
    BY <1>5
  <2>2. <<b, F[b][x]>> \in R /\ F[b][x] \in X
    BY <1>1, <2>1 DEF Inherited, Grows
  <2>3. ASSUME NEW y \in X, <<b, y>> \in R, y # F[b][x] PROVE FALSE
    <3> DEFINE C == R \ {<<b, y>>}
    <3>1. <<Genesis, x0>> \in C
      BY <1>1 DEF Inherited
    <3>2. ASSUME NEW a \in Block \ {Genesis}, NEW z, <<Parent[a], z>> \in C
          PROVE  <<a, F[a][z]>> \in C
      <4>1. <<a, F[a][z]>> \in R /\ z \in X
        BY <1>1, <1>3, <3>2 DEF Inherited
      <4>2. CASE a = b
        BY <2>1, <2>3, <3>2, <4>1, <4>2
      <4> QED
        BY <4>1, <4>2
    <3>3. Inherited(x0, F, C)
      <4> HIDE DEF C
      <4> QED
        BY <3>1, <3>2 DEF Inherited
    <3>4. C \in SUBSET R
      OBVIOUS
    <3> HIDE DEF C
    <3>5. C = R
      BY <1>2, <3>3, <3>4
    <3> QED
      BY <2>3, <3>5 DEF C
  <2> QED
    BY <2>2, <2>3
<1>6. Block \subseteq Known
  <2> HIDE DEF Known
  <2> QED
    BY <1>4, <1>5, TreeInduction
<1> DEFINE g == [b \in Block |-> CHOOSE x \in X : <<b, x>> \in R]
<1>7. ASSUME NEW b \in Block
      PROVE  g[b] \in X /\ <<b, g[b]>> \in R /\ \A y \in X : <<b, y>> \in R => y = g[b]
  BY <1>6
<1>8. g \in [Block -> X]
  BY <1>7
<1> HIDE DEF g
<1>9. g[Genesis] = x0
  BY <1>1, <1>7, BlockAssumption DEF Inherited
<1>10. ASSUME NEW b \in Block \ {Genesis} PROVE g[b] = F[b][g[Parent[b]]]
  <2>1. Parent[b] \in Block
    BY BlockAssumption
  <2>2. <<Parent[b], g[Parent[b]]>> \in R /\ g[Parent[b]] \in X
    BY <1>7, <2>1
  <2>3. <<b, F[b][g[Parent[b]]]>> \in R /\ F[b][g[Parent[b]]] \in X
    BY <1>1, <2>2 DEF Inherited, Grows
  <2> QED
    BY <1>7, <2>3
<1> QED
  BY <1>8, <1>9, <1>10 DEF Follow

(* The recursive definition of Branch, as a predicate. *)
IsBranching(g) ==
    g = [b \in Block |-> IF b = Genesis THEN <<Genesis>> ELSE Append(g[Parent[b]], b)]

(* The chain that ends in a block.                                         *)
LEMMA BranchIs ==
    /\ Branch \in [Block -> Seq(Block)]
    /\ Branch[Genesis] = <<Genesis>>
    /\ \A b \in Block \ {Genesis} : Branch[b] = Append(Branch[Parent[b]], b)
<1> DEFINE X == Seq(Block)
           F == [b \in Block \ {Genesis} |-> [x \in X |-> Append(x, b)]]
<1>0. /\ Genesis \in Block /\ \A b \in Block \ {Genesis} : Parent[b] \in Block
      /\ <<Genesis>> \in X
      /\ \A b \in Block : \A x \in X : Append(x, b) \in X
  BY BlockAssumption
<1> HIDE DEF X
<1>1. \A b \in Block \ {Genesis} : \A x \in X : F[b][x] = Append(x, b)
  OBVIOUS
<1> HIDE DEF F
<1>2. Grows(X, F)
  BY <1>0, <1>1 DEF Grows
<1>3. PICK f \in [Block -> X] : Follow(f, <<Genesis>>, F)
  BY <1>0, <1>2, TreeRecursion
<1>4. f[Genesis] = <<Genesis>> /\ \A b \in Block \ {Genesis} : f[b] = Append(f[Parent[b]], b)
  BY <1>0, <1>1, <1>3 DEF Follow
<1> DEFINE h == [b \in Block |-> IF b = Genesis THEN <<Genesis>> ELSE Append(f[Parent[b]], b)]
<1>5. f = h
  <2>1. \A b \in Block : f[b] = h[b]
    BY <1>4
  <2> QED
    BY <2>1
<1>6. IsBranching(f)
  BY <1>5 DEF IsBranching
<1>7. IsBranching(Branch)
  <2>1. Branch = CHOOSE g : IsBranching(g)
    BY DEF Branch, IsBranching
  <2> QED
    BY <1>6, <2>1
<1>8. /\ Branch[Genesis] = <<Genesis>>
      /\ \A b \in Block \ {Genesis} : Branch[b] = Append(Branch[Parent[b]], b)
      /\ Branch = [b \in Block |-> Branch[b]]
  <2>1. Branch = [b \in Block |-> IF b = Genesis THEN <<Genesis>> ELSE Append(Branch[Parent[b]], b)]
    BY <1>7 DEF IsBranching
  <2> QED
    BY <1>0, <2>1
<1>9. \A b \in Block : Branch[b] \in X
  <2> DEFINE P == {b \in Block : Branch[b] \in X}
  <2>1. Genesis \in P
    BY <1>0, <1>8
  <2>2. ASSUME NEW b \in Block \ {Genesis}, Parent[b] \in P PROVE b \in P
    BY <1>0, <1>8, <2>2
  <2> HIDE DEF P
  <2>3. Block \subseteq P
    BY <2>1, <2>2, TreeInduction
  <2> QED
    BY <2>3 DEF P
<1> QED
  BY <1>8, <1>9 DEF X

(* Work adds up to a number. *)
LEMMA TotalWorkType == \A b \in Block : TotalWork[b] \in Nat
<1> DEFINE F == [b \in Block \ {Genesis} |-> [x \in Nat |-> x + Work[b]]]
           Adds(g) == g = [b \in Block |-> IF b = Genesis THEN Work[b] ELSE g[Parent[b]] + Work[b]]
<1>0. /\ Genesis \in Block /\ \A b \in Block \ {Genesis} : Parent[b] \in Block
      /\ \A b \in Block : Work[b] \in Nat
  BY BlockAssumption
<1>1. \A b \in Block \ {Genesis} : \A x \in Nat : F[b][x] = x + Work[b]
  OBVIOUS
<1> HIDE DEF F
<1>2. Grows(Nat, F)
  BY <1>0, <1>1 DEF Grows
<1>3. PICK f \in [Block -> Nat] : Follow(f, Work[Genesis], F)
  BY <1>0, <1>2, TreeRecursion
<1>4. f[Genesis] = Work[Genesis] /\ \A b \in Block \ {Genesis} : f[b] = f[Parent[b]] + Work[b]
  BY <1>0, <1>1, <1>3 DEF Follow
<1> DEFINE h == [b \in Block |-> IF b = Genesis THEN Work[b] ELSE f[Parent[b]] + Work[b]]
<1>5. f = h
  <2>1. \A b \in Block : f[b] = h[b]
    BY <1>4
  <2> QED
    BY <2>1
<1>6. Adds(f)
  BY <1>5
<1>7. Adds(TotalWork)
  <2>1. TotalWork = CHOOSE g : Adds(g)
    BY DEF TotalWork
  <2> HIDE DEF Adds
  <2> QED
    BY <1>6, <2>1
<1>8. /\ TotalWork[Genesis] = Work[Genesis]
      /\ \A b \in Block \ {Genesis} : TotalWork[b] = TotalWork[Parent[b]] + Work[b]
  BY <1>0, <1>7
<1> DEFINE P == {b \in Block : TotalWork[b] \in Nat}
<1>9. Genesis \in P
  BY <1>0, <1>8
<1>10. ASSUME NEW b \in Block \ {Genesis}, Parent[b] \in P PROVE b \in P
  BY <1>0, <1>8, <1>10
<1> HIDE DEF P
<1>11. Block \subseteq P
  BY <1>9, <1>10, TreeInduction
<1> QED
  BY <1>11 DEF P

--------------------------------------------------------------------------------
(* Sequences and chains. *)

(* What appending does to a sequence and to the set of its elements. *)
LEMMA ToSetAppend ==
    ASSUME NEW X, NEW s \in Seq(X), NEW x \in X
    PROVE  /\ Append(s, x) \in Seq(X)
           /\ Len(Append(s, x)) = Len(s) + 1
           /\ ToSet(Append(s, x)) = ToSet(s) \cup {x}
           /\ \A i \in 1..Len(s) : Append(s, x)[i] = s[i]
           /\ Append(s, x)[Len(s) + 1] = x
<1> DEFINE a == Append(s, x)
<1>1. /\ a \in Seq(X) /\ Len(a) = Len(s) + 1 /\ Len(s) \in Nat
      /\ DOMAIN a = 1..(Len(s) + 1) /\ DOMAIN s = 1..Len(s)
      /\ \A i \in 1..Len(s) : a[i] = s[i]
      /\ a[Len(s) + 1] = x
  OBVIOUS
<1> HIDE DEF a
<1>2. ToSet(a) \subseteq ToSet(s) \cup {x}
  BY <1>1 DEF ToSet
<1>3. ToSet(s) \subseteq ToSet(a)
  BY <1>1 DEF ToSet
<1>4. x \in ToSet(a)
  BY <1>1 DEF ToSet
<1> QED
  BY <1>1, <1>2, <1>3, <1>4 DEF a

(* Each block of a chain sits at its own height. *)
Rising(b) == \A i \in 1..Len(Branch[b]) : Len(Branch[Branch[b][i]]) = i

(* A chain holds its block, stays within what has the parent of each of    *)
(* its blocks, and has no block twice.                                     *)
LEMMA BranchFacts ==
    /\ \A b \in Block : b \in ToSet(Branch[b]) /\ Len(Branch[b]) \in Nat \ {0}
    /\ \A S : /\ Genesis \in S
              /\ \A a \in S \ {Genesis} : Parent[a] \in S
              => \A b \in S \cap Block : ToSet(Branch[b]) \subseteq S
    /\ \A b \in Block : Len(Branch[b]) <= Cardinality(Block)
<1>0. /\ Genesis \in Block /\ \A b \in Block \ {Genesis} : Parent[b] \in Block
      /\ \A b \in Block : Branch[b] \in Seq(Block)
  BY BlockAssumption, BranchIs
<1>1. ASSUME NEW b \in Block \ {Genesis}
      PROVE  /\ Len(Branch[b]) = Len(Branch[Parent[b]]) + 1
             /\ ToSet(Branch[b]) = ToSet(Branch[Parent[b]]) \cup {b}
             /\ \A i \in 1..Len(Branch[Parent[b]]) : Branch[b][i] = Branch[Parent[b]][i]
             /\ Branch[b][Len(Branch[b])] = b
  <2>1. Branch[b] = Append(Branch[Parent[b]], b)
    BY BranchIs
  <2>2. Branch[Parent[b]] \in Seq(Block)
    BY <1>0
  <2> QED
    BY <2>1, <2>2, ToSetAppend
<1>2. /\ Len(Branch[Genesis]) = 1 /\ ToSet(Branch[Genesis]) = {Genesis}
      /\ Branch[Genesis][1] = Genesis
  BY BranchIs DEF ToSet
<1>3. \A b \in Block : b \in ToSet(Branch[b]) /\ Len(Branch[b]) \in Nat \ {0}
  <2> TAKE b \in Block
  <2>1. Len(Branch[b]) \in Nat
    BY <1>0
  <2>2. CASE b = Genesis
    BY <1>2, <2>2
  <2>3. CASE b # Genesis
    <3>1. PICK k \in Nat : k = Len(Branch[Parent[b]])
      BY <1>0, <2>3
    <3>2. Len(Branch[b]) = k + 1
      BY <1>1, <2>3, <3>1
    <3>3. b \in ToSet(Branch[b])
      BY <1>1, <2>3
    <3> QED
      BY <3>2, <3>3
  <2> QED
    BY <2>2, <2>3
<1>4. ASSUME NEW S, Genesis \in S, \A a \in S \ {Genesis} : Parent[a] \in S
      PROVE  \A b \in S \cap Block : ToSet(Branch[b]) \subseteq S
  <2> DEFINE P == {b \in Block : b \in S => ToSet(Branch[b]) \subseteq S}
  <2>1. Genesis \in P
    BY <1>0, <1>2, <1>4
  <2>2. ASSUME NEW b \in Block \ {Genesis}, Parent[b] \in P PROVE b \in P
    <3>1. ASSUME b \in S PROVE ToSet(Branch[b]) \subseteq S
      <4>1. ToSet(Branch[Parent[b]]) \subseteq S
        BY <1>4, <2>2, <3>1
      <4>2. ToSet(Branch[b]) = ToSet(Branch[Parent[b]]) \cup {b}
        BY <1>1, <2>2
      <4> QED
        BY <3>1, <4>1, <4>2
    <3> QED
      BY <3>1
  <2> HIDE DEF P
  <2>3. Block \subseteq P
    BY <2>1, <2>2, TreeInduction
  <2> QED
    BY <2>3 DEF P
<1>5. \A b \in Block : Rising(b)
  <2> DEFINE P == {b \in Block : Rising(b)}
  <2>1. Genesis \in P
    <3>1. \A i \in 1..Len(Branch[Genesis]) : i = 1
      BY <1>2
    <3>2. Rising(Genesis)
      BY <1>2, <3>1 DEF Rising
    <3> QED
      BY <1>0, <3>2
  <2>2. ASSUME NEW b \in Block \ {Genesis}, Parent[b] \in P PROVE b \in P
    <3>1. Len(Branch[Parent[b]]) \in Nat
      BY <1>0
    <3>2. ASSUME NEW i \in 1..Len(Branch[b]) PROVE Len(Branch[Branch[b][i]]) = i
      <4>1. i \in 1..Len(Branch[Parent[b]]) \/ i = Len(Branch[b])
        BY <1>1, <3>1
      <4> QED
        BY <1>1, <2>2, <4>1 DEF Rising
    <3> QED
      BY <3>2 DEF Rising
  <2> HIDE DEF P
  <2>3. Block \subseteq P
    BY <2>1, <2>2, TreeInduction
  <2> QED
    BY <2>3 DEF P
<1>6. ASSUME NEW b \in Block PROVE Len(Branch[b]) <= Cardinality(Block)
  <2> DEFINE N == Len(Branch[b])
             f == [i \in 1..N |-> Branch[b][i]]
  <2>1. N \in Nat /\ f \in [1..N -> Block]
    BY <1>0
  <2>2. ASSUME NEW i \in 1..N, NEW j \in 1..N, f[i] = f[j] PROVE i = j
    BY <1>5, <2>2 DEF Rising
  <2> HIDE DEF f, N
  <2>3. f \in Injection(1..N, Block)
    BY <2>1, <2>2 DEF Injection, IsInjective
  <2>4. IsFiniteSet(Block) /\ Cardinality(1..N) = N
    BY <2>1, BlockAssumption, FS_Interval
  <2>5. Cardinality(1..N) <= Cardinality(Block)
    BY <2>3, <2>4, FS_Injection
  <2> QED
    BY <2>4, <2>5 DEF N
<1> QED
  BY <1>3, <1>4, <1>6

--------------------------------------------------------------------------------
(* What is kept of a sequence. *)

(* The recursive definition inside Kept, as a predicate. *)
IsKeeping(g, s, S) ==
    g = [k \in 0..Len(s) |->
            IF k = 0 THEN <<>>
            ELSE IF s[k] \in S THEN Append(g[k - 1], s[k]) ELSE g[k - 1]]

(* What is kept of a sequence is what is in S.  If of some only the last   *)
(* may be there, the last that is kept is the only one.                    *)
LEMMA KeptFacts ==
    ASSUME NEW X, NEW s \in Seq(X), NEW S
    PROVE  /\ Kept(s, S) \in Seq(X)
           /\ ToSet(Kept(s, S)) = ToSet(s) \cap S
           /\ \A L : (\A k \in 1..Len(s) : s[k] \in L => k = Len(s))
                     => \A k \in 1..Len(Kept(s, S)) :
                            Kept(s, S)[k] \in L => k = Len(Kept(s, S))
<1> DEFINE N == Len(s)
           V == Seq(X)
           step(k, v) == IF s[k] \in S THEN Append(v, s[k]) ELSE v
           F == [k \in 1..N |-> [v \in V |-> step(k, v)]]
<1>1. N \in Nat /\ <<>> \in V /\ \A k \in 1..N : s[k] \in X
  OBVIOUS
<1>2. \A k \in 1..N : \A v \in V : step(k, v) \in V
  BY <1>1
<1> HIDE DEF V, step, N
<1>3. \A k \in 1..N : \A v \in V : F[k][v] = step(k, v)
  OBVIOUS
<1>4. StaysIn(V, F, N)
  BY <1>2, <1>3 DEF StaysIn
<1> HIDE DEF F
<1>5. PICK f \in [0..N -> V] : Follows(f, <<>>, F, N)
  BY <1>1, <1>4, RecursionExists
<1> DEFINE h == [k \in 0..N |-> IF k = 0 THEN <<>> ELSE step(k, f[k - 1])]
<1>6. ASSUME NEW k \in 0..N PROVE f[k] = h[k]
  <2>1. CASE k = 0
    BY <1>5, <2>1 DEF Follows
  <2>2. CASE k # 0
    <3>1. k - 1 \in 0..N /\ k \in 1..N
      BY <1>1, <2>2
    <3>2. f[k - 1] \in V
      BY <3>1
    <3> QED
      BY <1>3, <1>5, <2>2, <3>1, <3>2 DEF Follows
  <2> QED
    BY <2>1, <2>2
<1>7. f = h
  BY <1>6
<1>8. IsKeeping(f, s, S)
  BY <1>7 DEF IsKeeping, step, N
<1> DEFINE g == CHOOSE k : IsKeeping(k, s, S)
<1>9. IsKeeping(g, s, S) /\ Kept(s, S) = g[N]
  <2>1. Kept(s, S) = (CHOOSE k : IsKeeping(k, s, S))[Len(s)]
    BY DEF Kept, IsKeeping
  <2> QED
    BY <1>8, <2>1 DEF N
<1> HIDE DEF g, h
<1>10. g = [k \in 0..N |-> IF k = 0 THEN <<>>
                           ELSE IF s[k] \in S THEN Append(g[k - 1], s[k]) ELSE g[k - 1]]
  BY <1>9 DEF IsKeeping, N
<1>11. g[0] = <<>>
  BY <1>1, <1>10
<1>12. ASSUME NEW k \in Nat, k + 1 <= N
       PROVE  g[k + 1] = IF s[k + 1] \in S THEN Append(g[k], s[k + 1]) ELSE g[k]
  <2>1. k + 1 \in 0..N /\ k + 1 # 0 /\ (k + 1) - 1 = k
    BY <1>1, <1>12
  <2> QED
    BY <1>10, <2>1
<1> DEFINE Past(k) == {s[i] : i \in 1..k}
           P == {k \in Nat : k <= N => g[k] \in Seq(X) /\ ToSet(g[k]) = Past(k) \cap S}
<1>13. 0 \in P
  <2>1. Past(0) = {} /\ ToSet(<<>>) = {} /\ <<>> \in Seq(X)
    BY DEF ToSet
  <2> QED
    BY <1>11, <2>1
<1>14. ASSUME NEW k \in Nat, k \in P PROVE k + 1 \in P
  <2> SUFFICES ASSUME k + 1 <= N
               PROVE  g[k + 1] \in Seq(X) /\ ToSet(g[k + 1]) = Past(k + 1) \cap S
    OBVIOUS
  <2>1. g[k] \in Seq(X) /\ ToSet(g[k]) = Past(k) \cap S
    BY <1>1, <1>14
  <2>2. k + 1 \in 1..N /\ s[k + 1] \in X
    BY <1>1
  <2>3. Past(k + 1) = Past(k) \cup {s[k + 1]}
    <3>1. 1..(k + 1) = (1..k) \cup {k + 1}
      OBVIOUS
    <3> QED
      BY <3>1
  <2> HIDE DEF Past
  <2>4. CASE s[k + 1] \in S
    <3>1. g[k + 1] = Append(g[k], s[k + 1])
      BY <1>12, <2>4
    <3>2. g[k + 1] \in Seq(X) /\ ToSet(g[k + 1]) = ToSet(g[k]) \cup {s[k + 1]}
      BY <2>1, <2>2, <3>1, ToSetAppend
    <3> QED
      BY <2>1, <2>3, <2>4, <3>2
  <2>5. CASE s[k + 1] \notin S
    <3>1. g[k + 1] = g[k]
      BY <1>12, <2>5
    <3> QED
      BY <2>1, <2>3, <2>5, <3>1
  <2> QED
    BY <2>4, <2>5
<1>15. \A k \in Nat : k \in P
  <2> HIDE DEF P
  <2> QED
    BY <1>13, <1>14, NatSetInduction
<1>16. \A k \in 0..N : g[k] \in Seq(X) /\ ToSet(g[k]) = Past(k) \cap S
  <2> TAKE k \in 0..N
  <2>1. k \in Nat /\ k <= N
    BY <1>1
  <2>2. k \in P
    BY <1>15, <2>1
  <2> HIDE DEF Past
  <2> QED
    BY <2>1, <2>2
<1>17. g[N] \in Seq(X) /\ ToSet(g[N]) = ToSet(s) \cap S
  <2>1. ToSet(s) = Past(N)
    BY DEF ToSet, N
  <2> HIDE DEF Past
  <2> QED
    BY <1>1, <1>16, <2>1
<1>18. ASSUME NEW L, \A k \in 1..N : s[k] \in L => k = N
       PROVE  \A k \in 1..Len(g[N]) : g[N][k] \in L => k = Len(g[N])
  <2> DEFINE Fine(k) == \A i \in 1..Len(g[k]) : g[k][i] \in L => i = Len(g[k])
  <2> SUFFICES Fine(N)
    OBVIOUS
  <2>1. CASE N = 0
    BY <1>11, <2>1
  <2>2. CASE N # 0
    <3>1. N - 1 \in Nat /\ (N - 1) + 1 = N /\ N - 1 \in 0..N
      BY <1>1, <2>2
    <3> PICK k \in Nat : k = N - 1
      BY <3>1
    <3>2. g[k] \in Seq(X) /\ ToSet(g[k]) = Past(k) \cap S
      BY <1>16, <3>1
    <3>3. \A i \in 1..Len(g[k]) : g[k][i] \notin L
      <4> TAKE i \in 1..Len(g[k])
      <4>1. g[k][i] \in ToSet(g[k])
        BY <3>2 DEF ToSet
      <4>2. PICK j \in 1..k : g[k][i] = s[j]
        BY <3>2, <4>1
      <4>3. j \in 1..N /\ j # N
        BY <1>1, <3>1, <4>2
      <4> QED
        BY <1>18, <4>2, <4>3
    <3>4. k + 1 = N /\ k + 1 <= N
      BY <1>1, <3>1
    <3>5. CASE s[k + 1] \in S
      <4>1. g[N] = Append(g[k], s[k + 1]) /\ s[k + 1] \in X
        <5>1. N \in 1..N
          BY <1>1, <2>2
        <5>2. g[k + 1] = Append(g[k], s[k + 1])
          BY <1>12, <3>4, <3>5
        <5> QED
          BY <1>1, <3>4, <5>1, <5>2
      <4> PICK d : d = g[N]
        OBVIOUS
      <4>2. /\ Len(d) = Len(g[k]) + 1
            /\ \A i \in 1..Len(g[k]) : d[i] = g[k][i]
        BY <3>2, <4>1, ToSetAppend
      <4>3. ASSUME NEW i \in 1..Len(d), d[i] \in L PROVE i = Len(d)
        <5>1. Len(g[k]) \in Nat
          BY <3>2
        <5>2. i \notin 1..Len(g[k])
          BY <3>3, <4>2, <4>3
        <5> QED
          BY <4>2, <5>1, <5>2
      <4> QED
        BY <4>3
    <3>6. CASE s[k + 1] \notin S
      BY <1>12, <3>3, <3>4, <3>6
    <3> QED
      BY <3>5, <3>6
  <2> QED
    BY <2>1, <2>2
<1> QED
  BY <1>9, <1>17, <1>18 DEF N

--------------------------------------------------------------------------------
(* The invariant. *)

(* Shapes of what is sent and of what is planned. *)
Message ==
    [type : {"version"}, height : 0..Cardinality(Block)]
      \cup [type : {"verack"}]
      \cup [type : {"getblocks"}, locator : Seq(Block)]
      \cup [type : {"inv", "getdata"}, blocks : Seq(Block), txs : SUBSET Tx]
      \cup [type : {"block"}, block : Block]
      \cup [type : {"tx"}, tx : Tx]

(* What a task can have left to do. *)
Instruction ==
    [op : {"send"}, to : Node, msg : Message]
      \cup [op : {"ask", "compare", "more"}, to : Node]
      \cup [op : {"serve"}, to : Node, tx : Tx]

(* What a node keeps for a peer. *)
PeerRecord ==
    [up : BOOLEAN, handshaked : BOOLEAN, height : 0..Cardinality(Block),
     ban_score : Nat, requested_blocks : SUBSET Block, batch_full : BOOLEAN]

(* Every variable that the network depends on has its type. *)
Shapes ==
    /\ stored \in [Node -> SUBSET Block]
    /\ tip \in [Node -> Block]
    /\ pool \in [Node -> SUBSET Tx]
    /\ link \in [Node \X Node -> PeerRecord]
    /\ wire \in [Node \X Node -> Seq(Message)]
    /\ todo \in [Node \X Node -> Seq(Instruction)]

(* Every node has the whole chain it shows. *)
Complete(n) ==
    /\ Genesis \in stored[n]
    /\ tip[n] \in stored[n]
    /\ \A b \in stored[n] \ {Genesis} : Parent[b] \in stored[n]

(* Both ends of a connection know that there is one. *)
Joined ==
    \A n, m \in Node :
        /\ link[<<n, m>>].up => n # m /\ link[<<m, n>>].up
        /\ ~link[<<n, m>>].up => link[<<n, m>>] = NoPeer /\ wire[<<n, m>>] = <<>>

(* A message says the truth: who announces a block has it, and who is      *)
(* asked for one has announced it.                                         *)
Truthful(msg, sender, reader) ==
    /\ msg.type = "inv" => ToSet(msg.blocks) \subseteq sender
    /\ msg.type = "getdata" => ToSet(msg.blocks) \subseteq reader

(* The last act of a handler.                                              *)
Closing(i) == i.op \in {"compare", "more"}

(* What the task of n for m may have to do next, given the connections and *)
(* who has which blocks.                                                   *)
Sound(peers, known, n, m, i) ==
    /\ peers[<<n, i.to>>].up
    /\ i.op = "send" =>
          /\ Truthful(i.msg, known[n], known[i.to])
          /\ i.msg.type = "getdata" => i.to = m
    /\ Closing(i) => i.to = m

(* Every message on the wire says the truth. *)
Spoken ==
    \A n, m \in Node : \A k \in 1..Len(wire[<<n, m>>]) :
        Truthful(wire[<<n, m>>][k], stored[n], stored[m])

(* Each instruction of a plan is sound, and what closes a handler comes    *)
(* last.                                                                   *)
Proper(peers, known, n, m, plan) ==
    \A k \in 1..Len(plan) :
        /\ Sound(peers, known, n, m, plan[k])
        /\ Closing(plan[k]) => k = Len(plan)

(* All plans are such plans. *)
Planned ==
    \A n, m \in Node : Proper(link, stored, n, m, todo[<<n, m>>])

(* AwaitedIsComing, in parts that have a name.                             *)
AsksFor(b, msg) == msg.type = "getdata" /\ b \in ToSet(msg.blocks)

(* The request of n for b, or the answer of m, is still to be sent or      *)
(* read.                                                                   *)
OnItsWay(n, m, b) ==
    \/ \E i \in DOMAIN todo[<<n, m>>] :
          todo[<<n, m>>][i].op = "send" /\ AsksFor(b, todo[<<n, m>>][i].msg)
    \/ \E msg \in ToSet(wire[<<n, m>>]) : AsksFor(b, msg)
    \/ Send(n, BlockMsg(b)) \in ToSet(todo[<<m, n>>])
    \/ BlockMsg(b) \in ToSet(wire[<<m, n>>])

(* What is on request from a peer is on its way. *)
Awaited ==
    \A n, m \in Node : \A b \in link[<<n, m>>].requested_blocks : OnItsWay(n, m, b)

(* The inductive invariant. AwaitedIsComing alone is not inductive: that a *)
(* request is answered needs the peer to have the block (Spoken), that a   *)
(* plan still ends in what it was made for needs the connection to stand   *)
(* (Planned), and both need chains without gaps (Complete).                *)
IInv ==
    /\ Shapes
    /\ \A n \in Node : Complete(n)
    /\ Joined
    /\ Spoken
    /\ Planned
    /\ Awaited

(* The recursive definition inside Wanted, as a predicate. *)
IsWanting(g, n, m, blocks) ==
    g = [k \in 0..Len(blocks) |->
            IF k = 0 THEN <<>>
            ELSE IF \/ blocks[k] \in stored[n]
                    \/ Cardinality(link[<<n, m>>].requested_blocks \cup ToSet(g[k - 1]))
                         >= MaxOutstanding
                 THEN g[k - 1] ELSE Append(g[k - 1], blocks[k])]

(* There is nothing in the empty sequence.                                 *)
LEMMA NothingInEmpty == ToSet(<<>>) = {}
<1>1. DOMAIN <<>> = {}
  OBVIOUS
<1> QED
  BY <1>1 DEF ToSet

(* Asking for v as well leaves no more on request than there may be.       *)
Within(asked, v) ==
    asked \in SUBSET Block /\ Cardinality(asked) <= MaxOutstanding
        => Cardinality(asked \cup ToSet(v)) <= MaxOutstanding

(* Asking for nothing is within the limit.                                 *)
LEMMA NothingMore ==
    ASSUME NEW asked
    PROVE  Within(asked, <<>>)
<1> PICK e : e = ToSet(<<>>)
  OBVIOUS
<1>1. e = {}
  BY NothingInEmpty
<1>2. asked \cup e = asked
  BY <1>1
<1> QED
  BY <1>2 DEF Within

(* One more block is one more at most.                                     *)
LEMMA OneMore ==
    ASSUME NEW asked, NEW v \in Seq(Block), NEW b \in Block,
           ~(Cardinality(asked \cup ToSet(v)) >= MaxOutstanding)
    PROVE  Within(asked, Append(v, b))
<1> SUFFICES ASSUME asked \in SUBSET Block
             PROVE  Cardinality(asked \cup ToSet(Append(v, b))) <= MaxOutstanding
  BY DEF Within
<1> PICK S : S = asked \cup ToSet(v)
  OBVIOUS
<1>1. ToSet(Append(v, b)) = ToSet(v) \cup {b} /\ ToSet(v) \subseteq Block
  BY ToSetAppend DEF ToSet
<1>2. asked \cup ToSet(Append(v, b)) = S \cup {b} /\ S \subseteq Block
  BY <1>1
<1>3. IsFiniteSet(S)
  BY <1>2, BlockAssumption, FS_Subset
<1>4. Cardinality(S) \in Nat /\ Cardinality(S \cup {b}) <= Cardinality(S) + 1
  <2>1. Cardinality(S) \in Nat
    BY <1>3, FS_CardinalityType
  <2>2. Cardinality(S \cup {b}) = IF b \in S THEN Cardinality(S) ELSE Cardinality(S) + 1
    BY <1>3, FS_AddElement
  <2> QED
    BY <2>1, <2>2
<1>5. Cardinality(S \cup {b}) \in Nat
  BY <1>3, FS_AddElement, FS_CardinalityType
<1>6. MaxOutstanding \in Nat
  BY NodeAssumption
<1>7. ~(Cardinality(S) >= MaxOutstanding)
  OBVIOUS
<1>8. Cardinality(S \cup {b}) <= MaxOutstanding
  BY <1>4, <1>5, <1>6, <1>7
<1> QED
  BY <1>2, <1>8

(* What is asked for has been announced, and there is no more of it than   *)
(* may be on request.                                                      *)
LEMMA WantedFacts ==
    ASSUME NEW n, NEW m, NEW blocks \in Seq(Block)
    PROVE  /\ Wanted(n, m, blocks) \in Seq(Block)
           /\ ToSet(Wanted(n, m, blocks)) \subseteq ToSet(blocks)
           /\ Within(link[<<n, m>>].requested_blocks, Wanted(n, m, blocks))
<1> DEFINE N == Len(blocks)
           Y == ToSet(blocks)
           V == {v \in Seq(Y) : Within(link[<<n, m>>].requested_blocks, v)}
           skips(k, v) == \/ blocks[k] \in stored[n]
                          \/ Cardinality(link[<<n, m>>].requested_blocks \cup ToSet(v))
                               >= MaxOutstanding
           step(k, v) == IF skips(k, v) THEN v ELSE Append(v, blocks[k])
           F == [k \in 1..N |-> [v \in V |-> step(k, v)]]
<1>1. N \in Nat /\ Y \subseteq Block /\ \A k \in 1..N : blocks[k] \in Y
  BY DEF ToSet
<1> HIDE DEF Y, N
<1>empty. <<>> \in V
  BY NothingMore
<1> HIDE DEF V, skips
<1>2. \A k \in 1..N : \A v \in V : step(k, v) \in V
  <2> SUFFICES ASSUME NEW k \in 1..N, NEW v \in V PROVE step(k, v) \in V
    OBVIOUS
  <2>1. v \in Seq(Y) /\ blocks[k] \in Y
    BY <1>1 DEF V
  <2>2. CASE skips(k, v)
    BY <2>2
  <2>3. CASE ~skips(k, v)
    <3>1. v \in Seq(Block) /\ blocks[k] \in Block /\ Append(v, blocks[k]) \in Seq(Y)
      BY <1>1, <2>1
    <3>2. Within(link[<<n, m>>].requested_blocks, Append(v, blocks[k]))
      BY <2>3, <3>1, OneMore DEF skips
    <3> QED
      BY <2>3, <3>1, <3>2 DEF V
  <2> QED
    BY <2>2, <2>3
<1> HIDE DEF step
<1>3. \A k \in 1..N : \A v \in V : F[k][v] = step(k, v)
  OBVIOUS
<1>4. StaysIn(V, F, N)
  BY <1>2, <1>3 DEF StaysIn
<1> HIDE DEF F
<1>5. PICK f \in [0..N -> V] : Follows(f, <<>>, F, N)
  BY <1>1, <1>empty, <1>4, RecursionExists
<1> DEFINE h == [k \in 0..N |-> IF k = 0 THEN <<>> ELSE step(k, f[k - 1])]
<1>6. ASSUME NEW k \in 0..N PROVE f[k] = h[k]
  <2>1. CASE k = 0
    BY <1>5, <2>1 DEF Follows
  <2>2. CASE k # 0
    <3>1. k - 1 \in 0..N /\ k \in 1..N
      BY <1>1, <2>2
    <3>2. f[k - 1] \in V
      BY <3>1
    <3> QED
      BY <1>3, <1>5, <2>2, <3>1, <3>2 DEF Follows
  <2> QED
    BY <2>1, <2>2
<1>7. f = h
  BY <1>6
<1>8. IsWanting(f, n, m, blocks)
  BY <1>7 DEF IsWanting, step, skips, N
<1> DEFINE g == CHOOSE k : IsWanting(k, n, m, blocks)
<1>9. IsWanting(g, n, m, blocks) /\ Wanted(n, m, blocks) = g[N]
  <2>1. Wanted(n, m, blocks) = (CHOOSE k : IsWanting(k, n, m, blocks))[Len(blocks)]
    BY DEF Wanted, IsWanting
  <2> QED
    BY <1>8, <2>1 DEF N
<1> HIDE DEF g, h
<1>10. g = [k \in 0..N |-> IF k = 0 THEN <<>> ELSE step(k, g[k - 1])]
  BY <1>9 DEF IsWanting, step, skips, N
<1>11. g[0] = <<>>
  BY <1>1, <1>10
<1>12. ASSUME NEW k \in Nat, k + 1 <= N PROVE g[k + 1] = step(k + 1, g[k])
  <2>1. k + 1 \in 0..N /\ k + 1 # 0 /\ (k + 1) - 1 = k
    BY <1>1, <1>12
  <2> QED
    BY <1>10, <2>1
<1> DEFINE P == {k \in Nat : k <= N => g[k] \in V}
<1>13. 0 \in P
  BY <1>empty, <1>11
<1>14. ASSUME NEW k \in Nat, k \in P PROVE k + 1 \in P
  <2> SUFFICES ASSUME k + 1 <= N PROVE g[k + 1] \in V
    OBVIOUS
  <2>1. k <= N /\ k + 1 \in 1..N
    BY <1>1
  <2> QED
    BY <1>2, <1>12, <1>14, <2>1
<1> HIDE DEF P
<1>15. N \in P
  BY <1>1, <1>13, <1>14, NatSetInduction
<1>16. Wanted(n, m, blocks) \in V
  BY <1>1, <1>9, <1>15 DEF P
<1> PICK w : w = Wanted(n, m, blocks)
  OBVIOUS
<1>17. w \in Seq(Y) /\ Within(link[<<n, m>>].requested_blocks, w)
  BY <1>16 DEF V
<1>18. w \in Seq(Block) /\ ToSet(w) \subseteq Y
  BY <1>1, <1>17 DEF ToSet
<1> QED
  BY <1>17, <1>18 DEF Y

(* A sequence is one over whatever its elements are in.                    *)
LEMMA Retyped ==
    ASSUME NEW X, NEW s \in Seq(X), NEW Y, ToSet(s) \subseteq Y
    PROVE  s \in Seq(Y)
<1>1. Len(s) \in Nat /\ s = [k \in 1..Len(s) |-> s[k]]
  OBVIOUS
<1>2. \A k \in 1..Len(s) : s[k] \in Y
  BY DEF ToSet
<1>3. [k \in 1..Len(s) |-> s[k]] \in Seq(Y)
  BY <1>1, <1>2
<1> QED
  BY <1>1, <1>3

(* A locator names blocks.                                                 *)
LEMMA LocatorFacts ==
    ASSUME NEW n, tip[n] \in Block
    PROVE  block_locator(n) \in Seq(Block)
<1> DEFINE h == Height(tip[n])
           from == CHOOSE f : f = [k \in 1..(h + 1) |->
                       IF k = 1 THEN <<h, IF k >= DenseLocator THEN 2 ELSE 1>>
                       ELSE <<f[k - 1][1] - f[k - 1][2],
                              IF k >= DenseLocator THEN 2 * f[k - 1][2] ELSE f[k - 1][2]>>]
           all == [k \in 1..(h + 1) |-> from[k][1]]
           heights == LocatorHeights(h)
<1>1. Active(n) \in Seq(Block) /\ Len(Active(n)) = h + 1 /\ h \in Nat
  BY BranchIs, BranchFacts DEF Active, Height
<1>2. heights = Kept(all, 1..h) \o <<0>>
  BY DEF LocatorHeights
<1> HIDE DEF h, from, heights
<1> DEFINE X == {all[k] : k \in 1..(h + 1)}
<1>3. all \in Seq(X)
  BY <1>1
<1> HIDE DEF all, X
<1>4. Kept(all, 1..h) \in Seq(X)
  BY <1>3, KeptFacts
<1>5. Kept(all, 1..h) \in Seq(0..h)
  <2>1. ToSet(Kept(all, 1..h)) = ToSet(all) \cap (1..h)
    BY <1>3, KeptFacts
  <2>2. ToSet(Kept(all, 1..h)) \subseteq 0..h
    BY <2>1
  <2> QED
    BY <1>4, <2>2, Retyped
<1>6. heights \in Seq(0..h)
  BY <1>1, <1>2, <1>5
<1>7. block_locator(n) = [k \in DOMAIN heights |-> Active(n)[heights[k] + 1]]
  BY DEF block_locator, heights, h
<1>8. \A k \in DOMAIN heights : Active(n)[heights[k] + 1] \in Block
  BY <1>1, <1>6
<1> QED
  BY <1>6, <1>7, <1>8

(* A node announces blocks of the chain it shows.                          *)
LEMMA AnswerFacts ==
    ASSUME NEW n, tip[n] \in Block, stored[n] \subseteq Block, Complete(n), NEW locator \in Seq(Block)
    PROVE  /\ AnswerTo(n, locator) \in Seq(Block)
           /\ ToSet(AnswerTo(n, locator)) \subseteq stored[n]
<1> DEFINE A == Active(n)
           shared == Kept(locator, ToSet(A))
           start == StartHeight(n, locator)
           stop == Min({start + MaxInv, Len(A)})
<1>1. /\ A \in Seq(Block) /\ Len(A) \in Nat /\ ToSet(A) \subseteq stored[n]
      /\ DOMAIN A = 1..Len(A)
  <2>1. A \in Seq(Block)
    BY BranchIs DEF Active
  <2>2. tip[n] \in stored[n] \cap Block
    BY DEF Complete
  <2>3. ToSet(A) \subseteq stored[n]
    BY <2>2, BranchFacts DEF Complete, Active
  <2> QED
    BY <2>1, <2>3
<1>2. start \in Nat \ {0}
  <2>1. shared \in Seq(Block)
    BY KeptFacts
  <2>2. \A b \in Block : Height(b) \in Nat
    BY BranchFacts DEF Height
  <2>3. CASE shared = <<>>
    BY <2>3 DEF StartHeight
  <2>4. CASE shared # <<>>
    <3> HIDE DEF shared
    <3>1. Head(shared) \in Block
      BY <2>1, <2>4
    <3>2. start = Height(Head(shared)) + 1
      BY <2>4 DEF StartHeight, shared
    <3> QED
      BY <2>2, <3>1, <3>2
  <2> QED
    BY <2>3, <2>4
<1> HIDE DEF start, shared, A
<1>3. stop \in Nat /\ stop <= Len(A)
  <2> DEFINE S == {start + MaxInv, Len(A)}
  <2>1. S \in SUBSET Nat /\ S # {}
    BY <1>1, <1>2, NodeAssumption
  <2>2. \E x \in S : \A y \in S : x <= y
    <3> HIDE DEF S
    <3> QED
      BY <2>1, LeastNumber
  <2>3. stop = CHOOSE x \in S : \A y \in S : x <= y
    BY DEF Min
  <2>4. stop \in S /\ \A y \in S : stop <= y
    BY <2>2, <2>3
  <2> QED
    BY <2>1, <2>4
<1>4. AnswerTo(n, locator) = SubSeq(A, start + 1, stop)
  BY DEF AnswerTo, A, start
<1> HIDE DEF stop
<1>5. /\ SubSeq(A, start + 1, stop) \in Seq(Block)
      /\ \A k \in 1..Len(SubSeq(A, start + 1, stop)) :
            SubSeq(A, start + 1, stop)[k] \in ToSet(A)
  <2> PICK q : q = SubSeq(A, start + 1, stop)
    OBVIOUS
  <2>1. q = [k \in 1..(stop - start) |-> A[k + start]]
    BY <1>1, <1>2, <1>3
  <2>2. \A k \in 1..(stop - start) : k + start \in 1..Len(A)
    BY <1>1, <1>2, <1>3
  <2>3. \A k \in 1..(stop - start) : A[k + start] \in ToSet(A) /\ A[k + start] \in Block
    BY <1>1, <2>2 DEF ToSet
  <2>4. q \in Seq(Block) /\ DOMAIN q = 1..Len(q)
    BY <1>1, <1>2, <1>3
  <2>5. \A k \in DOMAIN q : q[k] \in ToSet(A)
    BY <2>1, <2>3
  <2> QED
    BY <2>4, <2>5
<1> QED
  <2> PICK q : q = SubSeq(A, start + 1, stop)
    OBVIOUS
  <2>1. q \in Seq(Block) /\ \A k \in 1..Len(q) : q[k] \in stored[n]
    BY <1>1, <1>5
  <2>2. ToSet(q) \subseteq stored[n]
    BY <2>1 DEF ToSet
  <2> QED
    BY <1>4, <2>1, <2>2

(* The instructions of the handlers are instructions, each for a node. *)
LEMMA InstructionTypes ==
    /\ \A k \in Node : \A msg \in Message : Send(k, msg) \in Instruction
    /\ \A k \in Node : /\ Ask(k) \in Instruction /\ Compare(k) \in Instruction
                       /\ More(k) \in Instruction
    /\ \A k \in Node : \A t \in Tx : ServeTx(k, t) \in Instruction
    /\ \A i \in Instruction : /\ i.to \in Node
                              /\ i.op = "send" => i.msg \in Message
                              /\ i.op = "serve" => i.tx \in Tx
  BY DEF Instruction, Send, Ask, Compare, More, ServeTx

(* The messages of the handlers are messages. *)
LEMMA MessageTypes ==
    /\ \A k \in 0..Cardinality(Block) : Version(k) \in Message
    /\ Verack \in Message
    /\ \A l \in Seq(Block) : GetBlocks(l) \in Message
    /\ \A s \in Seq(Block) : \A T \in SUBSET Tx : Inv(s, T) \in Message /\ GetData(s, T) \in Message
    /\ \A b \in Block : BlockMsg(b) \in Message
    /\ \A t \in Tx : TxMsg(t) \in Message
    /\ \A msg \in Message :
          /\ msg.type = "getblocks" => msg.locator \in Seq(Block)
          /\ msg.type \in {"inv", "getdata"} => msg.blocks \in Seq(Block) /\ msg.txs \in SUBSET Tx
  BY DEF Message, Version, Verack, GetBlocks, Inv, GetData, BlockMsg, TxMsg

(* A broadcast is one announcement to each of some connected peers.        *)
LEMMA BroadcastFacts ==
    ASSUME Shapes, Joined, NEW n \in Node, NEW inv \in Message, NEW except, NEW sends \in Broadcasts(n, inv, except)
    PROVE  /\ sends \in Seq(Instruction)
           /\ \A k \in 1..Len(sends) : \E m \in Node : link[<<n, m>>].up /\ sends[k] = Send(m, inv)
<1> DEFINE S == Handshaked(n) \ {except}
<1>1. \A m \in S : m \in Node /\ link[<<n, m>>].up
  <2>1. ~NoPeer.handshaked
    BY DEF NoPeer
  <2> QED
    BY <2>1 DEF Handshaked, Joined
<1>2. IsFiniteSet(S) /\ Cardinality(S) \in Nat
  <2>1. S \subseteq Node
    BY DEF Handshaked
  <2> QED
    BY <2>1, NodeAssumption, FS_Subset, FS_CardinalityType
<1>3. PICK order \in SetToSeqs(S) : sends = [k \in DOMAIN order |-> Send(order[k], inv)]
  BY DEF Broadcasts
<1> HIDE DEF S
<1>4. order \in [1..Cardinality(S) -> S]
  BY DEF SetToSeqs
<1>5. \A k \in 1..Cardinality(S) : order[k] \in S /\ Send(order[k], inv) \in Instruction
  BY <1>1, <1>4, InstructionTypes
<1>6. sends = [k \in 1..Cardinality(S) |-> Send(order[k], inv)]
  BY <1>3, <1>4
<1>7. sends \in Seq(Instruction) /\ Len(sends) = Cardinality(S)
  BY <1>2, <1>5, <1>6
<1> QED
  BY <1>1, <1>5, <1>6, <1>7

--------------------------------------------------------------------------------
(* Steps that change little. *)

(* A step that keeps connections as they are and forgets no block.         *)
Steady ==
    /\ \A n, m \in Node : link'[<<n, m>>].up <=> link[<<n, m>>].up
    /\ \A n \in Node : stored[n] \subseteq stored'[n]

(* What the chains do in such a step.                                      *)
Extends ==
    /\ stored' \in [Node -> SUBSET Block]
    /\ tip' \in [Node -> Block]
    /\ pool' \in [Node -> SUBSET Tx]
    /\ \A n \in Node : stored[n] \subseteq stored'[n]
    /\ (\A n \in Node : Complete(n))'

(* Awaited is AwaitedIsComing. *)
LEMMA AwaitedAs == AwaitedIsComing <=> Awaited
BY DEF AwaitedIsComing, Awaited, OnItsWay, AsksFor

(* What is true of some blocks stays true when both sides have more. *)
LEMMA TruthLasts ==
    ASSUME NEW msg, NEW S, NEW R, NEW S1, NEW R1, S \subseteq S1, R \subseteq R1,
           Truthful(msg, S, R)
    PROVE  Truthful(msg, S1, R1)
BY DEF Truthful

(* A plan stays sound while connections stand and nothing is forgotten. *)
LEMMA ProperLasts ==
    ASSUME Steady, NEW n \in Node, NEW m \in Node, NEW plan \in Seq(Instruction),
           Proper(link, stored, n, m, plan)
    PROVE  Proper(link', stored', n, m, plan)
<1> SUFFICES ASSUME NEW k \in 1..Len(plan) PROVE Sound(link', stored', n, m, plan[k])
  BY DEF Proper
<1>1. Sound(link, stored, n, m, plan[k]) /\ plan[k].to \in Node
  BY InstructionTypes DEF Proper
<1> QED
  BY <1>1, TruthLasts DEF Sound, Steady

(* The tail of a plan.                                                     *)
LEMMA TailFacts ==
    ASSUME NEW X, NEW s \in Seq(X), s # <<>>
    PROVE  /\ Head(s) \in X /\ Tail(s) \in Seq(X)
           /\ Len(s) \in Nat \ {0} /\ Len(Tail(s)) = Len(s) - 1
           /\ \A k \in 1..Len(Tail(s)) : k + 1 \in 1..Len(s) /\ Tail(s)[k] = s[k + 1]
           /\ s[1] = Head(s)
           /\ \A x \in ToSet(s) : x = Head(s) \/ x \in ToSet(Tail(s))
           /\ ToSet(Tail(s)) \subseteq ToSet(s) /\ Head(s) \in ToSet(s)
<1> PICK t : t = Tail(s)
  OBVIOUS
<1>1. /\ Head(s) \in X /\ t \in Seq(X) /\ s[1] = Head(s)
      /\ Len(s) \in Nat \ {0} /\ Len(t) = Len(s) - 1
      /\ \A k \in 1..Len(t) : t[k] = s[k + 1]
      /\ DOMAIN t = 1..Len(t) /\ DOMAIN s = 1..Len(s)
  OBVIOUS
<1>2. \A k \in 1..Len(t) : k + 1 \in 1..Len(s)
  BY <1>1
<1>3. ASSUME NEW k \in 1..Len(s), k # 1 PROVE s[k] \in ToSet(t)
  <2>1. k - 1 \in 1..Len(t) /\ (k - 1) + 1 = k
    BY <1>1, <1>3
  <2> QED
    BY <1>1, <2>1 DEF ToSet
<1>4. \A x \in ToSet(s) : x = Head(s) \/ x \in ToSet(t)
  BY <1>1, <1>3 DEF ToSet
<1>5. ToSet(t) \subseteq ToSet(s) /\ Head(s) \in ToSet(s)
  BY <1>1, <1>2 DEF ToSet
<1> QED
  BY <1>1, <1>2, <1>4, <1>5

(* What a longer sequence holds where.                                     *)
Longer(r, s, x) ==
    \A k \in 1..Len(r) : /\ k \in 1..Len(s) => r[k] = s[k]
                         /\ k \notin 1..Len(s) => r[k] = x

LEMMA AppendFacts ==
    ASSUME NEW X, NEW s \in Seq(X), NEW x \in X
    PROVE  Longer(Append(s, x), s, x)
<1> PICK r : r = Append(s, x)
  OBVIOUS
<1> DEFINE w == Len(s)
<1>1. /\ Len(r) = w + 1 /\ r[w + 1] = x
      /\ \A k \in 1..w : r[k] = s[k]
  BY ToSetAppend
<1>2. w \in Nat
  OBVIOUS
<1> HIDE DEF w
<1>3. \A k \in 1..(w + 1) : k \in 1..w \/ k = w + 1
  BY <1>2
<1> QED
  BY <1>1, <1>3 DEF w, Longer

LEMMA LastStays == ASSUME NEW p \in Nat, NEW k \in 1..(p - 1) PROVE k + 1 = p => k = p - 1
  OBVIOUS

(* The rest of a proper plan is proper.                                    *)
LEMMA RestProper ==
    ASSUME NEW peers, NEW known, NEW n \in Node, NEW m \in Node,
           NEW plan \in Seq(Instruction), plan # <<>>, Proper(peers, known, n, m, plan)
    PROVE  /\ Proper(peers, known, n, m, Tail(plan))
           /\ Sound(peers, known, n, m, Head(plan))
           /\ Closing(Head(plan)) => Tail(plan) = <<>>
<1> PICK t : t = Tail(plan)
  OBVIOUS
<1>1. /\ Len(plan) \in Nat \ {0} /\ Len(t) = Len(plan) - 1 /\ t \in Seq(Instruction)
      /\ \A k \in 1..Len(t) : k + 1 \in 1..Len(plan) /\ t[k] = plan[k + 1]
      /\ plan[1] = Head(plan)
  BY TailFacts
<1> DEFINE p == Len(plan)
           w == Len(t)
<1>0. p \in Nat /\ w = p - 1
  BY <1>1
<1> HIDE DEF p, w
<1>2. ASSUME NEW k \in 1..w
      PROVE  Sound(peers, known, n, m, t[k]) /\ (Closing(t[k]) => k = w)
  <2>1. k + 1 \in 1..Len(plan) /\ t[k] = plan[k + 1]
    BY <1>1 DEF w
  <2>2. Sound(peers, known, n, m, plan[k + 1]) /\ (Closing(plan[k + 1]) => k + 1 = p)
    BY <2>1 DEF Proper, p
  <2>3. k + 1 = p => k = w
    <3>1. k \in 1..(p - 1)
      BY <1>0
    <3>2. k + 1 = p => k = p - 1
      BY <1>0, <3>1, LastStays
    <3> QED
      BY <1>0, <3>2
  <2> QED
    BY <2>1, <2>2, <2>3
<1>3. Sound(peers, known, n, m, Head(plan)) /\ (Closing(Head(plan)) => Len(plan) = 1)
  <2>1. 1 \in 1..Len(plan)
    BY <1>1
  <2> QED
    BY <1>1, <2>1 DEF Proper
<1>4. Len(plan) = 1 => t = <<>>
  BY <1>1
<1> QED
  BY <1>2, <1>3, <1>4 DEF Proper

(* A step that changes what n keeps for m, the plan of its task for m and  *)
(* the line from r to s, and makes or breaks no connection.                *)
OneChange(n, m, new, plan, r, s, q) ==
    /\ plan \in Seq(Instruction) /\ q \in Seq(Message) /\ new \in PeerRecord
    /\ link' = [link EXCEPT ![<<n, m>>] = new]
    /\ todo' = [todo EXCEPT ![<<n, m>>] = plan]
    /\ wire' = [wire EXCEPT ![<<r, s>>] = q]
    /\ new.up <=> link[<<n, m>>].up
    /\ ~new.up => new = NoPeer
    /\ ~link[<<r, s>>].up => q = <<>>
    /\ \A k \in 1..Len(q) : Truthful(q[k], stored'[r], stored'[s])
    /\ Proper(link', stored', n, m, plan)

(* After such a step all that is left to show is that whatever is awaited  *)
(* is still on its way.                                                    *)
LEMMA OneStep ==
    ASSUME IInv, NEW n \in Node, NEW m \in Node, NEW r \in Node, NEW s \in Node,
           NEW plan, NEW q, NEW new,
           OneChange(n, m, new, plan, r, s, q), Extends, Awaited'
    PROVE  IInv'
<1>0. /\ plan \in Seq(Instruction) /\ q \in Seq(Message) /\ new \in PeerRecord
      /\ link' = [link EXCEPT ![<<n, m>>] = new]
      /\ todo' = [todo EXCEPT ![<<n, m>>] = plan]
      /\ wire' = [wire EXCEPT ![<<r, s>>] = q]
      /\ new.up <=> link[<<n, m>>].up
      /\ ~new.up => new = NoPeer
      /\ ~link[<<r, s>>].up => q = <<>>
      /\ \A k \in 1..Len(q) : Truthful(q[k], stored'[r], stored'[s])
      /\ Proper(link', stored', n, m, plan)
  BY DEF OneChange
<1>1. /\ link \in [Node \X Node -> PeerRecord]
      /\ wire \in [Node \X Node -> Seq(Message)]
      /\ todo \in [Node \X Node -> Seq(Instruction)]
      /\ <<n, m>> \in Node \X Node /\ <<r, s>> \in Node \X Node
  BY DEF IInv, Shapes
<1>2. Shapes'
  BY <1>0, <1>1 DEF Shapes, Extends
<1>3. ASSUME NEW a \in Node, NEW c \in Node
      PROVE  /\ (a = n /\ c = m) => link'[<<a, c>>] = new /\ todo'[<<a, c>>] = plan
             /\ ~(a = n /\ c = m) => /\ link'[<<a, c>>] = link[<<a, c>>]
                                     /\ todo'[<<a, c>>] = todo[<<a, c>>]
             /\ (a = r /\ c = s) => wire'[<<a, c>>] = q
             /\ ~(a = r /\ c = s) => wire'[<<a, c>>] = wire[<<a, c>>]
  <2>1. <<a, c>> \in Node \X Node
    OBVIOUS
  <2> QED
    BY <1>0, <1>1, <2>1
<1>4. ASSUME NEW a \in Node, NEW c \in Node
      PROVE  link'[<<a, c>>].up <=> link[<<a, c>>].up
  <2>1. CASE a = n /\ c = m
    BY <1>0, <1>3, <2>1
  <2>2. CASE ~(a = n /\ c = m)
    BY <1>3, <2>2
  <2> QED
    BY <2>1, <2>2
<1>5. Steady
  BY <1>4 DEF Steady, Extends
<1>6. Joined'
  <2> SUFFICES ASSUME NEW a \in Node, NEW c \in Node
               PROVE  /\ link'[<<a, c>>].up => a # c /\ link'[<<c, a>>].up
                      /\ ~link'[<<a, c>>].up => link'[<<a, c>>] = NoPeer /\ wire'[<<a, c>>] = <<>>
    BY DEF Joined
  <2>1. /\ link'[<<a, c>>].up <=> link[<<a, c>>].up
        /\ link'[<<c, a>>].up <=> link[<<c, a>>].up
    BY <1>4
  <2>2. /\ link[<<a, c>>].up => a # c /\ link[<<c, a>>].up
        /\ ~link[<<a, c>>].up => link[<<a, c>>] = NoPeer /\ wire[<<a, c>>] = <<>>
    BY DEF IInv, Joined
  <2>3. ASSUME ~link[<<a, c>>].up PROVE link'[<<a, c>>] = NoPeer
    <3>1. CASE a = n /\ c = m
      BY <1>0, <1>3, <2>3, <3>1
    <3>2. CASE ~(a = n /\ c = m)
      BY <1>3, <2>2, <2>3, <3>2
    <3> QED
      BY <3>1, <3>2
  <2>4. ASSUME ~link[<<a, c>>].up PROVE wire'[<<a, c>>] = <<>>
    <3>1. CASE a = r /\ c = s
      BY <1>0, <1>3, <2>4, <3>1
    <3>2. CASE ~(a = r /\ c = s)
      BY <1>3, <2>2, <2>4, <3>2
    <3> QED
      BY <3>1, <3>2
  <2> QED
    BY <2>1, <2>2, <2>3, <2>4
<1>7. Spoken'
  <2> SUFFICES ASSUME NEW a \in Node, NEW c \in Node, NEW k \in 1..Len(wire'[<<a, c>>])
               PROVE  Truthful(wire'[<<a, c>>][k], stored'[a], stored'[c])
    BY DEF Spoken
  <2>1. CASE a = r /\ c = s
    BY <1>0, <1>3, <2>1
  <2>2. CASE ~(a = r /\ c = s)
    <3>1. wire'[<<a, c>>] = wire[<<a, c>>]
      BY <1>3, <2>2
    <3>2. Truthful(wire[<<a, c>>][k], stored[a], stored[c])
      BY <3>1 DEF IInv, Spoken
    <3> QED
      BY <1>5, <3>1, <3>2, TruthLasts DEF Steady
  <2> QED
    BY <2>1, <2>2
<1>8. Planned'
  <2> SUFFICES ASSUME NEW a \in Node, NEW c \in Node
               PROVE  Proper(link', stored', a, c, todo'[<<a, c>>])
    BY DEF Planned
  <2>1. CASE a = n /\ c = m
    BY <1>0, <1>3, <2>1
  <2>2. CASE ~(a = n /\ c = m)
    <3>1. /\ todo[<<a, c>>] \in Seq(Instruction) /\ todo'[<<a, c>>] = todo[<<a, c>>]
          /\ Proper(link, stored, a, c, todo[<<a, c>>])
      BY <1>1, <1>3, <2>2 DEF IInv, Planned
    <3> QED
      BY <1>5, <3>1, ProperLasts
  <2> QED
    BY <2>1, <2>2
<1> QED
  BY <1>2, <1>6, <1>7, <1>8 DEF IInv, Extends

--------------------------------------------------------------------------------
(* The three forms of a step of a task. *)

(* A handler of n reads msg from m, keeps new for m from now on and plans  *)
(* what to do about the message.                                           *)
Handled(n, m, msg, new, plan) ==
    /\ Reads(n, m, msg)
    /\ plan \in Seq(Instruction) /\ new \in PeerRecord /\ new.up
    /\ wire' = Received(n, m) /\ todo' = Then(n, m, plan)
    /\ link' = [link EXCEPT ![<<n, m>>] = new]
    /\ Proper(link', stored', n, m, plan)
    /\ \A b \in new.requested_blocks :
          \/ b \in link[<<n, m>>].requested_blocks /\ msg # BlockMsg(b)
          \/ \E k \in 1..Len(plan) : plan[k].op = "send" /\ AsksFor(b, plan[k].msg)
    /\ \A b : AsksFor(b, msg) => Send(m, BlockMsg(b)) \in ToSet(plan)

(* Nothing that is awaited is lost by that.                                *)
LEMMA HandlingStep ==
    ASSUME IInv, NEW n \in Node, NEW m \in Node, NEW msg, NEW new, NEW plan,
           Handled(n, m, msg, new, plan), Extends
    PROVE  IInv'
<1>0. /\ Reads(n, m, msg)
      /\ plan \in Seq(Instruction) /\ new \in PeerRecord /\ new.up
      /\ wire' = Received(n, m) /\ todo' = Then(n, m, plan)
      /\ link' = [link EXCEPT ![<<n, m>>] = new]
      /\ Proper(link', stored', n, m, plan)
      /\ \A b \in new.requested_blocks :
            \/ b \in link[<<n, m>>].requested_blocks /\ msg # BlockMsg(b)
            \/ \E k \in 1..Len(plan) : plan[k].op = "send" /\ AsksFor(b, plan[k].msg)
      /\ \A b : AsksFor(b, msg) => Send(m, BlockMsg(b)) \in ToSet(plan)
  BY DEF Handled
<1> PICK q : q = wire[<<m, n>>]
  OBVIOUS
<1> PICK t : t = Tail(q)
  OBVIOUS
<1>1. /\ link[<<n, m>>].up /\ todo[<<n, m>>] = <<>> /\ q # <<>> /\ msg = Head(q)
      /\ n # m /\ link[<<m, n>>].up
  BY <1>0 DEF Reads, IInv, Joined
<1>2. /\ link \in [Node \X Node -> PeerRecord]
      /\ wire \in [Node \X Node -> Seq(Message)]
      /\ todo \in [Node \X Node -> Seq(Instruction)]
      /\ <<n, m>> \in Node \X Node /\ <<m, n>> \in Node \X Node
      /\ q \in Seq(Message)
  BY DEF IInv, Shapes
<1>3. /\ t \in Seq(Message)
      /\ \A k \in 1..Len(t) : k + 1 \in 1..Len(q) /\ t[k] = q[k + 1]
      /\ \A x \in ToSet(q) : x = msg \/ x \in ToSet(t)
  BY <1>1, <1>2, TailFacts
<1>4. wire' = [wire EXCEPT ![<<m, n>>] = t]
  BY <1>0, <1>2 DEF Received
<1>5. todo' = [todo EXCEPT ![<<n, m>>] = plan]
  BY <1>0 DEF Then
<1>6. \A k \in 1..Len(t) : Truthful(t[k], stored'[m], stored'[n])
  <2> SUFFICES ASSUME NEW k \in 1..Len(t) PROVE Truthful(t[k], stored'[m], stored'[n])
    OBVIOUS
  <2>1. Truthful(q[k + 1], stored[m], stored[n])
    BY <1>3 DEF IInv, Spoken
  <2> QED
    BY <1>3, <2>1, TruthLasts DEF Extends
<1>7. ASSUME NEW a \in Node, NEW c \in Node
      PROVE  /\ (a = n /\ c = m) => link'[<<a, c>>] = new /\ todo'[<<a, c>>] = plan
             /\ ~(a = n /\ c = m) => /\ link'[<<a, c>>] = link[<<a, c>>]
                                     /\ todo'[<<a, c>>] = todo[<<a, c>>]
             /\ (a = m /\ c = n) => wire'[<<a, c>>] = t
             /\ ~(a = m /\ c = n) => wire'[<<a, c>>] = wire[<<a, c>>]
  <2>1. <<a, c>> \in Node \X Node
    OBVIOUS
  <2> QED
    BY <1>0, <1>2, <1>4, <1>5, <2>1
<1>8. Awaited'
  <2> SUFFICES ASSUME NEW a \in Node, NEW c \in Node, NEW b \in link'[<<a, c>>].requested_blocks
               PROVE  \/ \E i \in DOMAIN todo'[<<a, c>>] :
                            todo'[<<a, c>>][i].op = "send" /\ AsksFor(b, todo'[<<a, c>>][i].msg)
                      \/ \E x \in ToSet(wire'[<<a, c>>]) : AsksFor(b, x)
                      \/ Send(a, BlockMsg(b)) \in ToSet(todo'[<<c, a>>])
                      \/ BlockMsg(b) \in ToSet(wire'[<<c, a>>])
    BY DEF Awaited, OnItsWay
  <2>1. CASE /\ a = n /\ c = m
             /\ \E k \in 1..Len(plan) : plan[k].op = "send" /\ AsksFor(b, plan[k].msg)
    <3>1. todo'[<<a, c>>] = plan /\ DOMAIN plan = 1..Len(plan)
      BY <1>0, <1>7, <2>1
    <3> QED
      BY <2>1, <3>1
  <2>2. CASE /\ b \in link[<<a, c>>].requested_blocks
             /\ (a = n /\ c = m) => msg # BlockMsg(b)
    <3>1. OnItsWay(a, c, b)
      BY <2>2 DEF IInv, Awaited
    <3>2. CASE \E i \in DOMAIN todo[<<a, c>>] :
                  todo[<<a, c>>][i].op = "send" /\ AsksFor(b, todo[<<a, c>>][i].msg)
      <4>1. DOMAIN <<>> = {}
        OBVIOUS
      <4>2. ~(a = n /\ c = m)
        BY <1>1, <3>2, <4>1
      <4>3. todo'[<<a, c>>] = todo[<<a, c>>]
        BY <1>7, <4>2
      <4> QED
        BY <3>2, <4>3
    <3>3. CASE \E x \in ToSet(wire[<<a, c>>]) : AsksFor(b, x)
      <4>1. PICK x \in ToSet(wire[<<a, c>>]) : AsksFor(b, x)
        BY <3>3
      <4>2. CASE x \in ToSet(wire'[<<a, c>>])
        BY <4>1, <4>2
      <4>3. CASE x \notin ToSet(wire'[<<a, c>>])
        <5>1. a = m /\ c = n
          BY <1>7, <4>1, <4>3
        <5>2. x = msg
          BY <1>3, <1>7, <4>1, <4>3, <5>1
        <5>3. Send(m, BlockMsg(b)) \in ToSet(plan)
          BY <1>0, <4>1, <5>2
        <5>4. todo'[<<c, a>>] = plan
          BY <1>7, <5>1
        <5> QED
          BY <5>1, <5>3, <5>4
      <4> QED
        BY <4>2, <4>3
    <3>4. CASE Send(a, BlockMsg(b)) \in ToSet(todo[<<c, a>>])
      <4>1. ~(c = n /\ a = m)
        BY <1>1, <3>4, NothingInEmpty
      <4>2. todo'[<<c, a>>] = todo[<<c, a>>]
        BY <1>7, <4>1
      <4> QED
        BY <3>4, <4>2
    <3>5. CASE BlockMsg(b) \in ToSet(wire[<<c, a>>])
      <4>1. CASE c = m /\ a = n
        <5>1. msg # BlockMsg(b)
          BY <2>2, <4>1
        <5>2. wire'[<<c, a>>] = t
          BY <1>7, <4>1
        <5>3. BlockMsg(b) \in ToSet(t)
          BY <1>3, <3>5, <4>1, <5>1
        <5> QED
          BY <5>2, <5>3
      <4>2. CASE ~(c = m /\ a = n)
        <5>1. wire'[<<c, a>>] = wire[<<c, a>>]
          BY <1>7, <4>2
        <5> QED
          BY <3>5, <5>1
      <4> QED
        BY <4>1, <4>2
    <3> QED
      BY <3>1, <3>2, <3>3, <3>4, <3>5 DEF OnItsWay
  <2>3. CASE a = n /\ c = m
    <3>1. b \in new.requested_blocks
      BY <1>7, <2>3
    <3> QED
      BY <1>0, <2>1, <2>2, <2>3, <3>1
  <2>4. CASE ~(a = n /\ c = m)
    <3>1. b \in link[<<a, c>>].requested_blocks
      BY <1>7, <2>4
    <3> QED
      BY <2>2, <2>4, <3>1
  <2> QED
    BY <2>3, <2>4
<1> QED
  <2>1. OneChange(n, m, new, plan, m, n, t)
    BY <1>0, <1>1, <1>3, <1>4, <1>5, <1>6 DEF OneChange
  <2> QED
    BY <1>8, <2>1, OneStep

(* The task of n for m sends what its first instruction says, or something *)
(* that nobody waits for.                                                  *)
Sent(n, m, to, msg) ==
    /\ todo[<<n, m>>] # <<>> /\ to = Current(n, m).to /\ msg \in Message
    /\ wire' = Put(n, to, msg) /\ todo' = Done(n, m)
    /\ UNCHANGED <<stored, tip, pool, link>>
    /\ Truthful(msg, stored[n], stored[to])
    /\ Current(n, m).op = "send" => msg = Current(n, m).msg

(* What was planned is on the wire then.                                   *)
LEMMA SendingStep ==
    ASSUME IInv, NEW n \in Node, NEW m \in Node, NEW to \in Node, NEW msg,
           Sent(n, m, to, msg)
    PROVE  IInv'
<1>0. /\ todo[<<n, m>>] # <<>> /\ to = Current(n, m).to /\ msg \in Message
      /\ wire' = Put(n, to, msg) /\ todo' = Done(n, m)
      /\ UNCHANGED <<stored, tip, pool, link>>
      /\ Truthful(msg, stored[n], stored[to])
      /\ Current(n, m).op = "send" => msg = Current(n, m).msg
  BY DEF Sent
<1> PICK plan : plan = todo[<<n, m>>]
  OBVIOUS
<1> PICK rest : rest = Tail(plan)
  OBVIOUS
<1> PICK i : i = Head(plan)
  OBVIOUS
<1> PICK q : q = Append(wire[<<n, to>>], msg)
  OBVIOUS
<1> PICK old : old = link[<<n, m>>]
  OBVIOUS
<1>1. /\ link \in [Node \X Node -> PeerRecord]
      /\ wire \in [Node \X Node -> Seq(Message)]
      /\ todo \in [Node \X Node -> Seq(Instruction)]
      /\ <<n, m>> \in Node \X Node /\ <<n, to>> \in Node \X Node
      /\ plan \in Seq(Instruction) /\ q \in Seq(Message) /\ wire[<<n, to>>] \in Seq(Message)
      /\ link[<<n, m>>] \in PeerRecord
  <2>1. Shapes
    BY DEF IInv
  <2> QED
    BY <1>0, <2>1, ToSetAppend DEF Shapes
<1>2. /\ i \in Instruction /\ rest \in Seq(Instruction)
      /\ \A x \in ToSet(plan) : x = i \/ x \in ToSet(rest)
  BY <1>0, <1>1, TailFacts
<1>3. /\ Proper(link, stored, n, m, rest) /\ Sound(link, stored, n, m, i)
  BY <1>0, <1>1, RestProper DEF IInv, Planned
<1>4. i = Current(n, m) /\ link[<<n, to>>].up
  BY <1>0, <1>3 DEF Current, Sound
<1>5. link' = [link EXCEPT ![<<n, m>>] = old] /\ old \in PeerRecord
  BY <1>0, <1>1
<1>6. todo' = [todo EXCEPT ![<<n, m>>] = rest] /\ wire' = [wire EXCEPT ![<<n, to>>] = q]
  BY <1>0, <1>1 DEF Done, Put
<1>7. Extends
  BY <1>0 DEF Extends, IInv, Shapes, Complete
<1>8. link' = link /\ stored' = stored
  BY <1>0
<1>9. \A k \in 1..Len(q) : Truthful(q[k], stored'[n], stored'[to])
  <2> SUFFICES ASSUME NEW k \in 1..Len(q) PROVE Truthful(q[k], stored[n], stored[to])
    BY <1>8
  <2>0. \A j \in 1..Len(q) :
            /\ j \in 1..Len(wire[<<n, to>>]) => q[j] = wire[<<n, to>>][j]
            /\ j \notin 1..Len(wire[<<n, to>>]) => q[j] = msg
    <3>1. wire[<<n, to>>] \in Seq(Message) /\ msg \in Message
      BY <1>0, <1>1
    <3>2. Longer(q, wire[<<n, to>>], msg)
      BY <3>1, AppendFacts
    <3> QED
      BY <3>2 DEF Longer
  <2>1. CASE k \in 1..Len(wire[<<n, to>>])
    <3>1. q[k] = wire[<<n, to>>][k]
      BY <2>0, <2>1
    <3> QED
      BY <2>1, <3>1 DEF IInv, Spoken
  <2>2. CASE k \notin 1..Len(wire[<<n, to>>])
    <3>1. q[k] = msg
      BY <2>0, <2>2
    <3> QED
      BY <1>0, <3>1
  <2> QED
    BY <2>1, <2>2
<1>10. Proper(link', stored', n, m, rest)
  BY <1>3, <1>8
<1>11. /\ old.up <=> link[<<n, m>>].up
       /\ ~old.up => old = NoPeer
       /\ ~link[<<n, to>>].up => q = <<>>
  BY <1>4 DEF IInv, Joined
<1>12. ASSUME NEW a \in Node, NEW c \in Node
       PROVE  /\ (a = n /\ c = m) => todo'[<<a, c>>] = rest
              /\ ~(a = n /\ c = m) => todo'[<<a, c>>] = todo[<<a, c>>]
              /\ (a = n /\ c = to) => wire'[<<a, c>>] = q
              /\ ~(a = n /\ c = to) => wire'[<<a, c>>] = wire[<<a, c>>]
  <2>1. <<a, c>> \in Node \X Node
    OBVIOUS
  <2> QED
    BY <1>1, <1>6, <2>1
<1>13. ToSet(wire[<<n, to>>]) \subseteq ToSet(q) /\ msg \in ToSet(q)
  <2>1. ToSet(q) = ToSet(wire[<<n, to>>]) \cup {msg}
    BY <1>1, ToSetAppend
  <2> QED
    BY <2>1
<1>14. ASSUME NEW a \in Node, NEW c \in Node
       PROVE  ToSet(wire[<<a, c>>]) \subseteq ToSet(wire'[<<a, c>>])
  <2>1. CASE a = n /\ c = to
    BY <1>12, <1>13, <2>1
  <2>2. CASE ~(a = n /\ c = to)
    BY <1>12, <2>2
  <2> QED
    BY <2>1, <2>2
<1>15. Awaited'
  <2> SUFFICES ASSUME NEW a \in Node, NEW c \in Node, NEW b \in link'[<<a, c>>].requested_blocks
               PROVE  \/ \E j \in DOMAIN todo'[<<a, c>>] :
                            todo'[<<a, c>>][j].op = "send" /\ AsksFor(b, todo'[<<a, c>>][j].msg)
                      \/ \E x \in ToSet(wire'[<<a, c>>]) : AsksFor(b, x)
                      \/ Send(a, BlockMsg(b)) \in ToSet(todo'[<<c, a>>])
                      \/ BlockMsg(b) \in ToSet(wire'[<<c, a>>])
    BY DEF Awaited, OnItsWay
  <2>1. OnItsWay(a, c, b)
    BY <1>8 DEF IInv, Awaited
  <2>2. CASE \E j \in DOMAIN todo[<<a, c>>] :
                todo[<<a, c>>][j].op = "send" /\ AsksFor(b, todo[<<a, c>>][j].msg)
    <3>1. PICK x \in ToSet(todo[<<a, c>>]) : x.op = "send" /\ AsksFor(b, x.msg)
      BY <2>2 DEF ToSet
    <3>2. CASE a = n /\ c = m
      <4>1. CASE x \in ToSet(rest)
        <5>1. \E j \in DOMAIN rest : rest[j].op = "send" /\ AsksFor(b, rest[j].msg)
          BY <3>1, <4>1 DEF ToSet
        <5>2. todo'[<<a, c>>] = rest
          BY <1>12, <3>2
        <5> QED
          BY <5>1, <5>2
      <4>2. CASE x \notin ToSet(rest)
        <5>1. x = i
          BY <1>2, <3>1, <3>2, <4>2
        <5>2. msg = i.msg /\ AsksFor(b, msg) /\ i.op = "send"
          BY <1>0, <1>4, <3>1, <5>1
        <5>3. to = m
          BY <1>0, <1>3, <1>4, <5>2 DEF Sound, AsksFor
        <5> QED
          BY <1>12, <1>13, <3>2, <5>2, <5>3
      <4> QED
        BY <4>1, <4>2
    <3>3. CASE ~(a = n /\ c = m)
      BY <1>12, <2>2, <3>3
    <3> QED
      BY <3>2, <3>3
  <2>3. CASE \E x \in ToSet(wire[<<a, c>>]) : AsksFor(b, x)
    BY <1>14, <2>3
  <2>4. CASE Send(a, BlockMsg(b)) \in ToSet(todo[<<c, a>>])
    <3>1. CASE c = n /\ a = m
      <4>1. CASE Send(a, BlockMsg(b)) \in ToSet(rest)
        BY <1>12, <3>1, <4>1
      <4>2. CASE Send(a, BlockMsg(b)) \notin ToSet(rest)
        <5>1. i = Send(a, BlockMsg(b))
          BY <1>2, <2>4, <3>1, <4>2
        <5>2. msg = BlockMsg(b) /\ to = a
          BY <1>0, <1>4, <5>1 DEF Send
        <5> QED
          BY <1>12, <1>13, <3>1, <5>2
      <4> QED
        BY <4>1, <4>2
    <3>2. CASE ~(c = n /\ a = m)
      BY <1>12, <2>4, <3>2
    <3> QED
      BY <3>1, <3>2
  <2>5. CASE BlockMsg(b) \in ToSet(wire[<<c, a>>])
    BY <1>14, <2>5
  <2> QED
    BY <2>1, <2>2, <2>3, <2>4, <2>5 DEF OnItsWay
<1> QED
  <2>1. OneChange(n, m, old, rest, n, to, q)
    BY <1>1, <1>2, <1>5, <1>6, <1>9, <1>10, <1>11 DEF OneChange
  <2> QED
    BY <1>7, <1>15, <2>1, OneStep

(* The task of n for m sends nothing: its first instruction is done, or    *)
(* gives way to a request if it is its last.                               *)
Silent(n, m, rest, full) ==
    /\ todo[<<n, m>>] # <<>> /\ Current(n, m).op # "send"
    /\ rest \in Seq(Instruction) /\ full \in BOOLEAN
    /\ todo' = [todo EXCEPT ![<<n, m>>] = rest]
    /\ link' = [link EXCEPT ![<<n, m>>].batch_full = full]
    /\ link[<<n, m>>].up \/ link' = link
    /\ UNCHANGED <<stored, tip, pool, wire>>
    /\ \/ rest = Tail(todo[<<n, m>>])
       \/ Closing(Current(n, m)) /\ rest = <<Ask(m)>>

(* No request and no answer is dropped by that.                            *)
LEMMA SilentStep ==
    ASSUME IInv, NEW n \in Node, NEW m \in Node, NEW rest, NEW full,
           Silent(n, m, rest, full)
    PROVE  IInv'
<1>0. /\ todo[<<n, m>>] # <<>> /\ Current(n, m).op # "send"
      /\ rest \in Seq(Instruction) /\ full \in BOOLEAN
      /\ todo' = [todo EXCEPT ![<<n, m>>] = rest]
      /\ link' = [link EXCEPT ![<<n, m>>].batch_full = full]
      /\ link[<<n, m>>].up \/ link' = link
      /\ UNCHANGED <<stored, tip, pool, wire>>
      /\ \/ rest = Tail(todo[<<n, m>>])
         \/ Closing(Current(n, m)) /\ rest = <<Ask(m)>>
  BY DEF Silent
<1> PICK plan : plan = todo[<<n, m>>]
  OBVIOUS
<1> PICK i : i = Head(plan)
  OBVIOUS
<1> PICK new : new = [link[<<n, m>>] EXCEPT !.batch_full = full]
  OBVIOUS
<1> PICK q : q = wire[<<n, m>>]
  OBVIOUS
<1>1. /\ link \in [Node \X Node -> PeerRecord]
      /\ wire \in [Node \X Node -> Seq(Message)]
      /\ todo \in [Node \X Node -> Seq(Instruction)]
      /\ <<n, m>> \in Node \X Node
      /\ plan \in Seq(Instruction) /\ wire[<<n, m>>] \in Seq(Message)
      /\ link[<<n, m>>] \in PeerRecord
  BY DEF IInv, Shapes
<1>2. /\ i \in Instruction
      /\ \A x \in ToSet(plan) : x = i \/ x \in ToSet(Tail(plan))
      /\ i.op # "send" /\ i = Current(n, m)
  BY <1>0, <1>1, TailFacts DEF Current
<1>3. /\ Proper(link, stored, n, m, Tail(plan)) /\ Sound(link, stored, n, m, i)
      /\ Closing(i) => Tail(plan) = <<>>
  BY <1>0, <1>1, RestProper DEF IInv, Planned
<1>4. /\ new \in PeerRecord /\ new.up = link[<<n, m>>].up
      /\ new.requested_blocks = link[<<n, m>>].requested_blocks
      /\ link' = [link EXCEPT ![<<n, m>>] = new]
  BY <1>0, <1>1 DEF PeerRecord
<1>5. Extends
  BY <1>0 DEF Extends, IInv, Shapes, Complete
<1>6. stored' = stored /\ wire' = wire
  BY <1>0
<1>7. wire' = [wire EXCEPT ![<<n, m>>] = q] /\ q \in Seq(Message)
  BY <1>1, <1>6
<1>8. /\ \A k \in 1..Len(q) : Truthful(q[k], stored'[n], stored'[m])
      /\ ~link[<<n, m>>].up => q = <<>>
  BY <1>6 DEF IInv, Spoken, Joined
<1>9. ~new.up => new = NoPeer
  <2>1. CASE link[<<n, m>>].up
    BY <1>4, <2>1
  <2>2. CASE link' = link /\ ~link[<<n, m>>].up
    <3>1. link[<<n, m>>] = new
      BY <1>1, <1>4, <2>2
    <3> QED
      BY <2>2, <3>1 DEF IInv, Joined
  <2> QED
    BY <1>0, <2>1, <2>2
<1>10. ASSUME NEW a \in Node, NEW c \in Node
       PROVE  /\ (a = n /\ c = m) => todo'[<<a, c>>] = rest /\ link'[<<a, c>>] = new
              /\ ~(a = n /\ c = m) => /\ todo'[<<a, c>>] = todo[<<a, c>>]
                                      /\ link'[<<a, c>>] = link[<<a, c>>]
  <2>1. <<a, c>> \in Node \X Node
    OBVIOUS
  <2> QED
    BY <1>0, <1>1, <1>4, <2>1
<1>11. Steady
  <2> SUFFICES ASSUME NEW a \in Node, NEW c \in Node
               PROVE  link'[<<a, c>>].up <=> link[<<a, c>>].up
    BY <1>6 DEF Steady
  <2>1. CASE a = n /\ c = m
    BY <1>4, <1>10, <2>1
  <2>2. CASE ~(a = n /\ c = m)
    BY <1>10, <2>2
  <2> QED
    BY <2>1, <2>2
<1>12. Proper(link', stored', n, m, rest)
  <2>1. CASE rest = Tail(plan)
    BY <1>0, <1>3, <1>11, <2>1, ProperLasts
  <2>2. CASE Closing(i) /\ rest = <<Ask(m)>>
    <3>1. link[<<n, m>>].up
      BY <1>3, <2>2 DEF Sound
    <3>2. link'[<<n, m>>].up
      BY <1>11, <3>1 DEF Steady
    <3> QED
      BY <2>2, <3>2 DEF Proper, Sound, Closing, Ask
  <2> QED
    BY <1>0, <1>2, <2>1, <2>2
<1>13. ASSUME NEW x \in ToSet(plan), x.op = "send"
       PROVE  x \in ToSet(rest)
  <2>1. x \in ToSet(Tail(plan))
    BY <1>2, <1>13
  <2>2. Tail(plan) # <<>>
    BY <2>1, NothingInEmpty
  <2> QED
    BY <1>0, <1>2, <1>3, <2>1, <2>2
<1>14. Awaited'
  <2> SUFFICES ASSUME NEW a \in Node, NEW c \in Node, NEW b \in link'[<<a, c>>].requested_blocks
               PROVE  \/ \E j \in DOMAIN todo'[<<a, c>>] :
                            todo'[<<a, c>>][j].op = "send" /\ AsksFor(b, todo'[<<a, c>>][j].msg)
                      \/ \E x \in ToSet(wire'[<<a, c>>]) : AsksFor(b, x)
                      \/ Send(a, BlockMsg(b)) \in ToSet(todo'[<<c, a>>])
                      \/ BlockMsg(b) \in ToSet(wire'[<<c, a>>])
    BY DEF Awaited, OnItsWay
  <2>1. b \in link[<<a, c>>].requested_blocks
    <3>1. CASE a = n /\ c = m
      BY <1>4, <1>10, <3>1
    <3>2. CASE ~(a = n /\ c = m)
      BY <1>10, <3>2
    <3> QED
      BY <3>1, <3>2
  <2>2. OnItsWay(a, c, b)
    BY <2>1 DEF IInv, Awaited
  <2>3. CASE \E j \in DOMAIN todo[<<a, c>>] :
                todo[<<a, c>>][j].op = "send" /\ AsksFor(b, todo[<<a, c>>][j].msg)
    <3>1. PICK x \in ToSet(todo[<<a, c>>]) : x.op = "send" /\ AsksFor(b, x.msg)
      BY <2>3 DEF ToSet
    <3>2. x \in ToSet(todo'[<<a, c>>])
      <4>1. CASE a = n /\ c = m
        BY <1>10, <1>13, <3>1, <4>1
      <4>2. CASE ~(a = n /\ c = m)
        BY <1>10, <3>1, <4>2
      <4> QED
        BY <4>1, <4>2
    <3> QED
      BY <3>1, <3>2 DEF ToSet
  <2>4. CASE \E x \in ToSet(wire[<<a, c>>]) : AsksFor(b, x)
    BY <1>6, <2>4
  <2>5. CASE Send(a, BlockMsg(b)) \in ToSet(todo[<<c, a>>])
    <3>1. Send(a, BlockMsg(b)).op = "send"
      BY DEF Send
    <3>2. CASE c = n /\ a = m
      BY <1>10, <1>13, <2>5, <3>1, <3>2
    <3>3. CASE ~(c = n /\ a = m)
      BY <1>10, <2>5, <3>3
    <3> QED
      BY <3>2, <3>3
  <2>6. CASE BlockMsg(b) \in ToSet(wire[<<c, a>>])
    BY <1>6, <2>6
  <2> QED
    BY <2>2, <2>3, <2>4, <2>5, <2>6 DEF OnItsWay
<1> QED
  <2>1. OneChange(n, m, new, rest, n, m, q)
    BY <1>0, <1>4, <1>7, <1>8, <1>9, <1>12 DEF OneChange
  <2> QED
    BY <1>5, <1>14, <2>1, OneStep

--------------------------------------------------------------------------------
(* Steps without a message: submissions, connections and their end. *)

(* A local submission: the task of n for itself has sends to make.         *)
LEMMA LocalStep ==
    ASSUME IInv, NEW n \in Node, todo[<<n, n>>] = <<>>,
           NEW sends \in Seq(Instruction),
           todo' = Then(n, n, sends), link' = link, wire' = wire,
           Extends, Proper(link', stored', n, n, sends)
    PROVE  IInv'
<1> PICK old : old = link[<<n, n>>]
  OBVIOUS
<1> PICK q : q = wire[<<n, n>>]
  OBVIOUS
<1>1. /\ link \in [Node \X Node -> PeerRecord]
      /\ wire \in [Node \X Node -> Seq(Message)]
      /\ todo \in [Node \X Node -> Seq(Instruction)]
      /\ <<n, n>> \in Node \X Node
      /\ old \in PeerRecord /\ q \in Seq(Message)
  BY DEF IInv, Shapes
<1>2. /\ link' = [link EXCEPT ![<<n, n>>] = old]
      /\ wire' = [wire EXCEPT ![<<n, n>>] = q]
      /\ todo' = [todo EXCEPT ![<<n, n>>] = sends]
  BY <1>1 DEF Then
<1>3. /\ old.up <=> link[<<n, n>>].up
      /\ ~old.up => old = NoPeer
      /\ ~link[<<n, n>>].up => q = <<>>
  BY DEF IInv, Joined
<1>4. \A k \in 1..Len(q) : Truthful(q[k], stored'[n], stored'[n])
  <2> SUFFICES ASSUME NEW k \in 1..Len(q) PROVE Truthful(q[k], stored'[n], stored'[n])
    OBVIOUS
  <2>1. Truthful(q[k], stored[n], stored[n])
    BY DEF IInv, Spoken
  <2> QED
    BY <2>1, TruthLasts DEF Extends
<1>5. OneChange(n, n, old, sends, n, n, q)
  BY <1>1, <1>2, <1>3, <1>4 DEF OneChange
<1>6. ASSUME NEW a \in Node, NEW c \in Node
      PROVE  ~(a = n /\ c = n) => todo'[<<a, c>>] = todo[<<a, c>>]
  <2>1. <<a, c>> \in Node \X Node
    OBVIOUS
  <2> QED
    BY <1>1, <1>2, <2>1
<1>7. Awaited'
  <2> SUFFICES ASSUME NEW a \in Node, NEW c \in Node, NEW b \in link[<<a, c>>].requested_blocks
               PROVE  \/ \E i \in DOMAIN todo'[<<a, c>>] :
                            todo'[<<a, c>>][i].op = "send" /\ AsksFor(b, todo'[<<a, c>>][i].msg)
                      \/ \E x \in ToSet(wire[<<a, c>>]) : AsksFor(b, x)
                      \/ Send(a, BlockMsg(b)) \in ToSet(todo'[<<c, a>>])
                      \/ BlockMsg(b) \in ToSet(wire[<<c, a>>])
    BY DEF Awaited, OnItsWay
  <2>1. OnItsWay(a, c, b)
    BY DEF IInv, Awaited
  <2>2. CASE a = n /\ c = n
    <3>1. DOMAIN <<>> = {} /\ ToSet(<<>>) = {}
      BY NothingInEmpty
    <3>2. todo[<<a, c>>] = <<>> /\ todo[<<c, a>>] = <<>>
      BY <2>2
    <3> QED
      BY <2>1, <3>1, <3>2 DEF OnItsWay
  <2>3. CASE ~(a = n /\ c = n)
    <3>1. todo'[<<a, c>>] = todo[<<a, c>>] /\ todo'[<<c, a>>] = todo[<<c, a>>]
      BY <1>6, <2>3
    <3> QED
      BY <2>1, <3>1 DEF OnItsWay
  <2> QED
    BY <2>2, <2>3
<1> QED
  BY <1>5, <1>7, OneStep

(* A new connection: each side has told its height and nothing else.       *)
LEMMA ConnectStep ==
    ASSUME IInv, NEW n \in Node, NEW m \in Node, connect(n, m)
    PROVE  IInv'
<1> PICK v : v = <<Version(Height(tip[n]))>>
  OBVIOUS
<1> PICK w : w = <<Version(Height(tip[m]))>>
  OBVIOUS
<1>1. /\ link \in [Node \X Node -> PeerRecord]
      /\ wire \in [Node \X Node -> Seq(Message)]
      /\ <<n, m>> \in Node \X Node /\ <<m, n>> \in Node \X Node
      /\ n # m /\ ~link[<<n, m>>].up /\ ~link[<<m, n>>].up
      /\ UNCHANGED <<stored, tip, pool, todo>>
      /\ link' = [link EXCEPT ![<<n, m>>] = NewPeer, ![<<m, n>>] = NewPeer]
      /\ wire' = [wire EXCEPT ![<<n, m>>] = v, ![<<m, n>>] = w]
  BY DEF IInv, Shapes, connect, chainVars
<1>2. ASSUME NEW k \in Node
      PROVE  Height(tip[k]) \in 0..Cardinality(Block)
  <2>1. tip[k] \in Block
    BY DEF IInv, Shapes
  <2>2. Len(Branch[tip[k]]) \in Nat \ {0} /\ Len(Branch[tip[k]]) <= Cardinality(Block)
    BY <2>1, BranchFacts
  <2>3. Cardinality(Block) \in Nat
    BY BlockAssumption, FS_CardinalityType
  <2> QED
    BY <2>2, <2>3 DEF Height
<1>3. v \in Seq(Message) /\ w \in Seq(Message)
  <2>1. Version(Height(tip[n])) \in Message /\ Version(Height(tip[m])) \in Message
    BY <1>2, MessageTypes
  <2> QED
    BY <2>1
<1>4. NewPeer \in PeerRecord /\ NewPeer.up /\ NewPeer.requested_blocks = {}
  <2>1. Cardinality(Block) \in Nat
    BY BlockAssumption, FS_CardinalityType
  <2>2. NoPeer \in PeerRecord /\ NoPeer.requested_blocks = {}
    BY <2>1 DEF NoPeer, PeerRecord
  <2> QED
    BY <2>2 DEF NewPeer, PeerRecord
<1>5. ASSUME NEW a \in Node, NEW c \in Node
      PROVE  /\ (a = n /\ c = m) => link'[<<a, c>>] = NewPeer /\ wire'[<<a, c>>] = v
             /\ (a = m /\ c = n) => link'[<<a, c>>] = NewPeer /\ wire'[<<a, c>>] = w
             /\ ~(a = n /\ c = m) /\ ~(a = m /\ c = n) =>
                    link'[<<a, c>>] = link[<<a, c>>] /\ wire'[<<a, c>>] = wire[<<a, c>>]
  <2>1. <<a, c>> \in Node \X Node
    OBVIOUS
  <2> QED
    BY <1>1, <2>1
<1>6. Shapes'
  BY <1>1, <1>3, <1>4 DEF IInv, Shapes
<1>7. (\A k \in Node : Complete(k))'
  BY <1>1 DEF IInv, Complete
<1>8. Joined'
  <2> SUFFICES ASSUME NEW a \in Node, NEW c \in Node
               PROVE  /\ link'[<<a, c>>].up => a # c /\ link'[<<c, a>>].up
                      /\ ~link'[<<a, c>>].up => link'[<<a, c>>] = NoPeer /\ wire'[<<a, c>>] = <<>>
    BY DEF Joined
  <2>1. CASE a = n /\ c = m
    BY <1>1, <1>4, <1>5, <2>1
  <2>2. CASE a = m /\ c = n
    BY <1>1, <1>4, <1>5, <2>2
  <2>3. CASE ~(a = n /\ c = m) /\ ~(a = m /\ c = n)
    <3>1. /\ link'[<<a, c>>] = link[<<a, c>>] /\ wire'[<<a, c>>] = wire[<<a, c>>]
          /\ link'[<<c, a>>] = link[<<c, a>>]
      BY <1>5, <2>3
    <3> QED
      BY <3>1 DEF IInv, Joined
  <2> QED
    BY <2>1, <2>2, <2>3
<1>9. Spoken'
  <2> SUFFICES ASSUME NEW a \in Node, NEW c \in Node, NEW k \in 1..Len(wire'[<<a, c>>])
               PROVE  Truthful(wire'[<<a, c>>][k], stored[a], stored[c])
    BY <1>1 DEF Spoken
  <2>1. \A h, S, R : Truthful(Version(h), S, R)
    BY DEF Truthful, Version
  <2>2. \A k1 \in 1..Len(v) : \E h : v[k1] = Version(h)
    OBVIOUS
  <2>3. \A k1 \in 1..Len(w) : \E h : w[k1] = Version(h)
    OBVIOUS
  <2>4. CASE a = n /\ c = m
    BY <1>5, <2>1, <2>2, <2>4
  <2>5. CASE a = m /\ c = n
    BY <1>5, <2>1, <2>3, <2>5
  <2>6. CASE ~(a = n /\ c = m) /\ ~(a = m /\ c = n)
    <3>1. wire'[<<a, c>>] = wire[<<a, c>>]
      BY <1>5, <2>6
    <3> QED
      BY <3>1 DEF IInv, Spoken
  <2> QED
    BY <2>4, <2>5, <2>6
<1>10. ASSUME NEW a \in Node, NEW c \in Node, link[<<a, c>>].up
       PROVE  link'[<<a, c>>].up /\ link'[<<a, c>>] = link[<<a, c>>]
  BY <1>1, <1>5, <1>10
<1>11. Planned'
  <2> SUFFICES ASSUME NEW a \in Node, NEW c \in Node
               PROVE  Proper(link', stored, a, c, todo[<<a, c>>])
    BY <1>1 DEF Planned
  <2>1. todo[<<a, c>>] \in Seq(Instruction) /\ Proper(link, stored, a, c, todo[<<a, c>>])
    BY DEF IInv, Shapes, Planned
  <2> PICK plan \in Seq(Instruction) : plan = todo[<<a, c>>]
    BY <2>1
  <2>2. ASSUME NEW k \in 1..Len(plan) PROVE Sound(link', stored, a, c, plan[k])
    <3>1. Sound(link, stored, a, c, plan[k]) /\ plan[k].to \in Node
      BY <2>1, InstructionTypes DEF Proper
    <3>2. link'[<<a, plan[k].to>>].up
      BY <1>10, <3>1 DEF Sound
    <3> QED
      BY <3>1, <3>2 DEF Sound
  <2> QED
    BY <2>1, <2>2 DEF Proper
<1>12. Awaited'
  <2>0. todo' = todo
    BY <1>1
  <2> SUFFICES ASSUME NEW a \in Node, NEW c \in Node, NEW b \in link'[<<a, c>>].requested_blocks
               PROVE  \/ \E i \in DOMAIN todo[<<a, c>>] :
                            todo[<<a, c>>][i].op = "send" /\ AsksFor(b, todo[<<a, c>>][i].msg)
                      \/ \E x \in ToSet(wire'[<<a, c>>]) : AsksFor(b, x)
                      \/ Send(a, BlockMsg(b)) \in ToSet(todo[<<c, a>>])
                      \/ BlockMsg(b) \in ToSet(wire'[<<c, a>>])
    BY <2>0 DEF Awaited, OnItsWay
  <2>1. ~(a = n /\ c = m) /\ ~(a = m /\ c = n)
    BY <1>4, <1>5
  <2>2. /\ wire'[<<a, c>>] = wire[<<a, c>>] /\ wire'[<<c, a>>] = wire[<<c, a>>]
        /\ link'[<<a, c>>] = link[<<a, c>>]
    BY <1>5, <2>1
  <2>3. OnItsWay(a, c, b)
    BY <2>2 DEF IInv, Awaited
  <2> QED
    BY <2>2, <2>3 DEF OnItsWay
<1> QED
  BY <1>6, <1>7, <1>8, <1>9, <1>11, <1>12 DEF IInv

(* The end of a connection: both sides forget what they asked each other,  *)
(* and nobody else's plans depend on it.                                   *)
LEMMA ClosedStep ==
    ASSUME IInv, NEW n \in Node, NEW m \in Node, Closed(n, m, todo), UNCHANGED chainVars
    PROVE  IInv'
<1> DEFINE gone(a, c) == (a = n /\ c = m) \/ (a = m /\ c = n)
           stays(a, c) == {i \in ToSet(todo[<<a, c>>]) : <<a, i.to>> \notin Pairs(n, m)}
<1>1. /\ link \in [Node \X Node -> PeerRecord]
      /\ wire \in [Node \X Node -> Seq(Message)]
      /\ todo \in [Node \X Node -> Seq(Instruction)]
      /\ stored' = stored /\ tip' = tip /\ pool' = pool
  BY DEF IInv, Shapes, chainVars
<1>2. \A a, c : <<a, c>> \in Pairs(n, m) <=> gone(a, c)
  BY DEF Pairs
<1>3. /\ link' = [p \in Node \X Node |-> IF p \in Pairs(n, m) THEN NoPeer ELSE link[p]]
      /\ wire' = [p \in Node \X Node |-> IF p \in Pairs(n, m) THEN <<>> ELSE wire[p]]
      /\ todo' = [p \in Node \X Node |->
                   Kept(todo[p], {i \in ToSet(todo[p]) : <<p[1], i.to>> \notin Pairs(n, m)})]
  BY <1>1 DEF Closed
<1>4. ASSUME NEW a \in Node, NEW c \in Node
      PROVE  /\ gone(a, c) => link'[<<a, c>>] = NoPeer /\ wire'[<<a, c>>] = <<>>
             /\ ~gone(a, c) => link'[<<a, c>>] = link[<<a, c>>] /\ wire'[<<a, c>>] = wire[<<a, c>>]
             /\ todo'[<<a, c>>] = Kept(todo[<<a, c>>], stays(a, c))
             /\ todo[<<a, c>>] \in Seq(Instruction)
  <2>1. <<a, c>> \in Node \X Node /\ <<a, c>>[1] = a
    OBVIOUS
  <2>2. /\ <<a, c>> \in Pairs(n, m) => link'[<<a, c>>] = NoPeer /\ wire'[<<a, c>>] = <<>>
        /\ <<a, c>> \notin Pairs(n, m) =>
               link'[<<a, c>>] = link[<<a, c>>] /\ wire'[<<a, c>>] = wire[<<a, c>>]
    BY <1>3, <2>1
  <2>3. todo'[<<a, c>>] = Kept(todo[<<a, c>>], stays(a, c))
    BY <1>3, <2>1
  <2>4. todo[<<a, c>>] \in Seq(Instruction)
    BY <1>1
  <2> HIDE DEF stays, gone
  <2> QED
    BY <1>2, <2>2, <2>3, <2>4
<1>5. ASSUME NEW a \in Node, NEW c \in Node
      PROVE  /\ todo'[<<a, c>>] \in Seq(Instruction)
             /\ ToSet(todo'[<<a, c>>]) = stays(a, c)
             /\ \A L : (\A k \in 1..Len(todo[<<a, c>>]) :
                            todo[<<a, c>>][k] \in L => k = Len(todo[<<a, c>>]))
                       => \A k \in 1..Len(todo'[<<a, c>>]) :
                            todo'[<<a, c>>][k] \in L => k = Len(todo'[<<a, c>>])
  <2>1. stays(a, c) \subseteq ToSet(todo[<<a, c>>])
    OBVIOUS
  <2> HIDE DEF stays
  <2> PICK plan \in Seq(Instruction) : plan = todo[<<a, c>>]
    BY <1>4
  <2>2. todo'[<<a, c>>] = Kept(plan, stays(a, c))
    BY <1>4
  <2>3. /\ Kept(plan, stays(a, c)) \in Seq(Instruction)
        /\ ToSet(Kept(plan, stays(a, c))) = ToSet(plan) \cap stays(a, c)
    BY KeptFacts
  <2>4. \A L : (\A k \in 1..Len(plan) : plan[k] \in L => k = Len(plan))
                     => \A k \in 1..Len(Kept(plan, stays(a, c))) :
                            Kept(plan, stays(a, c))[k] \in L => k = Len(Kept(plan, stays(a, c)))
    BY KeptFacts
  <2> QED
    BY <2>1, <2>2, <2>3, <2>4
<1>6. NoPeer \in PeerRecord /\ ~NoPeer.up /\ NoPeer.requested_blocks = {}
  <2>1. Cardinality(Block) \in Nat
    BY BlockAssumption, FS_CardinalityType
  <2> QED
    BY <2>1 DEF NoPeer, PeerRecord
<1>7. Shapes'
  <2>1. link' \in [Node \X Node -> PeerRecord] /\ wire' \in [Node \X Node -> Seq(Message)]
    BY <1>1, <1>3, <1>6
  <2>2. \A p \in Node \X Node : todo'[p] \in Seq(Instruction)
    <3> HIDE DEF stays
    <3> TAKE p \in Node \X Node
    <3>1. p = <<p[1], p[2]>> /\ p[1] \in Node /\ p[2] \in Node
      OBVIOUS
    <3> QED
      BY <1>5, <3>1
  <2>3. todo' = [p \in Node \X Node |-> todo'[p]]
    BY <1>3
  <2>4. todo' \in [Node \X Node -> Seq(Instruction)]
    BY <2>2, <2>3
  <2> QED
    BY <1>1, <2>1, <2>4 DEF IInv, Shapes
<1>8. (\A k \in Node : Complete(k))'
  BY <1>1 DEF IInv, Complete
<1>9. Joined'
  <2> SUFFICES ASSUME NEW a \in Node, NEW c \in Node
               PROVE  /\ link'[<<a, c>>].up => a # c /\ link'[<<c, a>>].up
                      /\ ~link'[<<a, c>>].up => link'[<<a, c>>] = NoPeer /\ wire'[<<a, c>>] = <<>>
    BY DEF Joined
  <2>1. CASE gone(a, c)
    BY <1>4, <1>6, <2>1
  <2>2. CASE ~gone(a, c)
    <3>1. ~gone(c, a)
      BY <2>2
    <3>2. /\ link'[<<a, c>>] = link[<<a, c>>] /\ wire'[<<a, c>>] = wire[<<a, c>>]
          /\ link'[<<c, a>>] = link[<<c, a>>]
      BY <1>4, <2>2, <3>1
    <3> QED
      BY <3>2 DEF IInv, Joined
  <2> QED
    BY <2>1, <2>2
<1>10. Spoken'
  <2> SUFFICES ASSUME NEW a \in Node, NEW c \in Node, NEW k \in 1..Len(wire'[<<a, c>>])
               PROVE  Truthful(wire'[<<a, c>>][k], stored[a], stored[c])
    BY <1>1 DEF Spoken
  <2>1. CASE gone(a, c)
    <3>1. wire'[<<a, c>>] = <<>>
      BY <1>4, <2>1
    <3> QED
      BY <3>1
  <2>2. CASE ~gone(a, c)
    <3>1. wire'[<<a, c>>] = wire[<<a, c>>]
      BY <1>4, <2>2
    <3> QED
      BY <3>1 DEF IInv, Spoken
  <2> QED
    BY <2>1, <2>2
<1>11. Planned'
  <2> SUFFICES ASSUME NEW a \in Node, NEW c \in Node
               PROVE  Proper(link', stored, a, c, todo'[<<a, c>>])
    BY <1>1 DEF Planned
  <2> PICK plan \in Seq(Instruction) : plan = todo[<<a, c>>]
    BY <1>4
  <2> PICK rest \in Seq(Instruction) : rest = todo'[<<a, c>>]
    BY <1>5
  <2>1. Proper(link, stored, a, c, plan)
    BY DEF IInv, Planned
  <2>2. ASSUME NEW k \in 1..Len(rest) PROVE Sound(link', stored, a, c, rest[k])
    <3> PICK i : i = rest[k]
      OBVIOUS
    <3>1. i \in ToSet(rest) /\ i \in Instruction
      BY DEF ToSet
    <3>2. i \in stays(a, c)
      <4> HIDE DEF stays
      <4> QED
        BY <1>5, <3>1
    <3>3. i \in ToSet(plan) /\ <<a, i.to>> \notin Pairs(n, m)
      BY <3>2
    <3>4. PICK j \in DOMAIN plan : i = plan[j]
      BY <3>3 DEF ToSet
    <3>5. j \in 1..Len(plan)
      OBVIOUS
    <3>6. Sound(link, stored, a, c, i) /\ i.to \in Node
      BY <2>1, <3>1, <3>4, <3>5, InstructionTypes DEF Proper
    <3>7. ~gone(a, i.to)
      BY <1>2, <3>3
    <3>8. link'[<<a, i.to>>] = link[<<a, i.to>>]
      <4> HIDE DEF gone
      <4> QED
        BY <1>4, <3>6, <3>7
    <3> QED
      BY <3>6, <3>8 DEF Sound
  <2>3. \A k \in 1..Len(rest) : Closing(rest[k]) => k = Len(rest)
    <3> DEFINE L == {i \in Instruction : Closing(i)}
    <3>1. \A k \in 1..Len(plan) : plan[k] \in L => k = Len(plan)
      BY <2>1 DEF Proper
    <3>2. \A k \in 1..Len(rest) : rest[k] \in L => k = Len(rest)
      <4> HIDE DEF L
      <4> QED
        BY <1>5, <3>1
    <3>3. \A k \in 1..Len(rest) : rest[k] \in Instruction
      OBVIOUS
    <3> QED
      BY <3>2, <3>3
  <2> QED
    BY <2>2, <2>3 DEF Proper
<1>12. Awaited'
  <2> SUFFICES ASSUME NEW a \in Node, NEW c \in Node, NEW b \in link'[<<a, c>>].requested_blocks
               PROVE  \/ \E i \in DOMAIN todo'[<<a, c>>] :
                            todo'[<<a, c>>][i].op = "send" /\ AsksFor(b, todo'[<<a, c>>][i].msg)
                      \/ \E x \in ToSet(wire'[<<a, c>>]) : AsksFor(b, x)
                      \/ Send(a, BlockMsg(b)) \in ToSet(todo'[<<c, a>>])
                      \/ BlockMsg(b) \in ToSet(wire'[<<c, a>>])
    BY DEF Awaited, OnItsWay
  <2>1. ~gone(a, c) /\ ~gone(c, a)
    BY <1>4, <1>6
  <2>2. /\ wire'[<<a, c>>] = wire[<<a, c>>] /\ wire'[<<c, a>>] = wire[<<c, a>>]
        /\ link'[<<a, c>>] = link[<<a, c>>]
    BY <1>4, <2>1
  <2>3. OnItsWay(a, c, b)
    BY <2>2 DEF IInv, Awaited
  <2>4. CASE \E i \in DOMAIN todo[<<a, c>>] :
                todo[<<a, c>>][i].op = "send" /\ AsksFor(b, todo[<<a, c>>][i].msg)
    <3>1. PICK k \in DOMAIN todo[<<a, c>>] :
                todo[<<a, c>>][k].op = "send" /\ AsksFor(b, todo[<<a, c>>][k].msg)
      BY <2>4
    <3> PICK i : i = todo[<<a, c>>][k]
      OBVIOUS
    <3>2. i \in ToSet(todo[<<a, c>>]) /\ i.op = "send" /\ AsksFor(b, i.msg)
      BY <3>1 DEF ToSet
    <3>3. Sound(link, stored, a, c, i)
      <4>1. k \in 1..Len(todo[<<a, c>>])
        BY <1>4, <3>1
      <4> QED
        BY <4>1 DEF IInv, Planned, Proper
    <3>4. i.to = c
      BY <3>2, <3>3 DEF Sound, AsksFor
    <3>5. i \in ToSet(todo'[<<a, c>>])
      BY <1>2, <1>5, <2>1, <3>2, <3>4
    <3> QED
      BY <3>2, <3>5 DEF ToSet
  <2>5. CASE \E x \in ToSet(wire[<<a, c>>]) : AsksFor(b, x)
    BY <2>2, <2>5
  <2>6. CASE Send(a, BlockMsg(b)) \in ToSet(todo[<<c, a>>])
    <3>1. Send(a, BlockMsg(b)).to = a
      BY DEF Send
    <3> QED
      BY <1>2, <1>5, <2>1, <2>6, <3>1
  <2>7. CASE BlockMsg(b) \in ToSet(wire[<<c, a>>])
    BY <2>2, <2>7
  <2> QED
    BY <2>3, <2>4, <2>5, <2>6, <2>7 DEF OnItsWay
<1> QED
  BY <1>7, <1>8, <1>9, <1>10, <1>11, <1>12 DEF IInv

--------------------------------------------------------------------------------
(* What the handlers rely on. *)

(* Chains that stand still are as complete as they were.                   *)
LEMMA Standing == IInv /\ UNCHANGED <<stored, tip, pool>> => Extends
BY DEF Extends, IInv, Shapes, Complete

(* Whatever is kept for a connected peer, who is connected is the same.    *)
LEMMA SameUp ==
    ASSUME IInv, NEW n \in Node, NEW m \in Node, link[<<n, m>>].up,
           NEW new \in PeerRecord, new.up, link' = [link EXCEPT ![<<n, m>>] = new]
    PROVE  \A a, c \in Node : link'[<<a, c>>].up <=> link[<<a, c>>].up
<1> TAKE a, c \in Node
<1>1. link \in [Node \X Node -> PeerRecord] /\ <<a, c>> \in Node \X Node
  BY DEF IInv, Shapes
<1>2. CASE a = n /\ c = m
  BY <1>1, <1>2
<1>3. CASE ~(a = n /\ c = m)
  BY <1>1, <1>3
<1> QED
  BY <1>2, <1>3

(* Announcements of what n has are sound plans, whoever they are made for. *)
LEMMA BroadcastProper ==
    ASSUME IInv, NEW n \in Node, NEW m \in Node, NEW inv \in Message, inv.type = "inv",
           ToSet(inv.blocks) \subseteq stored'[n],
           \A c \in Node : link[<<n, c>>].up => link'[<<n, c>>].up,
           NEW except, NEW sends \in Broadcasts(n, inv, except)
    PROVE  /\ sends \in Seq(Instruction) /\ Proper(link', stored', n, m, sends)
           /\ \A k \in 1..Len(sends) : ~Closing(sends[k])
           /\ link'[<<n, m>>].up =>
                  /\ Append(sends, More(m)) \in Seq(Instruction)
                  /\ Proper(link', stored', n, m, Append(sends, More(m)))
<1>1. /\ sends \in Seq(Instruction)
      /\ \A k \in 1..Len(sends) : \E c \in Node : link[<<n, c>>].up /\ sends[k] = Send(c, inv)
  BY BroadcastFacts DEF IInv
<1>2. ASSUME NEW k \in 1..Len(sends)
      PROVE  Sound(link', stored', n, m, sends[k]) /\ ~Closing(sends[k])
  <2>1. PICK c \in Node : link[<<n, c>>].up /\ sends[k] = Send(c, inv)
    BY <1>1
  <2>2. /\ sends[k].op = "send" /\ sends[k].to = c /\ sends[k].msg = inv
    BY <2>1 DEF Send
  <2> QED
    BY <2>1, <2>2 DEF Sound, Closing, Truthful
<1>3. Proper(link', stored', n, m, sends)
  BY <1>2 DEF Proper
<1>4. ASSUME link'[<<n, m>>].up
      PROVE  /\ Append(sends, More(m)) \in Seq(Instruction)
             /\ Proper(link', stored', n, m, Append(sends, More(m)))
  <2> PICK d : d = Append(sends, More(m))
    OBVIOUS
  <2>1. More(m) \in Instruction
    BY InstructionTypes
  <2>2. /\ d \in Seq(Instruction) /\ Len(d) = Len(sends) + 1 /\ Len(sends) \in Nat
        /\ \A k \in 1..Len(sends) : d[k] = sends[k]
        /\ d[Len(d)] = More(m)
    BY <1>1, <2>1
  <2>3. Sound(link', stored', n, m, More(m))
    BY <1>4 DEF Sound, More, Closing
  <2>4. ASSUME NEW k \in 1..Len(d)
        PROVE  Sound(link', stored', n, m, d[k]) /\ (Closing(d[k]) => k = Len(d))
    <3>1. CASE k \in 1..Len(sends)
      BY <1>2, <2>2, <3>1
    <3>2. CASE k \notin 1..Len(sends)
      <4>1. k = Len(d)
        BY <2>2, <3>2
      <4> QED
        BY <2>2, <2>3, <4>1
    <3> QED
      BY <3>1, <3>2
  <2> QED
    BY <2>2, <2>4 DEF Proper
<1> QED
  BY <1>1, <1>2, <1>3, <1>4

(* A block whose parent is there keeps a chain complete.                   *)
LEMMA AcceptExtends ==
    ASSUME IInv, NEW n \in Node, NEW b \in Block, b # Genesis => Parent[b] \in stored[n],
           Accept(n, b)
    PROVE  Extends /\ b \in stored'[n]
<1> DEFINE best == IF TotalWork[b] > TotalWork[tip[n]] THEN b ELSE tip[n]
<1>1. /\ stored \in [Node -> SUBSET Block] /\ tip \in [Node -> Block]
      /\ pool \in [Node -> SUBSET Tx]
      /\ \A k \in Node : Complete(k)
  BY DEF IInv, Shapes
<1>2. /\ stored' = [stored EXCEPT ![n] = stored[n] \cup {b}]
      /\ tip' = [tip EXCEPT ![n] = best]
      /\ pool' = [pool EXCEPT ![n] = (pool[n] \cup TxsOn(tip[n])) \ TxsOn(best)]
  BY <1>1 DEF Accept
<1>3. best \in {b, tip[n]} /\ best \in Block
  BY <1>1
<1> HIDE DEF best
<1>4. \A a \in Block : TxsOn(a) \subseteq Tx
  <2> TAKE a \in Block
  <2>1. Branch[a] \in Seq(Block)
    BY BranchIs
  <2>2. \A x \in ToSet(Branch[a]) : x \in Block
    BY <2>1 DEF ToSet
  <2>3. \A x \in Block : Payments[x] \subseteq Tx
    BY BlockAssumption
  <2> QED
    BY <2>2, <2>3 DEF TxsOn
<1>5. /\ stored' \in [Node -> SUBSET Block] /\ tip' \in [Node -> Block]
  BY <1>1, <1>2, <1>3
<1>6. pool' \in [Node -> SUBSET Tx]
  <2>1. (pool[n] \cup TxsOn(tip[n])) \ TxsOn(best) \subseteq Tx
    BY <1>1, <1>4
  <2> QED
    BY <1>1, <1>2, <2>1
<1>7. \A k \in Node : stored[k] \subseteq stored'[k]
  BY <1>1, <1>2
<1>8. (\A k \in Node : Complete(k))'
  <2> SUFFICES ASSUME NEW k \in Node
               PROVE  /\ Genesis \in stored'[k] /\ tip'[k] \in stored'[k]
                      /\ \A a \in stored'[k] \ {Genesis} : Parent[a] \in stored'[k]
    BY DEF Complete
  <2>1. /\ Genesis \in stored[k] /\ tip[k] \in stored[k]
        /\ \A a \in stored[k] \ {Genesis} : Parent[a] \in stored[k]
    BY <1>1 DEF Complete
  <2>2. CASE k = n
    <3>1. stored'[k] = stored[n] \cup {b} /\ tip'[k] \in {b, tip[n]}
      BY <1>1, <1>2, <1>3, <2>2
    <3> QED
      BY <2>1, <2>2, <3>1
  <2>3. CASE k # n
    <3>1. stored'[k] = stored[k] /\ tip'[k] = tip[k]
      BY <1>1, <1>2, <2>3
    <3> QED
      BY <2>1, <3>1
  <2> QED
    BY <2>2, <2>3
<1>9. b \in stored'[n]
  BY <1>1, <1>2
<1> QED
  BY <1>5, <1>6, <1>7, <1>8, <1>9 DEF Extends

(* What n reads from m: a message that says the truth, over a connection.  *)
LEMMA ReadFacts ==
    ASSUME IInv, NEW n \in Node, NEW m \in Node, NEW msg, Reads(n, m, msg)
    PROVE  /\ msg \in Message /\ Truthful(msg, stored[m], stored[n])
           /\ link[<<n, m>>].up /\ link[<<n, m>>] \in PeerRecord /\ n # m
           /\ todo[<<n, m>>] = <<>> /\ wire[<<m, n>>] # <<>> /\ msg = Head(wire[<<m, n>>])
           /\ <<n, m>> \in DOMAIN link /\ <<n, m>> \in DOMAIN todo
<1> PICK q \in Seq(Message) : q = wire[<<m, n>>]
  BY DEF IInv, Shapes
<1>1. q # <<>> /\ msg = Head(q)
  BY DEF Reads
<1>2. msg \in Message /\ 1 \in 1..Len(q) /\ q[1] = msg
  BY <1>1, TailFacts
<1>3. Truthful(q[1], stored[m], stored[n])
  BY <1>2 DEF IInv, Spoken
<1> QED
  BY <1>2, <1>3 DEF Reads, IInv, Shapes, Joined

(* Plans of one act, and of none.                                          *)
LEMMA SingleProper ==
    ASSUME NEW peers, NEW known, NEW n, NEW m
    PROVE  /\ <<>> \in Seq(Instruction) /\ Proper(peers, known, n, m, <<>>)
           /\ \A i \in Instruction :
                 Sound(peers, known, n, m, i)
                 => <<i>> \in Seq(Instruction) /\ Proper(peers, known, n, m, <<i>>)
BY DEF Proper

(* One plan after the other.                                               *)
LEMMA ConcatFacts ==
    ASSUME NEW X, NEW s \in Seq(X), NEW t \in Seq(X)
    PROVE  /\ s \o t \in Seq(X)
           /\ \A k \in 1..Len(s \o t) : (s \o t)[k] \in ToSet(s) \cup ToSet(t)
           /\ ToSet(s) \subseteq ToSet(s \o t)
<1>0. s \o t \in Seq(X)
  OBVIOUS
<1>1. PICK d \in Seq(X) : d = s \o t
  BY <1>0
<1>2. /\ Len(d) = Len(s) + Len(t) /\ Len(s) \in Nat /\ Len(t) \in Nat
      /\ DOMAIN d = 1..Len(d) /\ DOMAIN s = 1..Len(s) /\ DOMAIN t = 1..Len(t)
      /\ \A k \in 1..Len(s) : d[k] = s[k]
      /\ \A k \in 1..Len(d) : k > Len(s) => d[k] = t[k - Len(s)]
  BY <1>1
<1>3. ASSUME NEW k \in 1..Len(d) PROVE d[k] \in ToSet(s) \cup ToSet(t)
  <2>1. CASE k <= Len(s)
    <3>1. k \in 1..Len(s)
      BY <1>2, <2>1
    <3>2. s[k] \in ToSet(s)
      BY <1>2, <3>1 DEF ToSet
    <3> QED
      BY <1>2, <3>1, <3>2
  <2>2. CASE k > Len(s)
    <3>1. k - Len(s) \in 1..Len(t)
      BY <1>2, <2>2
    <3>2. t[k - Len(s)] \in ToSet(t)
      BY <1>2, <3>1 DEF ToSet
    <3> QED
      BY <1>2, <2>2, <3>2
  <2> QED
    BY <1>2, <2>1, <2>2
<1>4. \A k \in 1..Len(s) : k \in 1..Len(d)
  BY <1>2
<1>5. ToSet(s) \subseteq ToSet(d)
  BY <1>2, <1>4 DEF ToSet
<1> QED
  BY <1>1, <1>3, <1>5

(* What a node has asked for is not moved by reading something else.       *)
LEMMA OtherMessages ==
    /\ \A msg : msg.type # "block" => \A b : msg # BlockMsg(b)
    /\ \A msg : msg.type # "getdata" => \A b : ~AsksFor(b, msg)
BY DEF BlockMsg, AsksFor

--------------------------------------------------------------------------------
(* The handlers. *)

(* The handler of version: its answer is one verack (p2p.py,               *)
(* _handle_version).                                                       *)
LEMMA VersionStep ==
    ASSUME IInv, NEW n \in Node, NEW m \in Node, _handle_version(n, m) PROVE IInv'
<1>1. PICK h \in 0..Cardinality(Block) :
        /\ Reads(n, m, Version(h))
        /\ link' = [link EXCEPT ![<<n, m>>].height = h]
        /\ todo' = Then(n, m, <<Send(m, Verack)>>)
        /\ wire' = Received(n, m)
        /\ UNCHANGED <<stored, tip, pool>>
  BY DEF _handle_version, chainVars
<1>msg. PICK msg : msg = Version(h)
  OBVIOUS
<1>new. PICK new : new = [link[<<n, m>>] EXCEPT !.height = h]
  OBVIOUS
<1>plan. PICK plan : plan = <<Send(m, Verack)>>
  OBVIOUS
<1>2. /\ msg \in Message /\ link[<<n, m>>] \in PeerRecord /\ link[<<n, m>>].up
      /\ <<n, m>> \in DOMAIN link
  BY <1>1, <1>msg, ReadFacts
<1>3. /\ new \in PeerRecord /\ new.up
      /\ new.requested_blocks = link[<<n, m>>].requested_blocks
      /\ link' = [link EXCEPT ![<<n, m>>] = new]
  BY <1>1, <1>2, <1>new DEF PeerRecord
<1>4. link'[<<n, m>>].up
  BY <1>2, <1>3
<1>5. plan \in Seq(Instruction) /\ Proper(link', stored', n, m, plan)
  <2>1. Send(m, Verack) \in Instruction
    BY InstructionTypes, MessageTypes
  <2>2. Sound(link', stored', n, m, Send(m, Verack))
    BY <1>4 DEF Sound, Send, Verack, Truthful, Closing
  <2> QED
    BY <1>plan, <2>1, <2>2, SingleProper
<1>6. msg.type = "version"
  BY <1>msg DEF Version
<1>7. \A b : msg # BlockMsg(b) /\ ~AsksFor(b, msg)
  BY <1>6, OtherMessages
<1>8. Handled(n, m, msg, new, plan)
  BY <1>1, <1>msg, <1>plan, <1>3, <1>5, <1>7 DEF Handled
<1> QED
  BY <1>1, <1>8, Standing, HandlingStep

(* The handler of verack: heights are compared next. *)
LEMMA VerackStep ==
    ASSUME IInv, NEW n \in Node, NEW m \in Node, _handle_verack(n, m) PROVE IInv'
<1>1. /\ Reads(n, m, Verack)
      /\ link' = [link EXCEPT ![<<n, m>>].handshaked = TRUE]
      /\ todo' = Then(n, m, <<Compare(m)>>)
      /\ wire' = Received(n, m)
      /\ UNCHANGED <<stored, tip, pool>>
  BY DEF _handle_verack, chainVars
<1>new. PICK new : new = [link[<<n, m>>] EXCEPT !.handshaked = TRUE]
  OBVIOUS
<1>plan. PICK plan : plan = <<Compare(m)>>
  OBVIOUS
<1>2. /\ link[<<n, m>>] \in PeerRecord /\ link[<<n, m>>].up
      /\ <<n, m>> \in DOMAIN link
  BY <1>1, ReadFacts
<1>3. /\ new \in PeerRecord /\ new.up
      /\ new.requested_blocks = link[<<n, m>>].requested_blocks
      /\ link' = [link EXCEPT ![<<n, m>>] = new]
  BY <1>1, <1>2, <1>new DEF PeerRecord
<1>4. link'[<<n, m>>].up
  BY <1>2, <1>3
<1>5. plan \in Seq(Instruction) /\ Proper(link', stored', n, m, plan)
  <2>1. Compare(m) \in Instruction
    BY InstructionTypes
  <2>2. Sound(link', stored', n, m, Compare(m))
    BY <1>4 DEF Sound, Compare, Closing
  <2> QED
    BY <1>plan, <2>1, <2>2, SingleProper
<1>6. Verack.type = "verack"
  BY DEF Verack
<1>7. \A b : Verack # BlockMsg(b) /\ ~AsksFor(b, Verack)
  BY <1>6, OtherMessages
<1>8. Handled(n, m, Verack, new, plan)
  BY <1>1, <1>plan, <1>3, <1>5, <1>7 DEF Handled
<1> QED
  BY <1>1, <1>8, Standing, HandlingStep

(* The handler of getblocks: what it announces is on the chain it shows. *)
LEMMA GetBlocksStep ==
    ASSUME IInv, NEW n \in Node, NEW m \in Node, _handle_getblocks(n, m) PROVE IInv'
<1>msg. PICK msg : msg = Head(wire[<<m, n>>])
  OBVIOUS
<1>hashes. PICK hashes : hashes = AnswerTo(n, msg.locator)
  OBVIOUS
<1>plan. PICK plan : plan = IF hashes = <<>> THEN <<>> ELSE <<Send(m, Inv(hashes, {}))>>
  OBVIOUS
<1>new. PICK new : new = link[<<n, m>>]
  OBVIOUS
<1>1. /\ Reads(n, m, msg) /\ msg.type = "getblocks"
      /\ todo' = Then(n, m, plan)
      /\ wire' = Received(n, m)
      /\ UNCHANGED <<stored, tip, pool>> /\ link' = link
  BY <1>msg, <1>hashes, <1>plan DEF _handle_getblocks, chainVars
<1>2. /\ msg \in Message /\ new \in PeerRecord /\ new.up /\ link[<<n, m>>].up
      /\ link' = [link EXCEPT ![<<n, m>>] = new]
  <2>1. /\ msg \in Message /\ link[<<n, m>>] \in PeerRecord /\ link[<<n, m>>].up
        /\ <<n, m>> \in DOMAIN link
    BY <1>1, ReadFacts
  <2>2. link \in [Node \X Node -> PeerRecord]
    BY DEF IInv, Shapes
  <2> QED
    BY <1>1, <1>new, <2>1, <2>2
<1>3. hashes \in Seq(Block) /\ ToSet(hashes) \subseteq stored[n]
  <2>1. msg.locator \in Seq(Block)
    BY <1>1, <1>2, MessageTypes
  <2>2. tip[n] \in Block /\ stored[n] \subseteq Block /\ Complete(n)
    BY DEF IInv, Shapes
  <2> QED
    BY <1>hashes, <2>1, <2>2, AnswerFacts
<1>4. plan \in Seq(Instruction) /\ Proper(link', stored', n, m, plan)
  <2>1. Inv(hashes, {}) \in Message
    BY <1>3, MessageTypes
  <2>2. Send(m, Inv(hashes, {})) \in Instruction
    BY <2>1, InstructionTypes
  <2>3. Sound(link', stored', n, m, Send(m, Inv(hashes, {})))
    BY <1>1, <1>2, <1>3 DEF Sound, Send, Inv, Truthful, Closing
  <2> QED
    BY <1>plan, <2>2, <2>3, SingleProper
<1>5. \A b : msg # BlockMsg(b) /\ ~AsksFor(b, msg)
  BY <1>1, OtherMessages
<1>6. new.requested_blocks = link[<<n, m>>].requested_blocks
  BY <1>new
<1>7. Handled(n, m, msg, new, plan)
  BY <1>1, <1>2, <1>4, <1>5, <1>6 DEF Handled
<1> QED
  BY <1>1, <1>7, Standing, HandlingStep

(* The handler of inv: everything it puts on request it also asks for, of  *)
(* somebody who has it.                                                    *)
LEMMA InvStep ==
    ASSUME IInv, NEW n \in Node, NEW m \in Node, _handle_inv(n, m) PROVE IInv'
<1>msg. PICK msg : msg = Head(wire[<<m, n>>])
  OBVIOUS
<1>blocks. PICK blocks : blocks = Wanted(n, m, msg.blocks)
  OBVIOUS
<1>txs. PICK txs : txs = msg.txs \ pool[n]
  OBVIOUS
<1>plan. PICK plan : plan = IF blocks = <<>> /\ txs = {} THEN <<>>
                            ELSE <<Send(m, GetData(blocks, txs))>>
  OBVIOUS
<1>full. PICK full : full = (Len(msg.blocks) >= MaxInv)
  OBVIOUS
<1>old. PICK old : old = link[<<n, m>>]
  OBVIOUS
<1>new. PICK new : new = [old EXCEPT !.requested_blocks = old.requested_blocks \cup ToSet(blocks),
                                     !.batch_full = full]
  OBVIOUS
<1>1. /\ Reads(n, m, msg) /\ msg.type = "inv"
      /\ link' = [link EXCEPT ![<<n, m>>].requested_blocks = @ \cup ToSet(blocks),
                              ![<<n, m>>].batch_full = full]
      /\ todo' = Then(n, m, plan)
      /\ wire' = Received(n, m)
      /\ UNCHANGED <<stored, tip, pool>>
  BY <1>msg, <1>blocks, <1>txs, <1>plan, <1>full DEF _handle_inv, chainVars
<1>2. /\ msg \in Message /\ old \in PeerRecord /\ old.up /\ link[<<n, m>>].up
      /\ <<n, m>> \in DOMAIN link /\ Truthful(msg, stored[m], stored[n])
  BY <1>1, <1>old, ReadFacts
<1>3. /\ msg.blocks \in Seq(Block) /\ msg.txs \in SUBSET Tx /\ full \in BOOLEAN
  BY <1>1, <1>2, <1>full, MessageTypes
<1>4. /\ blocks \in Seq(Block) /\ ToSet(blocks) \subseteq ToSet(msg.blocks)
  BY <1>3, <1>blocks, WantedFacts
<1>5. ToSet(blocks) \subseteq stored[m] /\ ToSet(blocks) \subseteq Block
  <2>1. ToSet(msg.blocks) \subseteq stored[m]
    BY <1>1, <1>2 DEF Truthful
  <2>2. stored[m] \subseteq Block
    BY DEF IInv, Shapes
  <2> QED
    BY <1>4, <2>1, <2>2
<1>6. /\ new \in PeerRecord /\ new.up
      /\ new.requested_blocks = old.requested_blocks \cup ToSet(blocks)
  BY <1>2, <1>3, <1>5, <1>new DEF PeerRecord
<1>7. link' = [link EXCEPT ![<<n, m>>] = new]
  BY <1>1, <1>2, <1>old, <1>new
<1>8. link'[<<n, m>>].up
  BY <1>2, <1>6, <1>7
<1>9. GetData(blocks, txs) \in Message
  BY <1>3, <1>4, <1>txs, MessageTypes
<1>10. plan \in Seq(Instruction) /\ Proper(link', stored', n, m, plan)
  <2>1. Send(m, GetData(blocks, txs)) \in Instruction
    BY <1>9, InstructionTypes
  <2>2. Sound(link', stored', n, m, Send(m, GetData(blocks, txs)))
    BY <1>1, <1>5, <1>8 DEF Sound, Send, GetData, Truthful, Closing
  <2> QED
    BY <1>plan, <2>1, <2>2, SingleProper
<1>11. ASSUME NEW b \in ToSet(blocks)
       PROVE  \E k \in 1..Len(plan) : plan[k].op = "send" /\ AsksFor(b, plan[k].msg)
  <2>1. blocks # <<>>
    BY <1>11, NothingInEmpty
  <2>2. plan = <<Send(m, GetData(blocks, txs))>>
    BY <1>plan, <2>1
  <2>3. 1 \in 1..Len(plan) /\ plan[1] = Send(m, GetData(blocks, txs))
    BY <2>2
  <2> QED
    BY <2>3 DEF Send, GetData, AsksFor
<1>12. Handled(n, m, msg, new, plan)
  <2>1. \A b : msg # BlockMsg(b) /\ ~AsksFor(b, msg)
    BY <1>1, OtherMessages
  <2>2. \A b \in new.requested_blocks :
          \/ b \in link[<<n, m>>].requested_blocks /\ msg # BlockMsg(b)
          \/ \E k \in 1..Len(plan) : plan[k].op = "send" /\ AsksFor(b, plan[k].msg)
    BY <1>6, <1>11, <1>old, <2>1
  <2> QED
    BY <1>1, <1>6, <1>7, <1>10, <2>1, <2>2 DEF Handled
<1> QED
  BY <1>1, <1>12, Standing, HandlingStep

(* The sequence of a finite set has only what the set has.                 *)
LEMMA SetToSeqFacts ==
    ASSUME NEW S, IsFiniteSet(S)
    PROVE  SetToSeq(S) \in Seq(S)
<1>1. PICK N \in Nat : N = Cardinality(S) /\ ExistsBijection(1..N, S)
  BY FS_CardinalityType
<1>2. PICK f \in Bijection(1..N, S) : TRUE
  BY <1>1 DEF ExistsBijection
<1>3. f \in [1..N -> S]
  BY <1>2 DEF Bijection, Injection
<1>4. \A a, b \in 1..N : f[a] = f[b] => a = b
  BY <1>2 DEF Bijection, Injection, IsInjective
<1>5. \E g \in [1..N -> S] : IsInjective(g)
  BY <1>3, <1>4 DEF IsInjective
<1>6. SetToSeq(S) \in [1..N -> S]
  BY <1>1, <1>5 DEF SetToSeq
<1> QED
  BY <1>1, <1>6

(* A request for what n has is answered with one body for each block.      *)
LEMMA AnswersAll ==
    ASSUME NEW n \in Node, NEW m \in Node, NEW blocks \in Seq(Block), ToSet(blocks) \subseteq stored[n],
           NEW bodies, bodies = Bodies(n, blocks)
    PROVE  LET first == [k \in DOMAIN bodies |-> Send(m, BlockMsg(bodies[k]))]
           IN  /\ first \in Seq(Instruction)
               /\ \A i \in ToSet(first) : \E b \in Block : i = Send(m, BlockMsg(b))
               /\ \A b \in ToSet(blocks) : Send(m, BlockMsg(b)) \in ToSet(first)
<1>1. bodies \in Seq(Block) /\ ToSet(bodies) = ToSet(blocks)
  <2>1. /\ Kept(blocks, stored[n]) \in Seq(Block)
        /\ ToSet(Kept(blocks, stored[n])) = ToSet(blocks) \cap stored[n]
    BY KeptFacts
  <2> QED
    BY <2>1 DEF Bodies
<1>2. PICK first : first = [k \in DOMAIN bodies |-> Send(m, BlockMsg(bodies[k]))]
  OBVIOUS
<1>3. PICK N \in Nat : N = Len(bodies) /\ DOMAIN bodies = 1..N
  BY <1>1
<1>4. ASSUME NEW k \in 1..N
      PROVE  bodies[k] \in Block /\ Send(m, BlockMsg(bodies[k])) \in Instruction
  <2>1. bodies[k] \in Block
    BY <1>1, <1>3
  <2> QED
    BY <2>1, InstructionTypes, MessageTypes
<1>5. first \in Seq(Instruction) /\ DOMAIN first = 1..N
  BY <1>2, <1>3, <1>4
<1>6. \A k \in 1..N : first[k] = Send(m, BlockMsg(bodies[k]))
  BY <1>2, <1>3
<1>7. \A i \in ToSet(first) : \E b \in Block : i = Send(m, BlockMsg(b))
  BY <1>4, <1>5, <1>6 DEF ToSet
<1>8. ASSUME NEW b \in ToSet(blocks) PROVE Send(m, BlockMsg(b)) \in ToSet(first)
  <2>1. PICK k \in 1..N : b = bodies[k]
    BY <1>1, <1>3, <1>8 DEF ToSet
  <2> QED
    BY <1>5, <1>6, <2>1 DEF ToSet
<1> QED
  BY <1>2, <1>5, <1>7, <1>8

(* The handler of getdata: every block it is asked for is there, so each   *)
(* is answered.                                                            *)
LEMMA GetDataStep ==
    ASSUME IInv, NEW n \in Node, NEW m \in Node, _handle_getdata(n, m) PROVE IInv'
<1>msg. PICK msg : msg = Head(wire[<<m, n>>])
  OBVIOUS
<1>bodies. PICK bodies : bodies = Bodies(n, msg.blocks)
  OBVIOUS
<1>first. PICK first : first = [k \in DOMAIN bodies |-> Send(m, BlockMsg(bodies[k]))]
  OBVIOUS
<1>second. PICK second : second = SetToSeq({ServeTx(m, t) : t \in msg.txs})
  OBVIOUS
<1>plan. PICK plan : plan = first \o second
  OBVIOUS
<1>new. PICK new : new = link[<<n, m>>]
  OBVIOUS
<1>1. /\ Reads(n, m, msg) /\ msg.type = "getdata"
      /\ todo' = Then(n, m, plan)
      /\ wire' = Received(n, m)
      /\ UNCHANGED <<stored, tip, pool>> /\ link' = link
  BY <1>msg, <1>bodies, <1>first, <1>second, <1>plan DEF _handle_getdata, chainVars
<1>2. /\ msg \in Message /\ new \in PeerRecord /\ new.up /\ link[<<n, m>>].up
      /\ Truthful(msg, stored[m], stored[n])
      /\ link' = [link EXCEPT ![<<n, m>>] = new]
  <2>1. /\ msg \in Message /\ link[<<n, m>>] \in PeerRecord /\ link[<<n, m>>].up
        /\ <<n, m>> \in DOMAIN link /\ Truthful(msg, stored[m], stored[n])
    BY <1>1, ReadFacts
  <2>2. link \in [Node \X Node -> PeerRecord]
    BY DEF IInv, Shapes
  <2> QED
    BY <1>1, <1>new, <2>1, <2>2
<1>3. /\ msg.blocks \in Seq(Block) /\ msg.txs \in SUBSET Tx
      /\ ToSet(msg.blocks) \subseteq stored[n]
  BY <1>1, <1>2, MessageTypes DEF Truthful
<1>4. /\ first \in Seq(Instruction)
      /\ \A i \in ToSet(first) : \E b \in Block : i = Send(m, BlockMsg(b))
      /\ \A b \in ToSet(msg.blocks) : Send(m, BlockMsg(b)) \in ToSet(first)
  BY <1>3, <1>bodies, <1>first, AnswersAll
<1>5. /\ second \in Seq(Instruction)
      /\ \A i \in ToSet(second) : \E t \in Tx : i = ServeTx(m, t)
  <2>1. PICK S : S = {ServeTx(m, t) : t \in msg.txs}
    OBVIOUS
  <2>2. IsFiniteSet(S)
    <3>1. IsFiniteSet(msg.txs)
      BY <1>3, NodeAssumption, FS_Subset
    <3>2. PICK f : f = [t \in msg.txs |-> ServeTx(m, t)]
      OBVIOUS
    <3>3. f \in Surjection(msg.txs, S)
      BY <2>1, <3>2 DEF Surjection
    <3> QED
      BY <3>1, <3>3, FS_Surjection
  <2>3. second \in Seq(S)
    BY <1>second, <2>1, <2>2, SetToSeqFacts
  <2>4. \A i \in ToSet(second) : i \in S
    BY <2>3 DEF ToSet
  <2>5. \A i \in S : (\E t \in Tx : i = ServeTx(m, t)) /\ i \in Instruction
    BY <1>3, <2>1, InstructionTypes
  <2>6. ToSet(second) \subseteq Instruction
    BY <2>4, <2>5
  <2> QED
    BY <2>3, <2>4, <2>5, <2>6, Retyped
<1>6. ASSUME NEW i \in ToSet(first) \cup ToSet(second)
      PROVE  Sound(link', stored', n, m, i) /\ ~Closing(i)
  <2>1. CASE i \in ToSet(first)
    <3>1. PICK b \in Block : i = Send(m, BlockMsg(b))
      BY <1>4, <2>1
    <3> QED
      BY <1>1, <1>2, <3>1 DEF Sound, Closing, Send, BlockMsg, Truthful
  <2>2. CASE i \in ToSet(second)
    <3>1. PICK t \in Tx : i = ServeTx(m, t)
      BY <1>5, <2>2
    <3> QED
      BY <1>1, <1>2, <3>1 DEF Sound, Closing, ServeTx
  <2> QED
    BY <2>1, <2>2
<1>7. /\ plan \in Seq(Instruction)
      /\ \A k \in 1..Len(plan) : plan[k] \in ToSet(first) \cup ToSet(second)
      /\ ToSet(first) \subseteq ToSet(plan)
  BY <1>4, <1>5, <1>plan, ConcatFacts
<1>8. Proper(link', stored', n, m, plan)
  BY <1>6, <1>7 DEF Proper
<1>9. \A b : AsksFor(b, msg) => Send(m, BlockMsg(b)) \in ToSet(plan)
  BY <1>4, <1>7 DEF AsksFor
<1>10. \A b : msg # BlockMsg(b)
  BY <1>1, OtherMessages
<1>11. new.requested_blocks = link[<<n, m>>].requested_blocks
  BY <1>new
<1>12. Handled(n, m, msg, new, plan)
  BY <1>1, <1>2, <1>7, <1>8, <1>9, <1>10, <1>11 DEF Handled
<1> QED
  BY <1>1, <1>12, Standing, HandlingStep

(* The handler of block: what has come is on request no more, and all else *)
(* that was still is.                                                      *)
LEMMA BlockStep ==
    ASSUME IInv, NEW n \in Node, NEW m \in Node, _handle_block(n, m) PROVE IInv'
<1>1. PICK b \in Block :
        /\ Reads(n, m, BlockMsg(b))
        /\ link' = [link EXCEPT ![<<n, m>>].requested_blocks = @ \ {b}]
        /\ wire' = Received(n, m)
        /\ \/ /\ b \in stored[n]
              /\ todo' = Then(n, m, <<More(m)>>)
              /\ UNCHANGED chainVars
           \/ /\ b \notin stored[n] /\ IsOrphan(n, b)
              /\ todo' = Then(n, m, <<Ask(m), More(m)>>)
              /\ UNCHANGED chainVars
           \/ /\ b \notin stored[n] /\ ~IsOrphan(n, b)
              /\ Accept(n, b)
              /\ \E sends \in Broadcasts(n, Inv(<<b>>, {}), m) :
                     todo' = Then(n, m, Append(sends, More(m)))
  BY DEF _handle_block
<1>old. PICK old : old = link[<<n, m>>]
  OBVIOUS
<1>new. PICK new : new = [old EXCEPT !.requested_blocks = old.requested_blocks \ {b}]
  OBVIOUS
<1>2. /\ old \in PeerRecord /\ old.up /\ link[<<n, m>>].up /\ <<n, m>> \in DOMAIN link
  BY <1>1, <1>old, ReadFacts
<1>3. /\ new \in PeerRecord /\ new.up
      /\ new.requested_blocks = old.requested_blocks \ {b}
      /\ link' = [link EXCEPT ![<<n, m>>] = new]
  BY <1>1, <1>2, <1>old, <1>new DEF PeerRecord
<1>4. \A a, c \in Node : link'[<<a, c>>].up <=> link[<<a, c>>].up
  BY <1>2, <1>3, SameUp
<1>5. link'[<<n, m>>].up
  BY <1>2, <1>4
<1>6. \A c \in new.requested_blocks : c \in link[<<n, m>>].requested_blocks /\ BlockMsg(b) # BlockMsg(c)
  BY <1>3, <1>old DEF BlockMsg
<1>7. \A c : ~AsksFor(c, BlockMsg(b))
  BY DEF AsksFor, BlockMsg
<1>8. ASSUME NEW plan \in Seq(Instruction), todo' = Then(n, m, plan),
             Proper(link', stored', n, m, plan)
      PROVE  Handled(n, m, BlockMsg(b), new, plan)
  BY <1>1, <1>3, <1>6, <1>7, <1>8 DEF Handled
<1>9. /\ More(m) \in Instruction /\ Ask(m) \in Instruction
      /\ Sound(link', stored', n, m, More(m)) /\ Sound(link', stored', n, m, Ask(m))
      /\ ~Closing(Ask(m))
  BY <1>5, InstructionTypes DEF Sound, More, Ask, Closing
<1>10. CASE todo' = Then(n, m, <<More(m)>>) /\ UNCHANGED chainVars
  <2>1. <<More(m)>> \in Seq(Instruction) /\ Proper(link', stored', n, m, <<More(m)>>)
    BY <1>9, SingleProper
  <2>2. Extends
    BY <1>10, Standing DEF chainVars
  <2> QED
    BY <1>8, <1>10, <2>1, <2>2, HandlingStep
<1>11. CASE todo' = Then(n, m, <<Ask(m), More(m)>>) /\ UNCHANGED chainVars
  <2>1. <<Ask(m), More(m)>> \in Seq(Instruction)
    BY <1>9
  <2>2. Proper(link', stored', n, m, <<Ask(m), More(m)>>)
    BY <1>9 DEF Proper
  <2>3. Extends
    BY <1>11, Standing DEF chainVars
  <2> QED
    BY <1>8, <1>11, <2>1, <2>2, <2>3, HandlingStep
<1>12. CASE /\ ~IsOrphan(n, b) /\ Accept(n, b)
            /\ \E sends \in Broadcasts(n, Inv(<<b>>, {}), m) :
                   todo' = Then(n, m, Append(sends, More(m)))
  <2>1. Extends /\ b \in stored'[n]
    BY <1>12, AcceptExtends DEF IsOrphan
  <2>2. PICK sends \in Broadcasts(n, Inv(<<b>>, {}), m) :
                   todo' = Then(n, m, Append(sends, More(m)))
    BY <1>12
  <2>3. PICK inv \in Message : inv = Inv(<<b>>, {})
    <3>1. <<b>> \in Seq(Block)
      OBVIOUS
    <3> QED
      BY <3>1, MessageTypes
  <2>4. inv.type = "inv" /\ ToSet(inv.blocks) \subseteq stored'[n]
    <3>1. ToSet(<<b>>) = {b}
      BY DEF ToSet
    <3> QED
      BY <2>1, <2>3, <3>1 DEF Inv
  <2>5. \A c \in Node : link[<<n, c>>].up => link'[<<n, c>>].up
    BY <1>4
  <2>6. sends \in Broadcasts(n, inv, m)
    BY <2>2, <2>3
  <2>7. /\ Append(sends, More(m)) \in Seq(Instruction)
        /\ Proper(link', stored', n, m, Append(sends, More(m)))
    BY <1>5, <2>4, <2>5, <2>6, BroadcastProper
  <2> QED
    BY <1>8, <2>1, <2>2, <2>7, HandlingStep
<1> QED
  BY <1>1, <1>10, <1>11, <1>12

(* The handler of tx: a new one is announced, an old one may end the       *)
(* connection.                                                             *)
LEMMA TxStep ==
    ASSUME IInv, NEW n \in Node, NEW m \in Node, _handle_tx(n, m) PROVE IInv'
<1>1. PICK t \in Tx :
        /\ Reads(n, m, TxMsg(t))
        /\ \/ /\ Admits(n, t)
              /\ pool' = [pool EXCEPT ![n] = @ \cup {t}]
              /\ \E sends \in Broadcasts(n, Inv(<<>>, {t}), m) :
                     todo' = Then(n, m, sends)
              /\ wire' = Received(n, m)
              /\ UNCHANGED <<stored, tip, link, banned>>
           \/ /\ ~Admits(n, t)
              /\ _misbehave(n, m, TxScore)
              /\ UNCHANGED chainVars
  BY DEF _handle_tx
<1>2. /\ link[<<n, m>>] \in PeerRecord /\ link[<<n, m>>].up /\ <<n, m>> \in DOMAIN link
      /\ todo[<<n, m>>] = <<>> /\ <<n, m>> \in DOMAIN todo
      /\ link \in [Node \X Node -> PeerRecord] /\ todo \in [Node \X Node -> Seq(Instruction)]
  <2>1. Reads(n, m, TxMsg(t))
    BY <1>1
  <2> QED
    BY <2>1, ReadFacts DEF IInv, Shapes
<1>3. \A b : TxMsg(t) # BlockMsg(b) /\ ~AsksFor(b, TxMsg(t))
  <2>1. TxMsg(t).type = "tx"
    BY DEF TxMsg
  <2> QED
    BY <2>1, OtherMessages
<1>4. CASE /\ pool' = [pool EXCEPT ![n] = @ \cup {t}]
           /\ \E sends \in Broadcasts(n, Inv(<<>>, {t}), m) : todo' = Then(n, m, sends)
           /\ wire' = Received(n, m)
           /\ UNCHANGED <<stored, tip, link>>
  <2>1. PICK sends \in Broadcasts(n, Inv(<<>>, {t}), m) : todo' = Then(n, m, sends)
    BY <1>4
  <2>2. PICK inv \in Message : inv = Inv(<<>>, {t})
    <3>1. <<>> \in Seq(Block) /\ {t} \in SUBSET Tx
      OBVIOUS
    <3> QED
      BY <3>1, MessageTypes
  <2>3. inv.type = "inv" /\ ToSet(inv.blocks) \subseteq stored'[n]
    BY <2>2, NothingInEmpty DEF Inv
  <2>4. \A c \in Node : link[<<n, c>>].up => link'[<<n, c>>].up
    BY <1>4
  <2>5. sends \in Broadcasts(n, inv, m)
    BY <2>1, <2>2
  <2>6. sends \in Seq(Instruction) /\ Proper(link', stored', n, m, sends)
    BY <2>3, <2>4, <2>5, BroadcastProper
  <2>7. Extends
    <3>1. pool' \in [Node -> SUBSET Tx]
      BY <1>4 DEF IInv, Shapes
    <3> QED
      BY <1>4, <3>1 DEF Extends, IInv, Shapes, Complete
  <2>new. PICK new : new = link[<<n, m>>]
    OBVIOUS
  <2>8. /\ new \in PeerRecord /\ new.up /\ link' = [link EXCEPT ![<<n, m>>] = new]
        /\ new.requested_blocks = link[<<n, m>>].requested_blocks
    BY <1>2, <1>4, <2>new
  <2>9. Handled(n, m, TxMsg(t), new, sends)
    BY <1>1, <1>3, <1>4, <2>1, <2>6, <2>8 DEF Handled
  <2> QED
    BY <2>7, <2>9, HandlingStep
<1>5. CASE _misbehave(n, m, TxScore) /\ UNCHANGED chainVars
  <2>score. PICK score : score = link[<<n, m>>].ban_score + TxScore
    OBVIOUS
  <2>1. CASE Closed(n, m, todo)
    BY <1>5, <2>1, ClosedStep
  <2>2. CASE /\ link' = [link EXCEPT ![<<n, m>>].ban_score = score]
             /\ wire' = Received(n, m) /\ UNCHANGED todo
    <3>new. PICK new : new = [link[<<n, m>>] EXCEPT !.ban_score = score]
      OBVIOUS
    <3>1. score \in Nat
      BY <1>2, <2>score, NodeAssumption DEF PeerRecord
    <3>2. /\ new \in PeerRecord /\ new.up /\ link' = [link EXCEPT ![<<n, m>>] = new]
          /\ new.requested_blocks = link[<<n, m>>].requested_blocks
      BY <1>2, <2>2, <3>1, <3>new DEF PeerRecord
    <3>3. todo' = Then(n, m, <<>>)
      BY <1>2, <2>2 DEF Then
    <3>4. <<>> \in Seq(Instruction) /\ Proper(link', stored', n, m, <<>>)
      BY SingleProper
    <3>5. Handled(n, m, TxMsg(t), new, <<>>)
      BY <1>1, <1>3, <2>2, <3>2, <3>3, <3>4 DEF Handled
    <3>6. Extends
      BY <1>5, Standing DEF chainVars
    <3> QED
      BY <3>5, <3>6, HandlingStep
  <2>3. \/ Closed(n, m, todo)
        \/ /\ link' = [link EXCEPT ![<<n, m>>].ban_score = score]
           /\ wire' = Received(n, m) /\ UNCHANGED todo
    <3>1. _misbehave(n, m, TxScore)
      BY <1>5
    <3>2. CASE score >= BanScore
      BY <2>score, <3>1, <3>2 DEF _misbehave
    <3>3. CASE ~(score >= BanScore)
      BY <2>score, <3>1, <3>3 DEF _misbehave
    <3> QED
      BY <3>2, <3>3
  <2> QED
    BY <2>1, <2>2, <2>3
<1> QED
  BY <1>1, <1>4, <1>5

--------------------------------------------------------------------------------
(* The instructions. *)

(* What a plan has to do next.                                             *)
LEMMA CurrentFacts ==
    ASSUME IInv, NEW n \in Node, NEW m \in Node, todo[<<n, m>>] # <<>>
    PROVE  /\ Current(n, m) \in Instruction /\ Current(n, m).to \in Node
           /\ Sound(link, stored, n, m, Current(n, m))
           /\ Tail(todo[<<n, m>>]) \in Seq(Instruction)
           /\ Done(n, m) = [todo EXCEPT ![<<n, m>>] = Tail(todo[<<n, m>>])]
           /\ link \in [Node \X Node -> PeerRecord] /\ <<n, m>> \in Node \X Node
<1>1. PICK plan \in Seq(Instruction) : plan = todo[<<n, m>>]
  BY DEF IInv, Shapes
<1>2. Head(plan) \in Instruction /\ Tail(plan) \in Seq(Instruction) /\ Head(plan).to \in Node
  <2>1. Head(plan) \in Instruction /\ Tail(plan) \in Seq(Instruction)
    BY <1>1, TailFacts
  <2> QED
    BY <2>1, InstructionTypes
<1>3. Proper(link, stored, n, m, plan)
  BY <1>1 DEF IInv, Planned
<1>4. Sound(link, stored, n, m, Head(plan))
  BY <1>1, <1>3, RestProper
<1>5. Done(n, m) = [todo EXCEPT ![<<n, m>>] = Tail(todo[<<n, m>>])]
  BY DEF Done, IInv, Shapes
<1> QED
  BY <1>1, <1>2, <1>4, <1>5 DEF Current, IInv, Shapes

(* A task sends what it has planned to send. *)
LEMMA SendsStep ==
    ASSUME IInv, NEW n \in Node, NEW m \in Node, Sends(n, m) PROVE IInv'
<1>1. /\ todo[<<n, m>>] # <<>> /\ Current(n, m).op = "send"
      /\ wire' = Put(n, Current(n, m).to, Current(n, m).msg) /\ todo' = Done(n, m)
      /\ UNCHANGED <<stored, tip, pool, link>>
  BY DEF Sends, chainVars
<1>2. PICK to \in Node : to = Current(n, m).to
  BY <1>1, CurrentFacts
<1>3. PICK msg \in Message : msg = Current(n, m).msg
  BY <1>1, CurrentFacts, InstructionTypes
<1>4. Truthful(msg, stored[n], stored[to])
  BY <1>1, <1>2, <1>3, CurrentFacts DEF Sound
<1>5. Sent(n, m, to, msg)
  BY <1>1, <1>2, <1>3, <1>4 DEF Sent
<1> QED
  BY <1>5, SendingStep

(* A task asks for blocks above its locator. *)
LEMMA RequestStep ==
    ASSUME IInv, NEW n \in Node, NEW m \in Node, _request_blocks(n, m) PROVE IInv'
<1>1. /\ todo[<<n, m>>] # <<>> /\ Current(n, m).op = "ask"
      /\ wire' = Put(n, Current(n, m).to, GetBlocks(block_locator(n))) /\ todo' = Done(n, m)
      /\ UNCHANGED <<stored, tip, pool, link>>
  BY DEF _request_blocks, chainVars
<1>2. PICK to \in Node : to = Current(n, m).to
  BY <1>1, CurrentFacts
<1>3. PICK msg \in Message : msg = GetBlocks(block_locator(n))
  <2>1. tip[n] \in Block
    BY DEF IInv, Shapes
  <2> QED
    BY <2>1, LocatorFacts, MessageTypes
<1>4. Truthful(msg, stored[n], stored[to])
  BY <1>3 DEF Truthful, GetBlocks
<1>5. Sent(n, m, to, msg)
  BY <1>1, <1>2, <1>3, <1>4 DEF Sent
<1> QED
  BY <1>5, SendingStep

(* An instruction that does nothing more than go.                          *)
LEMMA GoneStep ==
    ASSUME IInv, NEW n \in Node, NEW m \in Node, todo[<<n, m>>] # <<>>,
           Current(n, m).op # "send", todo' = Done(n, m),
           UNCHANGED <<stored, tip, pool, link, wire>>
    PROVE  IInv'
<1>1. PICK full \in BOOLEAN : full = link[<<n, m>>].batch_full
  BY CurrentFacts DEF PeerRecord
<1>rest. PICK rest : rest = Tail(todo[<<n, m>>])
  OBVIOUS
<1>2. link' = [link EXCEPT ![<<n, m>>].batch_full = full]
  <2>1. PICK old \in PeerRecord : old = link[<<n, m>>]
    BY CurrentFacts
  <2>2. [old EXCEPT !.batch_full = full] = old
    BY <1>1, <2>1 DEF PeerRecord
  <2> QED
    BY <2>1, <2>2, CurrentFacts
<1>3. rest \in Seq(Instruction) /\ todo' = [todo EXCEPT ![<<n, m>>] = rest]
  BY <1>rest, CurrentFacts
<1>4. Silent(n, m, rest, full)
  BY <1>rest, <1>1, <1>2, <1>3 DEF Silent
<1> QED
  BY <1>4, SilentStep

(* A task answers with a transaction, if it is still there. *)
LEMMA ServesStep ==
    ASSUME IInv, NEW n \in Node, NEW m \in Node, Serves(n, m) PROVE IInv'
<1>1. /\ todo[<<n, m>>] # <<>> /\ Current(n, m).op = "serve" /\ todo' = Done(n, m)
      /\ UNCHANGED <<stored, tip, pool, link>>
  BY DEF Serves, chainVars
<1>2. CASE Current(n, m).tx \in pool[n]
  <2>1. PICK to \in Node : to = Current(n, m).to
    BY <1>1, CurrentFacts
  <2>2. PICK msg \in Message : msg = TxMsg(Current(n, m).tx)
    BY <1>1, CurrentFacts, InstructionTypes, MessageTypes
  <2>3. wire' = Put(n, to, msg)
    BY <1>2, <2>1, <2>2 DEF Serves
  <2>4. Truthful(msg, stored[n], stored[to])
    BY <2>2 DEF Truthful, TxMsg
  <2>5. Sent(n, m, to, msg)
    BY <1>1, <2>1, <2>2, <2>3, <2>4 DEF Sent
  <2> QED
    BY <2>5, SendingStep
<1>3. CASE Current(n, m).tx \notin pool[n]
  <2>1. UNCHANGED wire
    BY <1>3 DEF Serves
  <2> QED
    BY <1>1, <2>1, GoneStep
<1> QED
  BY <1>2, <1>3

(* A task asks a taller peer for blocks. *)
LEMMA ComparesStep ==
    ASSUME IInv, NEW n \in Node, NEW m \in Node, Compares(n, m) PROVE IInv'
<1>1. /\ todo[<<n, m>>] # <<>> /\ Current(n, m).op = "compare"
      /\ todo' \in {Then(n, m, <<Ask(m)>>), Done(n, m)}
      /\ UNCHANGED <<stored, tip, pool, link, wire>>
  BY DEF Compares, chainVars
<1>2. CASE todo' = Done(n, m)
  BY <1>1, <1>2, GoneStep
<1>3. CASE todo' = Then(n, m, <<Ask(m)>>)
  <2>1. PICK full \in BOOLEAN : full = link[<<n, m>>].batch_full
    BY <1>1, CurrentFacts DEF PeerRecord
  <2>2. link' = [link EXCEPT ![<<n, m>>].batch_full = full]
    <3>1. PICK old \in PeerRecord : old = link[<<n, m>>]
      BY <1>1, CurrentFacts
    <3>2. [old EXCEPT !.batch_full = full] = old
      BY <2>1, <3>1 DEF PeerRecord
    <3> QED
      BY <1>1, <3>1, <3>2, CurrentFacts
  <2>3. PICK rest \in Seq(Instruction) : rest = <<Ask(m)>>
    <3>1. Ask(m) \in Instruction
      BY InstructionTypes
    <3>2. <<Ask(m)>> \in Seq(Instruction)
      BY <3>1
    <3> QED
      BY <3>2
  <2>4. todo' = [todo EXCEPT ![<<n, m>>] = rest]
    BY <1>3, <2>3 DEF Then
  <2>5. Silent(n, m, rest, full)
    BY <1>1, <2>2, <2>3, <2>4 DEF Silent, Closing
  <2> QED
    BY <2>5, SilentStep
<1> QED
  BY <1>1, <1>2, <1>3

(* A task asks for what comes after a full batch. *)
LEMMA ContinuesStep ==
    ASSUME IInv, NEW n \in Node, NEW m \in Node, Continues(n, m) PROVE IInv'
<1>again. PICK again : again = (link[<<n, m>>].requested_blocks = {} /\ link[<<n, m>>].batch_full)
  OBVIOUS
<1>1. /\ todo[<<n, m>>] # <<>> /\ Current(n, m).op = "more"
      /\ link' = IF again THEN [link EXCEPT ![<<n, m>>].batch_full = FALSE] ELSE link
      /\ todo' = IF again THEN [todo EXCEPT ![<<n, m>>] = <<Ask(m)>>] ELSE Done(n, m)
      /\ UNCHANGED <<stored, tip, pool, wire>>
  BY <1>again DEF Continues, chainVars
<1>2. CASE ~again
  BY <1>1, <1>2, GoneStep
<1>3. CASE again
  <2>1. PICK rest \in Seq(Instruction) : rest = <<Ask(m)>>
    <3>1. Ask(m) \in Instruction
      BY InstructionTypes
    <3>2. <<Ask(m)>> \in Seq(Instruction)
      BY <3>1
    <3> QED
      BY <3>2
  <2>2. link[<<n, m>>].up
    <3>1. Current(n, m).to = m /\ link[<<n, Current(n, m).to>>].up
      BY <1>1, CurrentFacts DEF Sound, Closing
    <3> QED
      BY <3>1
  <2>3. Silent(n, m, rest, FALSE)
    BY <1>1, <1>3, <2>1, <2>2 DEF Silent, Closing
  <2> QED
    BY <2>3, SilentStep
<1> QED
  BY <1>2, <1>3

--------------------------------------------------------------------------------
(* What a node does by itself. *)

(* A block that is found is announced by a task of its own. *)
LEMMA MineStep ==
    ASSUME IInv, NEW n \in Node, Mine(n) PROVE IInv'
<1>1. PICK b \in Found :
        /\ Parent[b] = tip[n] /\ todo[<<n, n>>] = <<>> /\ Accept(n, b)
        /\ \E sends \in Broadcasts(n, Inv(<<b>>, {}), n) : todo' = Then(n, n, sends)
        /\ UNCHANGED <<link, wire>>
  BY DEF Mine
<1>2. b \in Block /\ Parent[b] \in stored[n]
  BY <1>1, BlockAssumption DEF IInv, Complete
<1>3. Extends /\ b \in stored'[n]
  BY <1>1, <1>2, AcceptExtends
<1>4. PICK sends \in Broadcasts(n, Inv(<<b>>, {}), n) : todo' = Then(n, n, sends)
  BY <1>1
<1>5. PICK inv \in Message : inv = Inv(<<b>>, {})
  <2>1. <<b>> \in Seq(Block)
    BY <1>2
  <2> QED
    BY <2>1, MessageTypes
<1>6. inv.type = "inv" /\ ToSet(inv.blocks) \subseteq stored'[n]
  <2>1. ToSet(<<b>>) = {b}
    BY DEF ToSet
  <2> QED
    BY <1>3, <1>5, <2>1 DEF Inv
<1>7. \A c \in Node : link[<<n, c>>].up => link'[<<n, c>>].up
  BY <1>1
<1>8. sends \in Broadcasts(n, inv, n)
  BY <1>4, <1>5
<1>9. sends \in Seq(Instruction) /\ Proper(link', stored', n, n, sends)
  BY <1>6, <1>7, <1>8, BroadcastProper
<1> QED
  BY <1>1, <1>3, <1>4, <1>9, LocalStep

(* So is a payment of the node's own wallet. *)
LEMMA SubmitStep ==
    ASSUME IInv, NEW n \in Node, Submit(n) PROVE IInv'
<1>1. PICK t \in Submitted[n] :
        /\ todo[<<n, n>>] = <<>>
        /\ pool' = [pool EXCEPT ![n] = @ \cup {t}]
        /\ \E sends \in Broadcasts(n, Inv(<<>>, {t}), n) : todo' = Then(n, n, sends)
        /\ UNCHANGED <<stored, tip, link, wire>>
  BY DEF Submit
<1>2. t \in Tx
  BY NodeAssumption
<1>3. Extends
  <2>1. pool' \in [Node -> SUBSET Tx]
    BY <1>1, <1>2 DEF IInv, Shapes
  <2> QED
    BY <1>1, <2>1 DEF Extends, IInv, Shapes, Complete
<1>4. PICK sends \in Broadcasts(n, Inv(<<>>, {t}), n) : todo' = Then(n, n, sends)
  BY <1>1
<1>5. PICK inv \in Message : inv = Inv(<<>>, {t})
  <2>1. <<>> \in Seq(Block) /\ {t} \in SUBSET Tx
    BY <1>2
  <2> QED
    BY <2>1, MessageTypes
<1>6. inv.type = "inv" /\ ToSet(inv.blocks) \subseteq stored'[n]
  BY <1>5, NothingInEmpty DEF Inv
<1>7. \A c \in Node : link[<<n, c>>].up => link'[<<n, c>>].up
  BY <1>1
<1>8. sends \in Broadcasts(n, inv, n)
  BY <1>4, <1>5
<1>9. sends \in Seq(Instruction) /\ Proper(link', stored', n, n, sends)
  BY <1>6, <1>7, <1>8, BroadcastProper
<1> QED
  BY <1>1, <1>3, <1>4, <1>9, LocalStep

--------------------------------------------------------------------------------
(* All of it together. *)

(* A node that has blocks starts with one of those with most work.         *)
LEMMA HeaviestExists ==
    ASSUME NEW S \in SUBSET Block, S # {}
    PROVE  HeaviestOf(S) \in S /\ \A a \in S : TotalWork[a] <= TotalWork[HeaviestOf(S)]
<1>1. PICK W : W = {TotalWork[b] : b \in S}
  OBVIOUS
<1>2. W \in SUBSET Nat /\ W # {} /\ IsFiniteSet(W)
  <2>1. W \subseteq Nat /\ W # {}
    BY <1>1, TotalWorkType
  <2>2. IsFiniteSet(S)
    BY BlockAssumption, FS_Subset
  <2>3. PICK f : f = [b \in S |-> TotalWork[b]]
    OBVIOUS
  <2>4. f \in Surjection(S, W)
    BY <1>1, <2>3 DEF Surjection
  <2> QED
    BY <2>1, <2>2, <2>4, FS_Surjection
<1>3. PICK x \in W : \A y \in W : y <= x
  BY <1>2, GreatestNumber
<1>4. PICK b \in S : TotalWork[b] = x
  BY <1>1, <1>3
<1>5. \A a \in S : TotalWork[a] <= TotalWork[b]
  BY <1>1, <1>3, <1>4
<1> QED
  BY <1>5 DEF HeaviestOf

(* In the beginning everybody has what it holds, connected peers have      *)
(* finished their handshake, and nothing is on its way.                    *)
LEMMA Start == Init => IInv
<1> SUFFICES ASSUME Init PROVE IInv
  OBVIOUS
<1>1. /\ stored = Held /\ tip = [n \in Node |-> HeaviestOf(Held[n])]
      /\ pool = [n \in Node |-> {}]
      /\ wire = [p \in Node \X Node |-> <<>>]
      /\ todo = [p \in Node \X Node |-> <<>>]
  BY DEF Init
<1>2. \A n \in Node : HeaviestOf(Held[n]) \in Held[n]
  <2> TAKE n \in Node
  <2>1. Held[n] \in SUBSET Block /\ Held[n] # {}
    BY NodeAssumption
  <2> QED
    BY <2>1, HeaviestExists
<1>3. tip \in [Node -> Block] /\ \A n \in Node : tip[n] \in stored[n]
  BY <1>1, <1>2, NodeAssumption
<1>4. Cardinality(Block) \in Nat
  BY BlockAssumption, FS_CardinalityType
<1>5. \A n \in Node : Height(tip[n]) \in 0..Cardinality(Block)
  <2> TAKE n \in Node
  <2>1. Len(Branch[tip[n]]) \in Nat \ {0} /\ Len(Branch[tip[n]]) <= Cardinality(Block)
    BY <1>3, BranchFacts
  <2> QED
    BY <1>4, <2>1 DEF Height
<1>6. NoPeer \in PeerRecord /\ ~NoPeer.up /\ NoPeer.requested_blocks = {}
  BY <1>4 DEF NoPeer, PeerRecord
<1>7. ASSUME NEW h \in 0..Cardinality(Block)
      PROVE  /\ [NewPeer EXCEPT !.handshaked = TRUE, !.height = h] \in PeerRecord
             /\ [NewPeer EXCEPT !.handshaked = TRUE, !.height = h].up
             /\ [NewPeer EXCEPT !.handshaked = TRUE, !.height = h].requested_blocks = {}
  <2>1. NewPeer \in PeerRecord /\ NewPeer.up /\ NewPeer.requested_blocks = {}
    BY <1>6 DEF NewPeer, PeerRecord
  <2> QED
    BY <2>1 DEF PeerRecord
<1>8. ASSUME NEW n \in Node, NEW m \in Node
      PROVE  /\ <<n, m>> \in Established =>
                    /\ link[<<n, m>>] \in PeerRecord /\ link[<<n, m>>].up
                    /\ link[<<n, m>>].requested_blocks = {}
             /\ <<n, m>> \notin Established => link[<<n, m>>] = NoPeer
             /\ wire[<<n, m>>] = <<>> /\ todo[<<n, m>>] = <<>>
  <2>1. <<n, m>> \in Node \X Node /\ <<n, m>>[2] = m
    OBVIOUS
  <2>2. link[<<n, m>>] = IF <<n, m>> \in Established
                         THEN [NewPeer EXCEPT !.handshaked = TRUE, !.height = Height(tip[m])]
                         ELSE NoPeer
    BY <2>1 DEF Init
  <2>3. ASSUME <<n, m>> \in Established
        PROVE  /\ link[<<n, m>>] \in PeerRecord /\ link[<<n, m>>].up
               /\ link[<<n, m>>].requested_blocks = {}
    <3> PICK h : h = Height(tip[m])
      OBVIOUS
    <3>1. h \in 0..Cardinality(Block)
      BY <1>5
    <3>2. link[<<n, m>>] = [NewPeer EXCEPT !.handshaked = TRUE, !.height = h]
      BY <2>2, <2>3
    <3> QED
      BY <1>7, <3>1, <3>2
  <2>4. <<n, m>> \notin Established => link[<<n, m>>] = NoPeer
    BY <2>2
  <2>5. wire[<<n, m>>] = <<>> /\ todo[<<n, m>>] = <<>>
    BY <1>1, <2>1
  <2> QED
    BY <2>3, <2>4, <2>5
<1>9. Shapes
  <2>1. link \in [Node \X Node -> PeerRecord]
    <3>1. \A p \in Node \X Node : link[p] \in PeerRecord
      <4> TAKE p \in Node \X Node
      <4>1. p = <<p[1], p[2]>> /\ p[1] \in Node /\ p[2] \in Node
        OBVIOUS
      <4> QED
        BY <1>6, <1>8, <4>1
    <3>2. link = [p \in Node \X Node |-> link[p]]
      BY DEF Init
    <3> QED
      BY <3>1, <3>2
  <2>2. wire \in [Node \X Node -> Seq(Message)] /\ todo \in [Node \X Node -> Seq(Instruction)]
    BY <1>1
  <2>3. stored \in [Node -> SUBSET Block] /\ pool \in [Node -> SUBSET Tx]
    BY <1>1, NodeAssumption
  <2> QED
    BY <1>3, <2>1, <2>2, <2>3 DEF Shapes
<1>10. \A n \in Node : Complete(n)
  BY <1>1, <1>3, NodeAssumption DEF Complete
<1>11. Joined
  <2> SUFFICES ASSUME NEW n \in Node, NEW m \in Node
               PROVE  /\ link[<<n, m>>].up => n # m /\ link[<<m, n>>].up
                      /\ ~link[<<n, m>>].up => link[<<n, m>>] = NoPeer /\ wire[<<n, m>>] = <<>>
    BY DEF Joined
  <2>1. CASE <<n, m>> \in Established
    <3>1. <<m, n>> \in Established
      <4>1. \A p \in Established : <<p[2], p[1]>> \in Established
        BY NodeAssumption
      <4> QED
        BY <2>1, <4>1
    <3>2. n # m
      <4>1. \A p \in Established : p[1] # p[2]
        BY NodeAssumption
      <4> QED
        BY <2>1, <4>1
    <3> QED
      BY <1>8, <2>1, <3>1, <3>2
  <2>2. CASE <<n, m>> \notin Established
    BY <1>6, <1>8, <2>2
  <2> QED
    BY <2>1, <2>2
<1>12. Spoken
  <2> SUFFICES ASSUME NEW n \in Node, NEW m \in Node, NEW k \in 1..Len(wire[<<n, m>>])
               PROVE  FALSE
    BY DEF Spoken
  <2>1. wire[<<n, m>>] = <<>>
    BY <1>8
  <2> QED
    BY <2>1
<1>13. Planned
  BY <1>8, SingleProper DEF Planned
<1>14. Awaited
  BY <1>6, <1>8 DEF Awaited
<1> QED
  BY <1>9, <1>10, <1>11, <1>12, <1>13, <1>14 DEF IInv

(* Every action of every node keeps the invariant.                         *)
LEMMA Step == IInv /\ [Next]_vars => IInv'
<1> SUFFICES ASSUME IInv, [Next]_vars PROVE IInv'
  OBVIOUS
<1>1. ASSUME NEW n \in Node, NEW m \in Node, Task(n, m) PROVE IInv'
  BY <1>1, VersionStep, VerackStep, GetBlocksStep, InvStep, GetDataStep, BlockStep, TxStep,
     SendsStep, ComparesStep, RequestStep, ServesStep, ContinuesStep DEF Task
<1>2. ASSUME NEW n \in Node, NEW m \in Node, Lose(n, m) PROVE IInv'
  BY <1>2, ClosedStep DEF Lose
<1>3. CASE UNCHANGED vars
  <2>1. UNCHANGED <<stored, tip, pool, link, wire, todo>>
    BY <1>3 DEF vars
  <2> QED
    BY <2>1 DEF IInv, Shapes, Complete, Joined, Spoken, Planned, Awaited, OnItsWay
<1> QED
  BY <1>1, <1>2, <1>3, ConnectStep, MineStep, SubmitStep DEF Next

(* The inductive invariant holds for any number of nodes, for every tree   *)
(* of blocks and whatever breaks.                                          *)
THEOREM Invariance == Spec => []IInv
BY Start, Step, PTL DEF Spec

(* Peers, messages, plans and chains keep their types; a connection has    *)
(* two ends, and nothing is on the wire where there is none.               *)
THEOREM TypeCorrect == Spec => []TypeOK
<1>1. IInv => TypeOK
  <2> SUFFICES ASSUME IInv PROVE TypeOK
    OBVIOUS
  <2>1. \A n \in Node : /\ Genesis \in stored[n] /\ stored[n] \subseteq Block
                        /\ tip[n] \in stored[n] /\ pool[n] \subseteq Tx
    BY DEF IInv, Shapes, Complete
  <2>2. ASSUME NEW p \in Node \X Node
        PROVE  /\ link[p] \in PeerRecord
               /\ link[p].up <=> link[<<p[2], p[1]>>].up
               /\ ~link[p].up => link[p] = NoPeer /\ wire[p] = <<>>
    <3>1. PICK n \in Node, m \in Node : p = <<n, m>>
      OBVIOUS
    <3>2. p[1] = n /\ p[2] = m
      BY <3>1
    <3>3. /\ link[<<n, m>>].up <=> link[<<m, n>>].up
          /\ ~link[<<n, m>>].up => link[<<n, m>>] = NoPeer /\ wire[<<n, m>>] = <<>>
      BY DEF IInv, Joined
    <3>4. link[<<n, m>>] \in PeerRecord
      BY DEF IInv, Shapes
    <3> QED
      BY <3>1, <3>2, <3>3, <3>4
  <2> QED
    BY <2>1, <2>2 DEF TypeOK, PeerRecord
<1> QED
  BY <1>1, Invariance, PTL

(* AwaitedIsComing, for any number of nodes: the set of requested blocks   *)
(* that the end of a full batch waits on holds nothing that is not on its  *)
(* way.                                                                    *)
THEOREM AwaitedComes == Spec => []AwaitedIsComing
<1>1. IInv => AwaitedIsComing
  BY AwaitedAs DEF IInv
<1> QED
  BY <1>1, Invariance, PTL

--------------------------------------------------------------------------------
(* What a step does to chains and pools. *)

(* n takes a block it did not have and whose parent it has.                *)
Adopts(n, b) ==
    /\ b # Genesis => Parent[b] \in stored[n]
    /\ Accept(n, b)

(* n takes a transaction into its mempool. *)
Admitted(n, t) ==
    /\ Admits(n, t)
    /\ pool' = [pool EXCEPT ![n] = @ \cup {t}]
    /\ UNCHANGED <<stored, tip>>

(* One of the two, or nothing. *)
ChainStep ==
    \/ UNCHANGED <<stored, tip, pool>>
    \/ \E n \in Node, b \in Block : Adopts(n, b)
    \/ \E n \in Node, t \in Tx : Admitted(n, t)

(* A block of a peer is taken, if it is new and no orphan.                 *)
LEMMA BlockChains ==
    ASSUME NEW n \in Node, NEW m \in Node, _handle_block(n, m) PROVE ChainStep
<1>1. PICK b \in Block :
        \/ UNCHANGED chainVars
        \/ ~IsOrphan(n, b) /\ Accept(n, b)
  BY DEF _handle_block
<1>2. ~IsOrphan(n, b) => (b # Genesis => Parent[b] \in stored[n])
  BY DEF IsOrphan
<1> QED
  BY <1>1, <1>2 DEF ChainStep, Adopts, chainVars

(* A transaction of a peer is taken, if the pool admits it.                *)
LEMMA TxChains ==
    ASSUME NEW n \in Node, NEW m \in Node, _handle_tx(n, m) PROVE ChainStep
<1>1. PICK t \in Tx :
        \/ /\ Admits(n, t)
           /\ pool' = [pool EXCEPT ![n] = @ \cup {t}]
           /\ UNCHANGED <<stored, tip>>
        \/ UNCHANGED chainVars
  BY DEF _handle_tx
<1> QED
  BY <1>1 DEF ChainStep, Admitted, chainVars

(* Whatever else a task does leaves chains and pools alone.                *)
LEMMA TaskChains ==
    ASSUME NEW n \in Node, NEW m \in Node, Task(n, m) PROVE ChainStep
<1>1. CASE _handle_version(n, m) \/ _handle_verack(n, m) \/ _handle_getblocks(n, m)
           \/ _handle_inv(n, m) \/ _handle_getdata(n, m)
  <2>1. UNCHANGED chainVars
    BY <1>1 DEF _handle_version, _handle_verack, _handle_getblocks, _handle_inv, _handle_getdata
  <2> QED
    BY <2>1 DEF ChainStep, chainVars
<1>2. CASE Sends(n, m) \/ Compares(n, m) \/ _request_blocks(n, m)
           \/ Serves(n, m) \/ Continues(n, m)
  <2>1. UNCHANGED chainVars
    BY <1>2 DEF Sends, Compares, _request_blocks, Serves, Continues
  <2> QED
    BY <2>1 DEF ChainStep, chainVars
<1> QED
  BY <1>1, <1>2, BlockChains, TxChains DEF Task

(* Nor does anything but a miner or a wallet.                              *)
LEMMA ChainSteps == IInv /\ [Next]_vars => ChainStep
<1> SUFFICES ASSUME IInv, [Next]_vars PROVE ChainStep
  OBVIOUS
<1>1. ASSUME NEW n \in Node, Mine(n) PROVE ChainStep
  <2>1. PICK b \in Found : Parent[b] = tip[n] /\ Accept(n, b)
    BY <1>1 DEF Mine
  <2>2. b \in Block /\ tip[n] \in stored[n]
    BY BlockAssumption DEF IInv, Complete
  <2> QED
    BY <2>1, <2>2 DEF ChainStep, Adopts
<1>2. ASSUME NEW n \in Node, Submit(n) PROVE ChainStep
  <2>1. PICK t \in Submitted[n] :
          /\ Admits(n, t)
          /\ pool' = [pool EXCEPT ![n] = @ \cup {t}]
          /\ UNCHANGED <<stored, tip>>
    BY <1>2 DEF Submit
  <2>2. t \in Tx
    BY NodeAssumption
  <2> QED
    BY <2>1, <2>2 DEF ChainStep, Admitted
<1>3. ASSUME NEW n \in Node, NEW m \in Node, connect(n, m) \/ Lose(n, m) PROVE ChainStep
  <2>1. UNCHANGED chainVars
    BY <1>3 DEF connect, Lose
  <2> QED
    BY <2>1 DEF ChainStep, chainVars
<1>4. CASE UNCHANGED vars
  BY <1>4 DEF vars, ChainStep
<1> QED
  BY <1>1, <1>2, <1>3, <1>4, TaskChains DEF Next

(* What n has after it took b, and what the others have.                   *)
LEMMA AdoptFacts ==
    ASSUME IInv, NEW n \in Node, NEW b \in Block, Adopts(n, b), NEW k \in Node
    PROVE  \/ /\ k = n
              /\ stored'[k] = stored[k] \cup {b}
              /\ tip'[k] = IF TotalWork[b] > TotalWork[tip[k]] THEN b ELSE tip[k]
              /\ pool'[k] = (pool[k] \cup TxsOn(tip[k])) \ TxsOn(tip'[k])
           \/ /\ k # n
              /\ stored'[k] = stored[k] /\ tip'[k] = tip[k] /\ pool'[k] = pool[k]
<1> DEFINE best == IF TotalWork[b] > TotalWork[tip[n]] THEN b ELSE tip[n]
<1>1. /\ DOMAIN stored = Node /\ DOMAIN tip = Node /\ DOMAIN pool = Node
      /\ stored' = [stored EXCEPT ![n] = stored[n] \cup {b}]
      /\ tip' = [tip EXCEPT ![n] = best]
      /\ pool' = [pool EXCEPT ![n] = (pool[n] \cup TxsOn(tip[n])) \ TxsOn(best)]
  BY DEF IInv, Shapes, Adopts, Accept
<1> HIDE DEF best
<1>2. CASE k = n
  <2>1. /\ stored'[k] = stored[n] \cup {b} /\ tip'[k] = best
        /\ pool'[k] = (pool[n] \cup TxsOn(tip[n])) \ TxsOn(best)
    BY <1>1, <1>2
  <2> QED
    BY <1>2, <2>1 DEF best
<1>3. CASE k # n
  BY <1>1, <1>3
<1> QED
  BY <1>2, <1>3

--------------------------------------------------------------------------------
(* The chains nodes show. *)

(* A node shows a branch with most work among those it has.                *)
HeaviestShown == \A n \in Node : \A b \in stored[n] : TotalWork[b] <= TotalWork[tip[n]]

(* The chain of a node ends in another block only when that has more work. *)
TipGains ==
    \A n \in Node : tip'[n] # tip[n] => TotalWork[tip'[n]] > TotalWork[tip[n]]

LEMMA TipStep == IInv /\ [Next]_vars => TipGains
<1> SUFFICES ASSUME IInv, [Next]_vars PROVE TipGains
  OBVIOUS
<1>1. CASE UNCHANGED <<stored, tip, pool>> \/ \E n \in Node, t \in Tx : Admitted(n, t)
  BY <1>1 DEF TipGains, Admitted
<1>2. ASSUME NEW n \in Node, NEW b \in Block, Adopts(n, b) PROVE TipGains
  BY <1>2, AdoptFacts DEF TipGains
<1> QED
  BY <1>1, <1>2, ChainSteps DEF ChainStep

LEMMA HeaviestStep == IInv /\ HeaviestShown /\ [Next]_vars => HeaviestShown'
<1> SUFFICES ASSUME IInv, HeaviestShown, [Next]_vars PROVE HeaviestShown'
  OBVIOUS
<1>1. CASE UNCHANGED <<stored, tip, pool>> \/ \E n \in Node, t \in Tx : Admitted(n, t)
  BY <1>1 DEF HeaviestShown, Admitted
<1>2. ASSUME NEW n \in Node, NEW b \in Block, Adopts(n, b) PROVE HeaviestShown'
  <2> SUFFICES ASSUME NEW k \in Node, NEW a \in stored'[k]
               PROVE  TotalWork[a] <= TotalWork[tip'[k]]
    BY DEF HeaviestShown
  <2>1. /\ stored[k] \subseteq Block /\ tip[k] \in Block
        /\ \A c \in stored[k] : TotalWork[c] <= TotalWork[tip[k]]
    BY DEF HeaviestShown, IInv, Shapes
  <2>2. CASE k # n
    BY <1>2, <2>1, <2>2, AdoptFacts
  <2>3. CASE k = n
    <3>1. /\ a \in stored[k] \cup {b}
          /\ tip'[k] = IF TotalWork[b] > TotalWork[tip[k]] THEN b ELSE tip[k]
      BY <1>2, <2>3, AdoptFacts
    <3>2. /\ TotalWork[b] \in Nat /\ TotalWork[tip[k]] \in Nat /\ TotalWork[a] \in Nat
          /\ TotalWork[a] <= TotalWork[tip[k]] \/ a = b
      BY <2>1, <3>1, TotalWorkType
    <3> QED
      BY <3>1, <3>2
  <2> QED
    BY <2>2, <2>3
<1> QED
  BY <1>1, <1>2, ChainSteps DEF ChainStep

(* A node never stops at less than it has: whatever order blocks arrive    *)
(* in, no branch it stores has more work than the one it shows             *)
(* (chainstate.py, accept_block, as p2p.py relies on it).                  *)
THEOREM HeaviestIsShown == Spec => []HeaviestShown
<1>1. Init => HeaviestShown
  <2> SUFFICES ASSUME Init, NEW n \in Node, NEW b \in stored[n]
               PROVE  TotalWork[b] <= TotalWork[tip[n]]
    BY DEF HeaviestShown
  <2>1. stored[n] = Held[n] /\ tip[n] = HeaviestOf(Held[n])
    BY DEF Init
  <2>2. Held[n] \in SUBSET Block /\ Held[n] # {}
    BY NodeAssumption
  <2> QED
    BY <2>1, <2>2, HeaviestExists
<1> QED
  BY <1>1, HeaviestStep, Invariance, PTL DEF Spec

(* What the chain state of node n promises the rest of the node: the       *)
(* specification that ChainState is shown to implement, from the chain the *)
(* node starts with on, and with what is confirmed in place of the coins.  *)
Promised(n) ==
    INSTANCE HeaviestChain WITH
        Genesis <- HeaviestOf(Held[n]),
        GenesisWork <- TotalWork[HeaviestOf(Held[n])],
        LedgerAt <- [b \in Block |-> TxsOn(b)],
        ValidTips <- Block,
        chainTip <- tip[n],
        chainWork <- TotalWork[tip[n]],
        coins <- TxsOn(tip[n])

(* Every node of the network keeps the promise that accept_block makes: a  *)
(* chain is replaced in one step, and only by one with more work. The      *)
(* chain states in this network are those that ChainState describes.       *)
THEOREM NodesKeepPromise ==
    ASSUME NEW n \in Node
    PROVE  Spec => Promised(n)!Spec
<1>1. Init => Promised(n)!Init
  <2> SUFFICES ASSUME Init PROVE Promised(n)!Init
    OBVIOUS
  <2>1. tip[n] = HeaviestOf(Held[n])
    BY DEF Init
  <2>2. HeaviestOf(Held[n]) \in Block
    <3>1. Held[n] \in SUBSET Block /\ Held[n] # {}
      BY NodeAssumption
    <3> QED
      BY <3>1, HeaviestExists
  <2> QED
    BY <2>1, <2>2 DEF Promised!Init
<1>2. IInv /\ IInv' /\ [Next]_vars => [Promised(n)!Next]_(Promised(n)!chainVars)
  <2> SUFFICES ASSUME IInv, IInv', [Next]_vars
               PROVE  [Promised(n)!Next]_(Promised(n)!chainVars)
    OBVIOUS
  <2>1. tip[n] \in Block /\ tip'[n] \in Block
    BY DEF IInv, Shapes
  <2>2. CASE tip'[n] = tip[n]
    BY <2>2 DEF Promised!chainVars, TxsOn
  <2>3. CASE tip'[n] # tip[n]
    <3>1. TotalWork[tip'[n]] > TotalWork[tip[n]]
      BY <2>3, TipStep DEF TipGains
    <3>2. TotalWork[tip'[n]] \in Nat
      BY <2>1, TotalWorkType
    <3> QED
      BY <2>1, <3>1, <3>2 DEF Promised!Next, Promised!Adopt, TxsOn
  <2> QED
    BY <2>2, <2>3
<1> QED
  BY <1>1, <1>2, Invariance, PTL DEF Spec, Promised!Spec

--------------------------------------------------------------------------------
(* What nodes keep. *)

(* What a chain confirms is not in the mempool beside it.                  *)
ConfirmedApart == \A n \in Node : pool[n] \cap TxsOn(tip[n]) = {}

LEMMA ApartStep == IInv /\ ConfirmedApart /\ [Next]_vars => ConfirmedApart'
<1> SUFFICES ASSUME IInv, ConfirmedApart, [Next]_vars, NEW k \in Node
             PROVE  pool'[k] \cap TxsOn(tip'[k]) = {}
  BY DEF ConfirmedApart, TxsOn
<1>1. pool[k] \cap TxsOn(tip[k]) = {}
  BY DEF ConfirmedApart
<1>2. CASE UNCHANGED <<stored, tip, pool>>
  BY <1>1, <1>2
<1>3. ASSUME NEW n \in Node, NEW t \in Tx, Admitted(n, t)
      PROVE  pool'[k] \cap TxsOn(tip'[k]) = {}
  <2>1. pool'[k] = pool[k] \/ (k = n /\ pool'[k] = pool[k] \cup {t})
    BY <1>3 DEF Admitted, IInv, Shapes
  <2>2. t \notin TxsOn(tip[n]) /\ tip'[k] = tip[k]
    BY <1>3 DEF Admitted, Admits
  <2> QED
    BY <1>1, <2>1, <2>2
<1>4. ASSUME NEW n \in Node, NEW b \in Block, Adopts(n, b)
      PROVE  pool'[k] \cap TxsOn(tip'[k]) = {}
  BY <1>1, <1>4, AdoptFacts
<1> QED
  BY <1>2, <1>3, <1>4, ChainSteps DEF ChainStep

(* No transaction is in the mempool and on the chain of one node at a      *)
(* time, whatever reorganisations the blocks of its peers cause            *)
(* (node.py, _absorb).                                                     *)
THEOREM PoolStaysApart == Spec => []ConfirmedApart
<1>1. Init => ConfirmedApart
  BY DEF Init, ConfirmedApart
<1> QED
  BY <1>1, ApartStep, Invariance, PTL DEF Spec

(* No node forgets a block, and no payment it has accepted or seen         *)
(* confirmed: a payment of an abandoned branch is back in the mempool.     *)
NothingForgotten ==
    \A n \in Node :
        /\ stored[n] \subseteq stored'[n]
        /\ pool[n] \cup TxsOn(tip[n]) \subseteq pool'[n] \cup TxsOn(tip'[n])

(* What one node knows it goes on knowing, through every reorganisation    *)
(* and whoever hangs up: what Agreement and TxSpreads rest on.             *)
THEOREM NothingIsForgotten == Spec => [][NothingForgotten]_vars
<1>1. IInv /\ [Next]_vars => [NothingForgotten]_vars
  <2> SUFFICES ASSUME IInv, [Next]_vars, NEW k \in Node
               PROVE  /\ stored[k] \subseteq stored'[k]
                      /\ pool[k] \cup TxsOn(tip[k]) \subseteq pool'[k] \cup TxsOn(tip'[k])
    BY DEF NothingForgotten
  <2>1. CASE UNCHANGED <<stored, tip, pool>>
    BY <2>1
  <2>2. ASSUME NEW n \in Node, NEW t \in Tx, Admitted(n, t)
        PROVE  pool[k] \subseteq pool'[k] /\ tip'[k] = tip[k] /\ stored'[k] = stored[k]
    BY <2>2 DEF Admitted, IInv, Shapes
  <2>3. ASSUME NEW n \in Node, NEW b \in Block, Adopts(n, b)
        PROVE  /\ stored[k] \subseteq stored'[k]
               /\ pool[k] \cup TxsOn(tip[k]) \subseteq pool'[k] \cup TxsOn(tip'[k])
    BY <2>3, AdoptFacts
  <2> QED
    BY <2>1, <2>2, <2>3, ChainSteps DEF ChainStep
<1> QED
  BY <1>1, Invariance, PTL DEF Spec

(* Whole chains change hands: whoever announces a block has all its        *)
(* ancestors too, and whoever is asked for one has announced it.           *)
AnnouncedIsWhole ==
    \A n, m \in Node : \A msg \in ToSet(wire[<<n, m>>]) :
        LET holder == IF msg.type = "inv" THEN n ELSE m
        IN  msg.type \in {"inv", "getdata"} =>
                \A b \in ToSet(msg.blocks) : ToSet(Branch[b]) \subseteq stored[holder]

(* What a node has it has from genesis on. *)
LEMMA WholeBranch ==
    ASSUME IInv, NEW n \in Node, NEW b \in stored[n]
    PROVE  ToSet(Branch[b]) \subseteq stored[n]
<1>1. stored[n] \subseteq Block
  BY DEF IInv, Shapes
<1>2. Genesis \in stored[n] /\ \A a \in stored[n] \ {Genesis} : Parent[a] \in stored[n]
  BY DEF IInv, Complete
<1>3. b \in stored[n] \cap Block
  BY <1>1
<1> QED
  BY <1>2, <1>3, BranchFacts

(* A request that follows an announcement can always be served, and what   *)
(* is missing below the announced block can be had from the same peer      *)
(* (p2p.py, _handle_inv, _handle_getdata, and the orphans of               *)
(* _handle_block).                                                         *)
THEOREM AnnouncedIsServed == Spec => []AnnouncedIsWhole
<1>1. IInv => AnnouncedIsWhole
  <2> SUFFICES ASSUME IInv, NEW n \in Node, NEW m \in Node, NEW msg \in ToSet(wire[<<n, m>>]),
                      NEW holder, holder = IF msg.type = "inv" THEN n ELSE m,
                      msg.type \in {"inv", "getdata"}, NEW b \in ToSet(msg.blocks)
               PROVE  ToSet(Branch[b]) \subseteq stored[holder]
    BY DEF AnnouncedIsWhole
  <2>1. wire[<<n, m>>] \in Seq(Message)
    BY DEF IInv, Shapes
  <2>2. PICK k \in 1..Len(wire[<<n, m>>]) : msg = wire[<<n, m>>][k]
    BY <2>1 DEF ToSet
  <2>3. Truthful(msg, stored[n], stored[m])
    BY <2>2 DEF IInv, Spoken
  <2>4. holder \in Node /\ b \in stored[holder]
    BY <2>3 DEF Truthful
  <2> QED
    BY <2>4, WholeBranch
<1> QED
  BY <1>1, Invariance, PTL

--------------------------------------------------------------------------------
(* What nodes keep for their peers. *)

(* No more blocks on request than there may be, and fewer points than cost *)
(* a peer its connection.                                                  *)
Limited(peer) ==
    /\ Cardinality(peer.requested_blocks) <= MaxOutstanding
    /\ peer.ban_score < BanScore

WithinLimits == \A n, m \in Node : Limited(link[<<n, m>>])

(* Nobody yet, or somebody new, is within the limits. *)
LEMMA NewLimited == Limited(NoPeer) /\ Limited(NewPeer)
<1>1. NoPeer.requested_blocks = {} /\ NoPeer.ban_score = 0
  BY DEF NoPeer
<1>2. NewPeer.requested_blocks = {} /\ NewPeer.ban_score = 0
  BY DEF NewPeer, NoPeer
<1>3. Cardinality({}) = 0 /\ 0 <= MaxOutstanding /\ 0 < BanScore
  BY NodeAssumption, FS_EmptySet
<1> QED
  BY <1>1, <1>2, <1>3 DEF Limited

(* Fewer blocks are within the limit if more are. *)
LEMMA FewerLimited ==
    ASSUME NEW peer \in PeerRecord, NEW next \in PeerRecord, Limited(peer),
           next.requested_blocks \subseteq peer.requested_blocks,
           next.ban_score < BanScore
    PROVE  Limited(next)
<1> PICK R, S : R = peer.requested_blocks /\ S = next.requested_blocks
  OBVIOUS
<1>1. R \subseteq Block /\ S \subseteq R
  BY DEF PeerRecord
<1>2. IsFiniteSet(R)
  BY <1>1, BlockAssumption, FS_Subset
<1>3. Cardinality(S) <= Cardinality(R) /\ Cardinality(S) \in Nat /\ Cardinality(R) \in Nat
  BY <1>1, <1>2, FS_Subset, FS_CardinalityType
<1>4. Cardinality(R) <= MaxOutstanding /\ MaxOutstanding \in Nat
  BY NodeAssumption DEF Limited
<1>5. Cardinality(S) <= MaxOutstanding
  BY <1>3, <1>4
<1> QED
  BY <1>5 DEF Limited

(* The step changes what n keeps for m at most, and that to new.           *)
LimitKept(n, m, new) ==
    /\ \/ UNCHANGED link
       \/ link' = [link EXCEPT ![<<n, m>>] = new]
    /\ new \in PeerRecord
    /\ Limited(new)

LEMMA KeptWithin ==
    ASSUME IInv, WithinLimits, NEW n \in Node, NEW m \in Node, NEW new, LimitKept(n, m, new)
    PROVE  WithinLimits'
<1> SUFFICES ASSUME NEW a \in Node, NEW c \in Node PROVE Limited(link'[<<a, c>>])
  BY DEF WithinLimits, Limited
<1>1. DOMAIN link = Node \X Node /\ Limited(link[<<a, c>>])
  BY DEF IInv, Shapes, WithinLimits
<1>2. link'[<<a, c>>] \in {link[<<a, c>>], new}
  BY <1>1 DEF LimitKept
<1> QED
  BY <1>1, <1>2 DEF LimitKept

(* The end of a connection, and a new one, leave no debts.                 *)
LEMMA AnewWithin ==
    ASSUME WithinLimits, \A n, m \in Node : link'[<<n, m>>] \in {link[<<n, m>>], NoPeer, NewPeer}
    PROVE  WithinLimits'
<1> SUFFICES ASSUME NEW a \in Node, NEW c \in Node PROVE Limited(link'[<<a, c>>])
  BY DEF WithinLimits, Limited
<1>1. Limited(link[<<a, c>>])
  BY DEF WithinLimits
<1> QED
  BY <1>1, NewLimited

LEMMA ClosedWithin ==
    ASSUME IInv, WithinLimits, NEW n \in Node, NEW m \in Node, Closed(n, m, todo)
    PROVE  WithinLimits'
<1>1. link' = [p \in Node \X Node |-> IF p \in Pairs(n, m) THEN NoPeer ELSE link[p]]
  BY DEF Closed, IInv, Shapes
<1>2. \A a, c \in Node : link'[<<a, c>>] \in {link[<<a, c>>], NoPeer, NewPeer}
  BY <1>1
<1> QED
  BY <1>2, AnewWithin

LEMMA ConnectWithin ==
    ASSUME IInv, WithinLimits, NEW n \in Node, NEW m \in Node, connect(n, m)
    PROVE  WithinLimits'
<1>1. /\ DOMAIN link = Node \X Node
      /\ link' = [link EXCEPT ![<<n, m>>] = NewPeer, ![<<m, n>>] = NewPeer]
  BY DEF connect, IInv, Shapes
<1>2. \A a, c \in Node : link'[<<a, c>>] \in {link[<<a, c>>], NoPeer, NewPeer}
  BY <1>1
<1> QED
  BY <1>2, AnewWithin

(* An announcement is followed up as far as the limit allows.              *)
LEMMA InvWithin ==
    ASSUME IInv, WithinLimits, NEW n \in Node, NEW m \in Node, _handle_inv(n, m)
    PROVE  WithinLimits'
<1>msg. PICK msg : msg = Head(wire[<<m, n>>])
  OBVIOUS
<1>blocks. PICK blocks : blocks = Wanted(n, m, msg.blocks)
  OBVIOUS
<1>full. PICK full : full = (Len(msg.blocks) >= MaxInv)
  OBVIOUS
<1>old. PICK old : old = link[<<n, m>>]
  OBVIOUS
<1>new. PICK new : new = [old EXCEPT !.requested_blocks = old.requested_blocks \cup ToSet(blocks),
                                     !.batch_full = full]
  OBVIOUS
<1>1. /\ Reads(n, m, msg) /\ msg.type = "inv"
      /\ link' = [link EXCEPT ![<<n, m>>].requested_blocks = @ \cup ToSet(blocks),
                              ![<<n, m>>].batch_full = full]
  BY <1>msg, <1>blocks, <1>full DEF _handle_inv
<1>2. msg \in Message /\ old \in PeerRecord /\ <<n, m>> \in DOMAIN link
  BY <1>1, <1>old, ReadFacts
<1>3. msg.blocks \in Seq(Block) /\ full \in BOOLEAN
  BY <1>1, <1>2, <1>full, MessageTypes
<1>4. /\ blocks \in Seq(Block) /\ Within(old.requested_blocks, blocks)
  BY <1>3, <1>blocks, <1>old, WantedFacts
<1>5. ToSet(blocks) \subseteq Block /\ old.requested_blocks \subseteq Block
  BY <1>2, <1>4 DEF ToSet, PeerRecord
<1>6. /\ new \in PeerRecord /\ new.ban_score = old.ban_score
      /\ new.requested_blocks = old.requested_blocks \cup ToSet(blocks)
  BY <1>2, <1>3, <1>5, <1>new DEF PeerRecord
<1>7. link' = [link EXCEPT ![<<n, m>>] = new]
  BY <1>1, <1>2, <1>old, <1>new
<1>8. Limited(old)
  BY <1>old DEF WithinLimits
<1>9. Limited(new)
  BY <1>4, <1>5, <1>6, <1>8 DEF Limited, Within
<1> QED
  BY <1>6, <1>7, <1>9, KeptWithin DEF LimitKept

(* Whatever handler keeps the points and asks for nothing keeps within.    *)
LEMMA FewerWithin ==
    ASSUME IInv, WithinLimits, NEW n \in Node, NEW m \in Node, NEW new \in PeerRecord,
           link' = [link EXCEPT ![<<n, m>>] = new],
           new.requested_blocks \subseteq link[<<n, m>>].requested_blocks,
           new.ban_score < BanScore
    PROVE  WithinLimits'
<1>1. Limited(link[<<n, m>>]) /\ link[<<n, m>>] \in PeerRecord
  BY DEF WithinLimits, IInv, Shapes
<1> QED
  BY <1>1, FewerLimited, KeptWithin DEF LimitKept

LEMMA HandlersWithin ==
    ASSUME IInv, WithinLimits, NEW n \in Node, NEW m \in Node,
           _handle_version(n, m) \/ _handle_verack(n, m) \/ _handle_block(n, m)
             \/ Continues(n, m)
    PROVE  WithinLimits'
<1>old. PICK old : old = link[<<n, m>>]
  OBVIOUS
<1>1. /\ old \in PeerRecord /\ <<n, m>> \in DOMAIN link /\ old.ban_score < BanScore
  BY <1>old DEF IInv, Shapes, WithinLimits, Limited
<1>2. CASE _handle_version(n, m)
  <2>1. PICK h \in 0..Cardinality(Block) : link' = [link EXCEPT ![<<n, m>>].height = h]
    BY <1>2 DEF _handle_version
  <2> PICK new : new = [old EXCEPT !.height = h]
    OBVIOUS
  <2>2. /\ link' = [link EXCEPT ![<<n, m>>] = new] /\ new \in PeerRecord
        /\ new.requested_blocks = old.requested_blocks /\ new.ban_score = old.ban_score
    BY <1>old, <1>1, <2>1 DEF PeerRecord
  <2> QED
    BY <1>old, <1>1, <2>2, FewerWithin
<1>3. CASE _handle_verack(n, m)
  <2>1. link' = [link EXCEPT ![<<n, m>>].handshaked = TRUE]
    BY <1>3 DEF _handle_verack
  <2> PICK new : new = [old EXCEPT !.handshaked = TRUE]
    OBVIOUS
  <2>2. /\ link' = [link EXCEPT ![<<n, m>>] = new] /\ new \in PeerRecord
        /\ new.requested_blocks = old.requested_blocks /\ new.ban_score = old.ban_score
    BY <1>old, <1>1, <2>1 DEF PeerRecord
  <2> QED
    BY <1>old, <1>1, <2>2, FewerWithin
<1>4. CASE _handle_block(n, m)
  <2>1. PICK b \in Block : link' = [link EXCEPT ![<<n, m>>].requested_blocks = @ \ {b}]
    BY <1>4 DEF _handle_block
  <2> PICK new : new = [old EXCEPT !.requested_blocks = old.requested_blocks \ {b}]
    OBVIOUS
  <2>2. /\ link' = [link EXCEPT ![<<n, m>>] = new] /\ new \in PeerRecord
        /\ new.requested_blocks \subseteq old.requested_blocks
        /\ new.ban_score = old.ban_score
    BY <1>old, <1>1, <2>1 DEF PeerRecord
  <2> QED
    BY <1>old, <1>1, <2>2, FewerWithin
<1>5. CASE Continues(n, m)
  <2>1. UNCHANGED link \/ link' = [link EXCEPT ![<<n, m>>].batch_full = FALSE]
    BY <1>5 DEF Continues
  <2> PICK new : new = [old EXCEPT !.batch_full = FALSE]
    OBVIOUS
  <2>2. CASE link' = [link EXCEPT ![<<n, m>>].batch_full = FALSE]
    <3>1. /\ link' = [link EXCEPT ![<<n, m>>] = new] /\ new \in PeerRecord
          /\ new.requested_blocks = old.requested_blocks /\ new.ban_score = old.ban_score
      BY <1>old, <1>1, <2>2 DEF PeerRecord
    <3> QED
      BY <1>old, <1>1, <3>1, FewerWithin
  <2>3. CASE UNCHANGED link
    BY <2>3 DEF WithinLimits
  <2> QED
    BY <2>1, <2>2, <2>3
<1> QED
  BY <1>2, <1>3, <1>4, <1>5

(* Points are counted up to the last that is still tolerated.              *)
LEMMA TxWithin ==
    ASSUME IInv, WithinLimits, NEW n \in Node, NEW m \in Node, _handle_tx(n, m)
    PROVE  WithinLimits'
<1>old. PICK old : old = link[<<n, m>>]
  OBVIOUS
<1>score. PICK score : score = old.ban_score + TxScore
  OBVIOUS
<1>1. /\ old \in PeerRecord /\ <<n, m>> \in DOMAIN link
      /\ TxScore \in Nat /\ BanScore \in Nat
  BY <1>old, NodeAssumption DEF IInv, Shapes
<1>2. score \in Nat
  BY <1>score, <1>1 DEF PeerRecord
<1>3. \/ UNCHANGED link
      \/ score >= BanScore /\ Closed(n, m, todo)
      \/ ~(score >= BanScore) /\ link' = [link EXCEPT ![<<n, m>>].ban_score = score]
  BY <1>old, <1>score DEF _handle_tx, _misbehave
<1>4. CASE UNCHANGED link
  BY <1>4 DEF WithinLimits
<1>5. CASE ~(score >= BanScore) /\ link' = [link EXCEPT ![<<n, m>>].ban_score = score]
  <2> PICK new : new = [old EXCEPT !.ban_score = score]
    OBVIOUS
  <2>1. /\ link' = [link EXCEPT ![<<n, m>>] = new] /\ new \in PeerRecord
        /\ new.requested_blocks = old.requested_blocks /\ new.ban_score = score
    BY <1>old, <1>1, <1>2, <1>5 DEF PeerRecord
  <2>2. new.ban_score < BanScore
    BY <1>1, <1>2, <1>5, <2>1
  <2> QED
    BY <1>old, <2>1, <2>2, FewerWithin
<1> QED
  BY <1>3, <1>4, <1>5, ClosedWithin

LEMMA WithinStep == IInv /\ WithinLimits /\ [Next]_vars => WithinLimits'
<1> SUFFICES ASSUME IInv, WithinLimits, [Next]_vars PROVE WithinLimits'
  OBVIOUS
<1>1. CASE UNCHANGED link
  BY <1>1 DEF WithinLimits
<1>2. ASSUME NEW n \in Node, NEW m \in Node,
             \/ _handle_getblocks(n, m) \/ _handle_getdata(n, m)
             \/ Sends(n, m) \/ Compares(n, m) \/ _request_blocks(n, m) \/ Serves(n, m)
      PROVE  WithinLimits'
  <2>1. UNCHANGED link
    BY <1>2 DEF _handle_getblocks, _handle_getdata, Sends, Compares, _request_blocks, Serves
  <2> QED
    BY <1>1, <2>1
<1>3. ASSUME NEW n \in Node, NEW m \in Node, Task(n, m) PROVE WithinLimits'
  BY <1>2, <1>3, InvWithin, HandlersWithin, TxWithin DEF Task
<1>4. ASSUME NEW n \in Node, NEW m \in Node, Lose(n, m) PROVE WithinLimits'
  BY <1>4, ClosedWithin DEF Lose
<1>5. ASSUME NEW n \in Node, Mine(n) \/ Submit(n) PROVE WithinLimits'
  <2>1. UNCHANGED link
    BY <1>5 DEF Mine, Submit
  <2> QED
    BY <1>1, <2>1
<1>6. CASE UNCHANGED vars
  BY <1>1, <1>6 DEF vars
<1> QED
  BY <1>3, <1>4, <1>5, <1>6, ConnectWithin DEF Next

(* However many blocks a peer announces and however its deliveries and     *)
(* announcements mix, no more than MAX_OUTSTANDING_BLOCKS are on request   *)
(* from it; and whoever has used up its points is no peer any more         *)
(* (p2p.py:704, 565).                                                      *)
THEOREM LimitsHold == Spec => []WithinLimits
<1>1. Init => WithinLimits
  <2> SUFFICES ASSUME Init, NEW n \in Node, NEW m \in Node PROVE Limited(link[<<n, m>>])
    BY DEF WithinLimits
  <2>1. PICK h :
          link[<<n, m>>] = IF <<n, m>> \in Established
                           THEN [NewPeer EXCEPT !.handshaked = TRUE, !.height = h]
                           ELSE NoPeer
    BY DEF Init
  <2>2. /\ [NewPeer EXCEPT !.handshaked = TRUE, !.height = h].requested_blocks
             = NewPeer.requested_blocks
        /\ [NewPeer EXCEPT !.handshaked = TRUE, !.height = h].ban_score = NewPeer.ban_score
    BY DEF NewPeer, NoPeer
  <2> QED
    BY <2>1, <2>2, NewLimited DEF Limited
<1> QED
  BY <1>1, WithinStep, Invariance, PTL DEF Spec
================================================================================
