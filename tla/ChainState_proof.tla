--------------------------- MODULE ChainState_proof ---------------------------
(***************************************************************************)
(* Proofs about ChainState, for every block tree, every set of copies and  *)
(* every value of the parameters.                                          *)
(*                                                                         *)
(* The invariant IInv has three parts: the stored blocks form a tree       *)
(* (TreeOK), what was checked before a block was stored still holds of it  *)
(* (BlocksOK), and the tables agree with the block they have been brought  *)
(* to (ConsistentAt), on disk and in the working view at each step of a    *)
(* reorganisation.  Invariants that hold because IInv does follow it:      *)
(* SettledOK (the chain up to the working view is valid and its rows are   *)
(* worth no more than was issued), ToldOK (the lists kept on the way),     *)
(* VerdictOK (a verdict is one of the rules on the whole branch), CopiesOK *)
(* (what is stored stays), WorkOK and OfferedOK (the work in the index is  *)
(* that of the branch; what was offered in good order is stored).  That a  *)
(* call ends needs no more than IInv.                                      *)
(***************************************************************************)
EXTENDS ChainState, Sums_proof

(***************************************************************************)
(* The tree.                                                               *)
(***************************************************************************)
TreeOK(K) ==
    /\ K \subseteq Block
    /\ Genesis \in K
    /\ \A b \in K \ {Genesis} : Parent[b] \in K
    /\ \A b \in K : /\ b \in Ancestors[b]
                    /\ Genesis \in Ancestors[b]
                    /\ Ancestors[b] \subseteq K
    /\ \A b \in K : \A a \in Ancestors[b] :
          /\ Ancestors[a] \subseteq Ancestors[b]
          /\ a = b \/ Height[a] < Height[b]
    /\ \A b \in K : \A a, c \in Ancestors[b] :
          a \in Ancestors[c] \/ c \in Ancestors[a]
    /\ \A b \in K : \A f \in Ancestors[b] \ {b} :
          \E a \in Ancestors[b] \ {Genesis} : Parent[a] = f
    /\ \A b, c \in K : \E f \in Ancestors[b] \cap Ancestors[c] :
          Ancestors[b] \cap Ancestors[c] = Ancestors[f]

(* Storing a block whose parent is stored keeps the tree. *)
LEMMA TreeGrows ==
    ASSUME NEW K, TreeOK(K), NEW b \in Block, b \notin K, Parent[b] \in K
    PROVE  TreeOK(K \cup {b})
<1> DEFINE p == Parent[b]
           N == K \cup {b}
<1>1. /\ b # Genesis
      /\ Ancestors[b] = Ancestors[p] \cup {b}
      /\ Height[b] = Height[p] + 1
      /\ Height \in [Block -> Nat]
      /\ p \in K /\ p \in Block
  BY TreeAssumption DEF TreeOK
<1>2. /\ Ancestors[p] \subseteq K
      /\ p \in Ancestors[p]
      /\ Genesis \in Ancestors[p]
  BY <1>1 DEF TreeOK
<1>meet. \A x, y \in K : \E f \in Ancestors[x] \cap Ancestors[y] :
            Ancestors[x] \cap Ancestors[y] = Ancestors[f]
  BY DEF TreeOK
<1>3. N \subseteq Block /\ Genesis \in N /\ \A x \in N \ {Genesis} : Parent[x] \in N
  BY <1>1 DEF TreeOK
<1>4. \A x \in N : x \in Ancestors[x] /\ Genesis \in Ancestors[x] /\ Ancestors[x] \subseteq N
  BY <1>1, <1>2 DEF TreeOK
<1>5. \A x \in N : \A a \in Ancestors[x] :
          Ancestors[a] \subseteq Ancestors[x] /\ (a = x \/ Height[a] < Height[x])
  <2> SUFFICES ASSUME NEW x \in N, NEW a \in Ancestors[x]
               PROVE  Ancestors[a] \subseteq Ancestors[x] /\ (a = x \/ Height[a] < Height[x])
    OBVIOUS
  <2>1. CASE x \in K
    BY <2>1 DEF TreeOK
  <2>2. CASE x = b /\ a = b
    BY <2>2
  <2>3. CASE x = b /\ a \in Ancestors[p]
    <3>1. Ancestors[a] \subseteq Ancestors[p] /\ (a = p \/ Height[a] < Height[p])
      BY <1>1, <2>3 DEF TreeOK
    <3>2. Height[a] \in Nat /\ Height[p] \in Nat
      BY <1>1, <1>2, <2>3 DEF TreeOK
    <3> QED
      BY <3>1, <3>2, <1>1, <2>3
  <2> QED
    BY <1>1, <2>1, <2>2, <2>3
<1>6. \A x \in N : \A a, c \in Ancestors[x] : a \in Ancestors[c] \/ c \in Ancestors[a]
  <2> SUFFICES ASSUME NEW x \in N, NEW a \in Ancestors[x], NEW c \in Ancestors[x]
               PROVE  a \in Ancestors[c] \/ c \in Ancestors[a]
    OBVIOUS
  <2>1. CASE x \in K
    BY <2>1 DEF TreeOK
  <2>2. CASE x = b
    BY <2>2, <1>1 DEF TreeOK
  <2> QED
    BY <2>1, <2>2
<1>7. \A x \in N : \A f \in Ancestors[x] \ {x} :
          \E a \in Ancestors[x] \ {Genesis} : Parent[a] = f
  <2> SUFFICES ASSUME NEW x \in N, NEW f \in Ancestors[x] \ {x}
               PROVE  \E a \in Ancestors[x] \ {Genesis} : Parent[a] = f
    OBVIOUS
  <2>1. CASE x \in K
    BY <2>1 DEF TreeOK
  <2>2. CASE x = b /\ f = p
    BY <2>2, <1>1
  <2>3. CASE x = b /\ f # p
    <3>1. f \in Ancestors[p] \ {p}
      BY <2>3, <1>1
    <3>2. PICK a \in Ancestors[p] \ {Genesis} : Parent[a] = f
      BY <3>1, <1>1 DEF TreeOK
    <3> QED
      BY <3>2, <1>1, <2>3
  <2> QED
    BY <2>1, <2>2, <2>3
<1>8. \A x, y \in N : \E f \in Ancestors[x] \cap Ancestors[y] :
          Ancestors[x] \cap Ancestors[y] = Ancestors[f]
  <2> SUFFICES ASSUME NEW x \in N, NEW y \in N
               PROVE  \E f \in Ancestors[x] \cap Ancestors[y] :
                          Ancestors[x] \cap Ancestors[y] = Ancestors[f]
    OBVIOUS
  <2>1. CASE x \in K /\ y \in K
    BY <2>1 DEF TreeOK
  <2>2. CASE x = b /\ y = b
    BY <2>2, <1>4
  <2>3. CASE x = b /\ y \in K
    <3>1. PICK f \in Ancestors[p] \cap Ancestors[y] :
                  Ancestors[p] \cap Ancestors[y] = Ancestors[f]
      BY <2>3, <1>1, <1>meet
    <3>2. Ancestors[x] \cap Ancestors[y] = Ancestors[p] \cap Ancestors[y]
      BY <2>3, <1>1 DEF TreeOK
    <3> QED
      BY <3>1, <3>2, <1>1, <2>3
  <2>4. CASE x \in K /\ y = b
    <3>1. PICK f \in Ancestors[x] \cap Ancestors[p] :
                  Ancestors[x] \cap Ancestors[p] = Ancestors[f]
      BY <2>4, <1>1, <1>meet
    <3>2. Ancestors[x] \cap Ancestors[y] = Ancestors[x] \cap Ancestors[p]
      BY <2>4, <1>1 DEF TreeOK
    <3> QED
      BY <3>1, <3>2, <1>1, <2>4
  <2> QED
    BY <2>1, <2>2, <2>3, <2>4
<1> QED
  BY <1>3, <1>4, <1>5, <1>6, <1>7, <1>8 DEF TreeOK

(* Above an ancestor f of c hangs exactly one block of the branch from f   *)
(* to c, and it is the one _reorg_to connects next.                        *)
LEMMA OldestIsNext ==
    ASSUME NEW K, TreeOK(K), NEW c \in K, NEW f \in Ancestors[c], f # c
    PROVE  LET rest == Ancestors[c] \ Ancestors[f]
           IN  /\ Oldest(rest) \in rest
               /\ Oldest(rest) # Genesis
               /\ Parent[Oldest(rest)] = f
               /\ rest \ {Oldest(rest)} = Ancestors[c] \ Ancestors[Oldest(rest)]
<1> DEFINE rest == Ancestors[c] \ Ancestors[f]
<1>1. f \in K /\ Ancestors[c] \subseteq K /\ K \subseteq Block /\ Height \in [Block -> Nat]
  BY TreeAssumption DEF TreeOK
<1>2. PICK a \in Ancestors[c] \ {Genesis} : Parent[a] = f
  BY DEF TreeOK
<1>3. a \in rest /\ Parent[a] \notin rest
  <2>1. Height[a] = Height[f] + 1 /\ Height[f] \in Nat
    BY <1>1, <1>2, TreeAssumption
  <2>2. \A x \in Ancestors[f] : x = f \/ Height[x] < Height[f]
    BY <1>1 DEF TreeOK
  <2>3. a \notin Ancestors[f]
    BY <2>1, <2>2
  <2> QED
    BY <1>1, <1>2, <2>3 DEF TreeOK
<1> DEFINE o == Oldest(rest)
<1>4. o \in rest /\ Parent[o] \notin rest
  BY <1>3 DEF Oldest
<1> HIDE DEF o
<1>5. o \in K /\ o # Genesis
  BY <1>1, <1>4 DEF TreeOK
<1>6. Ancestors[o] = Ancestors[Parent[o]] \cup {o} /\ Parent[o] \in K
  BY <1>1, <1>5, TreeAssumption DEF TreeOK
<1>7. Parent[o] \in Ancestors[f]
  <2>1. Parent[o] \in Ancestors[o]
    BY <1>6 DEF TreeOK
  <2>2. Ancestors[o] \subseteq Ancestors[c]
    BY <1>4 DEF TreeOK
  <2> QED
    BY <1>4, <2>1, <2>2
<1>8. f \in Ancestors[Parent[o]]
  <2>1. f \in Ancestors[o]
    BY <1>4 DEF TreeOK
  <2>2. f # o
    BY <1>1, <1>4 DEF TreeOK
  <2> QED
    BY <1>6, <2>1, <2>2
<1>9. Parent[o] = f
  <2>1. Height[f] \in Nat /\ Height[Parent[o]] \in Nat
    BY <1>1, <1>6
  <2>2. Parent[o] = f \/ Height[Parent[o]] < Height[f]
    BY <1>1, <1>7 DEF TreeOK
  <2>3. f = Parent[o] \/ Height[f] < Height[Parent[o]]
    BY <1>1, <1>6, <1>8 DEF TreeOK
  <2> QED
    BY <2>1, <2>2, <2>3
<1>10. rest \ {o} = Ancestors[c] \ Ancestors[o]
  BY <1>6, <1>9
<1> QED
  BY <1>4, <1>5, <1>9, <1>10 DEF o

(***************************************************************************)
(* The ledger.                                                             *)
(***************************************************************************)

(* What check_block_structure leaves for the ledger to rely on. *)
Screened(b) ==
    /\ Coinbase[b] \in CoinbaseTx
    /\ PaymentSet(b) \cap CoinbaseTx = {}
    /\ \A t \in PaymentSet(b) : Inputs[t] # {}

(* The rows block b consumes, its own included. *)
UndoOf(b) == {r \in Created(b) : r.out \in SpentIn(b)}

(* Block b spends what exists, spends nothing twice, and creates nothing   *)
(* that its branch has created before.                                     *)
Sound(b) ==
    /\ SpentIn(b) \subseteq Keys(Created(b))
    /\ SpentIn(b) \cap Spent(Parent[b]) = {}
    /\ Keys(CreatedIn(b)) \cap Keys(Created(Parent[b])) = {}

(* The working table and the undo entries after n payments of block b. *)
Partial(b, n, rows, entries) ==
    LET here == Created(Parent[b]) \cup CreatedBy(b, n)
    IN  /\ rows = {r \in here : r.out \notin Spent(Parent[b]) \cup SpentBy(b, n)}
        /\ entries = {r \in here : r.out \in SpentBy(b, n)}
        /\ SpentBy(b, n) \cap Spent(Parent[b]) = {}
        /\ SpentBy(b, n) \subseteq Keys(here)
        /\ Keys(CreatedBy(b, n)) \cap Keys(Created(Parent[b])) = {}

LEMMA BranchStep ==
    ASSUME NEW b \in Block \ {Genesis}
    PROVE  /\ Created(b) = Created(Parent[b]) \cup CreatedIn(b)
           /\ Spent(b) = Spent(Parent[b]) \cup SpentIn(b)
  BY TreeAssumption DEF Created, Spent

LEMMA PaymentsType ==
    ASSUME NEW b \in Block
    PROVE  /\ Len(Payments[b]) \in Nat
           /\ DOMAIN Payments[b] = 1..Len(Payments[b])
           /\ \A i \in 1..Len(Payments[b]) :
                 Payments[b][i] \in Tx /\ Payments[b][i] \in PaymentSet(b)
  BY TransactionAssumption DEF PaymentSet

LEMMA NothingYet ==
    ASSUME NEW b
    PROVE  CreatedBy(b, 0) = {} /\ SpentBy(b, 0) = {}
<1>1. 1..0 = {}
  OBVIOUS
<1> QED
  BY <1>1 DEF CreatedBy, SpentBy

LEMMA OneMore ==
    ASSUME NEW b, NEW n \in Nat
    PROVE  /\ CreatedBy(b, n+1) = CreatedBy(b, n)
                                    \cup RowsOf(Payments[b][n+1], Height[b], FALSE)
           /\ SpentBy(b, n+1) = SpentBy(b, n) \cup Inputs[Payments[b][n+1]]
<1>1. 1..(n+1) = (1..n) \cup {n+1}
  OBVIOUS
<1>2. CreatedBy(b, n+1) = CreatedBy(b, n)
                            \cup RowsOf(Payments[b][n+1], Height[b], FALSE)
  BY <1>1 DEF CreatedBy
<1>3. SpentBy(b, n+1) = SpentBy(b, n) \cup Inputs[Payments[b][n+1]]
  BY <1>1 DEF SpentBy
<1> QED
  BY <1>2, <1>3

LEMMA RowKeys ==
    ASSUME NEW t, NEW h, NEW c
    PROVE  /\ Keys(RowsOf(t, h, c)) = OutsOf(t)
           /\ \A out \in OutsOf(t) : out[1] = t
           /\ \A r \in RowsOf(t, h, c) : r.out \in OutsOf(t) /\ r.out[1] = t
<1> DEFINE row(out) == [out |-> out, height |-> h, coinbase |-> c]
<1>1. \A out \in OutsOf(t) : row(out) \in RowsOf(t, h, c) /\ row(out).out = out
  BY DEF RowsOf
<1>2. \A r \in RowsOf(t, h, c) : \E out \in OutsOf(t) : r = row(out)
  BY DEF RowsOf
<1>3. \A out \in OutsOf(t) : out[1] = t
  BY DEF OutsOf
<1>4. \A r \in RowsOf(t, h, c) : r.out \in OutsOf(t)
  BY <1>1, <1>2
<1>5. OutsOf(t) \subseteq Keys(RowsOf(t, h, c))
  BY <1>1 DEF Keys
<1> QED
  BY <1>3, <1>4, <1>5 DEF Keys

LEMMA KeysOfUnion ==
    ASSUME NEW R, NEW S
    PROVE  Keys(R \cup S) = Keys(R) \cup Keys(S)
  BY DEF Keys

(* Undoing a sound block leads back to the ledger of its parent. *)
LEMMA UndoRestores ==
    ASSUME NEW b \in Block \ {Genesis}, Sound(b)
    PROVE  {r \in LedgerAt[b] \cup UndoOf(b) : r.out \notin Keys(CreatedIn(b))}
              = LedgerAt[Parent[b]]
<1> DEFINE p == Parent[b]
<1>1. /\ LedgerAt[b] = {r \in Created(b) : r.out \notin Spent(b)}
      /\ LedgerAt[p] = {r \in Created(p) : r.out \notin Spent(p)}
  BY TreeAssumption DEF LedgerAt
<1>2. Created(b) = Created(p) \cup CreatedIn(b) /\ Spent(b) = Spent(p) \cup SpentIn(b)
  BY BranchStep
<1>3. \A r \in CreatedIn(b) : r.out \in Keys(CreatedIn(b))
  BY DEF Keys
<1>4. \A r \in Created(p) : r.out \notin Keys(CreatedIn(b))
  BY DEF Sound, Keys
<1>5. LedgerAt[b] \cup UndoOf(b) = {r \in Created(b) : r.out \notin Spent(p)}
  BY <1>1, <1>2 DEF UndoOf, Sound
<1> QED
  BY <1>1, <1>2, <1>3, <1>4, <1>5

(* A payment whose inputs are unspent is new to its branch, so that its    *)
(* outputs are too: a transaction has inputs, and they are spent once.     *)
LEMMA PaymentIsNew ==
    ASSUME NEW b \in Block \ {Genesis}, NEW n \in Nat, n < Len(Payments[b]),
           NEW rows, NEW entries, Partial(b, n, rows, entries),
           Screened(b), \A a \in Ancestors[Parent[b]] : Screened(a),
           Inputs[Payments[b][n+1]] \subseteq Keys(rows)
    PROVE  OutsOf(Payments[b][n+1])
              \cap Keys(Created(Parent[b]) \cup CreatedBy(b, n)) = {}
<1> DEFINE p == Parent[b]
           t == Payments[b][n+1]
<1>1. t \in PaymentSet(b) /\ Inputs[t] # {} /\ t \notin CoinbaseTx
  BY PaymentsType DEF Screened
<1>2. PICK out \in Inputs[t] : out \notin Spent(p) \cup SpentBy(b, n)
  BY <1>1 DEF Partial, Keys
<1>3. ASSUME NEW r \in Created(p) PROVE r.out \notin OutsOf(t)
  <2>1. PICK a \in Ancestors[p] : r \in CreatedIn(a)
    BY DEF Created
  <2>2. p \in Block /\ a \in Block
    BY TreeAssumption
  <2>3. CASE r \in RowsOf(Coinbase[a], Height[a], TRUE)
    <3>1. r.out[1] = Coinbase[a] /\ Coinbase[a] \in CoinbaseTx
      BY <2>1, <2>3 DEF RowsOf, OutsOf, Screened
    <3> QED
      BY <1>1, <3>1, RowKeys
  <2>4. CASE r \in CreatedBy(a, Len(Payments[a]))
    <3>1. PICK i \in 1..Len(Payments[a]) : r \in RowsOf(Payments[a][i], Height[a], FALSE)
      BY <2>4 DEF CreatedBy
    <3>2. Inputs[Payments[a][i]] \subseteq Spent(p)
      BY <2>1 DEF Spent, SpentIn, SpentBy
    <3>3. r.out[1] = Payments[a][i]
      BY <3>1 DEF RowsOf, OutsOf
    <3>4. Payments[a][i] # t
      BY <1>2, <3>2
    <3> QED
      BY <3>3, <3>4, RowKeys
  <2> QED
    BY <2>1, <2>3, <2>4 DEF CreatedIn
<1>4. ASSUME NEW r \in CreatedBy(b, n) PROVE r.out \notin OutsOf(t)
  <2>1. PICK i \in 1..n : r \in RowsOf(Payments[b][i], Height[b], FALSE)
    BY DEF CreatedBy
  <2>2. Inputs[Payments[b][i]] \subseteq SpentBy(b, n)
    BY DEF SpentBy
  <2>3. r.out[1] = Payments[b][i]
    BY <2>1 DEF RowsOf, OutsOf
  <2>4. Payments[b][i] # t
    BY <1>2, <2>2
  <2> QED
    BY <2>3, <2>4, RowKeys
<1> QED
  BY <1>3, <1>4 DEF Keys

(* One payment more. *)
LEMMA PaymentStep ==
    ASSUME NEW b \in Block \ {Genesis}, NEW n \in Nat, n < Len(Payments[b]),
           NEW rows, NEW entries, Partial(b, n, rows, entries),
           Screened(b), \A a \in Ancestors[Parent[b]] : Screened(a),
           Spent(Parent[b]) \subseteq Keys(Created(Parent[b])),
           Inputs[Payments[b][n+1]] \subseteq Keys(rows)
    PROVE  LET t == Payments[b][n+1]
               found == {r \in rows : r.out \in Inputs[t]}
           IN  Partial(b, n+1,
                       (rows \ found) \cup RowsOf(t, Height[b], FALSE),
                       entries \cup found)
<1> DEFINE p == Parent[b]
           t == Payments[b][n+1]
           found == {r \in rows : r.out \in Inputs[t]}
           new == RowsOf(t, Height[b], FALSE)
           here == Created(p) \cup CreatedBy(b, n)
<1>1. /\ CreatedBy(b, n+1) = CreatedBy(b, n) \cup new
      /\ SpentBy(b, n+1) = SpentBy(b, n) \cup Inputs[t]
  BY OneMore
<1>2. /\ rows = {r \in here : r.out \notin Spent(p) \cup SpentBy(b, n)}
      /\ entries = {r \in here : r.out \in SpentBy(b, n)}
      /\ SpentBy(b, n) \cap Spent(p) = {}
      /\ SpentBy(b, n) \subseteq Keys(here)
      /\ Keys(CreatedBy(b, n)) \cap Keys(Created(p)) = {}
  BY DEF Partial
<1>3. OutsOf(t) \cap Keys(here) = {}
  BY PaymentIsNew
<1>4. \A out \in Inputs[t] : out \notin Spent(p) \cup SpentBy(b, n) /\ out \in Keys(here)
  BY <1>2 DEF Keys
<1>5. Keys(new) = OutsOf(t) /\ \A r \in new : r.out \in OutsOf(t)
  BY RowKeys
<1>6. \A r \in new : r.out \notin Spent(p) \cup SpentBy(b, n) \cup Inputs[t]
  <2>1. Keys(Created(p)) \subseteq Keys(here)
    BY DEF Keys
  <2> QED
    BY <1>2, <1>3, <1>4, <1>5, <2>1
<1>7. found = {r \in here : r.out \in Inputs[t]}
  BY <1>2, <1>4
<1>8. (rows \ found) \cup new
         = {r \in here \cup new : r.out \notin Spent(p) \cup (SpentBy(b, n) \cup Inputs[t])}
  BY <1>2, <1>6
<1>9. entries \cup found
         = {r \in here \cup new : r.out \in SpentBy(b, n) \cup Inputs[t]}
  BY <1>2, <1>6, <1>7
<1>10. (SpentBy(b, n) \cup Inputs[t]) \cap Spent(p) = {}
  BY <1>2, <1>4
<1>11. SpentBy(b, n) \cup Inputs[t] \subseteq Keys(here \cup new)
  BY <1>2, <1>4 DEF Keys
<1>12. Keys(CreatedBy(b, n) \cup new) \cap Keys(Created(p)) = {}
  <2>1. Keys(here) = Keys(Created(p)) \cup Keys(CreatedBy(b, n))
    BY KeysOfUnion
  <2>2. Keys(CreatedBy(b, n) \cup new) = Keys(CreatedBy(b, n)) \cup Keys(new)
    BY KeysOfUnion
  <2> QED
    BY <1>2, <1>3, <1>5, <2>1, <2>2
<1>13. Created(p) \cup (CreatedBy(b, n) \cup new) = here \cup new
  OBVIOUS
<1> HIDE DEF here, new, found
<1> QED
  BY <1>1, <1>8, <1>9, <1>10, <1>11, <1>12, <1>13 DEF Partial, found, new

(* What a chain of sound blocks spends, it has created. *)
LEMMA SpentWasCreated ==
    ASSUME NEW K, TreeOK(K), NEW p \in K,
           \A a \in Ancestors[p] \ {Genesis} : Sound(a)
    PROVE  Spent(p) \subseteq Keys(Created(p))
<1>1. ASSUME NEW a \in Ancestors[p], NEW out \in SpentIn(a)
      PROVE  out \in Keys(Created(p))
  <2>1. a # Genesis
    BY NothingYet, GenesisAssumption DEF SpentIn
  <2>2. out \in Keys(Created(a))
    BY <2>1 DEF Sound
  <2>3. Ancestors[a] \subseteq Ancestors[p]
    BY DEF TreeOK
  <2>4. Created(a) \subseteq Created(p)
    BY <2>3 DEF Created
  <2> QED
    BY <2>2, <2>4 DEF Keys
<1> QED
  BY <1>1 DEF Spent

(* The block is complete: its coinbase is new because no other block of    *)
(* the branch claims its height, and the table is the ledger of the block. *)
LEMMA BlockStep ==
    ASSUME NEW K, TreeOK(K), NEW b \in Block \ {Genesis}, b \in K,
           NEW rows, NEW entries, Partial(b, Len(Payments[b]), rows, entries),
           \A a \in Ancestors[b] :
               Screened(a) /\ ClaimedHeight[Coinbase[a]] = Height[a],
           Spent(Parent[b]) \subseteq Keys(Created(Parent[b]))
    PROVE  /\ rows \cup RowsOf(Coinbase[b], Height[b], TRUE) = LedgerAt[b]
           /\ entries = UndoOf(b)
           /\ Sound(b)
<1> DEFINE p == Parent[b]
           cb == Coinbase[b]
           n == Len(Payments[b])
           new == RowsOf(cb, Height[b], TRUE)
           here == Created(p) \cup CreatedBy(b, n)
<1>1. /\ rows = {r \in here : r.out \notin Spent(p) \cup SpentIn(b)}
      /\ entries = {r \in here : r.out \in SpentIn(b)}
      /\ SpentIn(b) \cap Spent(p) = {}
      /\ SpentIn(b) \subseteq Keys(here)
      /\ Keys(CreatedBy(b, n)) \cap Keys(Created(p)) = {}
  BY DEF Partial, SpentIn
<1>2. /\ Created(b) = here \cup new
      /\ CreatedIn(b) = CreatedBy(b, n) \cup new
      /\ Spent(b) = Spent(p) \cup SpentIn(b)
  BY BranchStep DEF CreatedIn
<1>3. /\ p \in Block /\ b \in Ancestors[b]
      /\ Ancestors[b] = Ancestors[p] \cup {b}
      /\ cb \in CoinbaseTx
      /\ PaymentSet(b) \cap CoinbaseTx = {}
  BY TreeAssumption DEF TreeOK, Screened
<1>4. ASSUME NEW a \in Ancestors[p] PROVE Coinbase[a] # cb
  <2>1. a \in Ancestors[b] /\ p \in K
    BY <1>3 DEF TreeOK
  <2>2. a = p \/ Height[a] < Height[p]
    BY <2>1 DEF TreeOK
  <2>3. Height[b] = Height[p] + 1 /\ Height[p] \in Nat /\ Height[a] \in Nat
    BY <1>3, <2>1, TreeAssumption DEF TreeOK
  <2>4. Height[a] # Height[b]
    BY <2>2, <2>3
  <2> QED
    BY <1>3, <2>1, <2>4
<1>5. ASSUME NEW a \in Ancestors[b], NEW r \in CreatedBy(a, Len(Payments[a]))
      PROVE  r.out \notin OutsOf(cb)
  <2>1. PICK i \in 1..Len(Payments[a]) : r \in RowsOf(Payments[a][i], Height[a], FALSE)
    BY DEF CreatedBy
  <2>2. a \in Block
    BY TreeAssumption
  <2>3. Payments[a][i] \notin CoinbaseTx
    BY <2>1, <2>2, PaymentsType DEF Screened
  <2>4. r.out[1] = Payments[a][i]
    BY <2>1, RowKeys
  <2> QED
    BY <1>3, <2>3, <2>4, RowKeys
<1>6. ASSUME NEW r \in here PROVE r.out \notin OutsOf(cb)
  <2>1. CASE r \in CreatedBy(b, n)
    BY <1>3, <1>5, <2>1
  <2>2. CASE r \in Created(p)
    <3>1. PICK a \in Ancestors[p] : r \in CreatedIn(a)
      BY <2>2 DEF Created
    <3>2. CASE r \in CreatedBy(a, Len(Payments[a]))
      <4>1. a \in Ancestors[b]
        BY <1>3
      <4> QED
        BY <1>5, <3>2, <4>1
    <3>3. CASE r \in RowsOf(Coinbase[a], Height[a], TRUE)
      <4>1. r.out[1] = Coinbase[a]
        BY <3>3, RowKeys
      <4>2. \A out \in OutsOf(cb) : out[1] = cb
        BY RowKeys
      <4> QED
        BY <1>4, <4>1, <4>2
    <3> QED
      BY <3>1, <3>2, <3>3 DEF CreatedIn
  <2> QED
    BY <2>1, <2>2
<1>7. Keys(new) = OutsOf(cb) /\ \A r \in new : r.out \in OutsOf(cb)
  <2> HIDE DEF n, p, here, cb
  <2> QED
    BY RowKeys
<1>8. Keys(here) \cap OutsOf(cb) = {} /\ Keys(Created(p)) \subseteq Keys(here)
  BY <1>6 DEF Keys
<1>9. \A r \in new : r.out \notin Spent(p) \cup SpentIn(b)
  BY <1>1, <1>7, <1>8
<1>10. LedgerAt[b] = {r \in Created(b) : r.out \notin Spent(b)}
  BY DEF LedgerAt
<1> HIDE DEF here, new
<1>11. rows \cup new = LedgerAt[b]
  BY <1>1, <1>2, <1>9, <1>10
<1>12. entries = UndoOf(b)
  BY <1>1, <1>2, <1>9 DEF UndoOf
<1>13. Sound(b)
  <2>1. SpentIn(b) \subseteq Keys(Created(b))
    BY <1>1, <1>2 DEF Keys
  <2>2. Keys(CreatedIn(b)) \cap Keys(Created(p)) = {}
    BY <1>1, <1>2, <1>7, <1>8, KeysOfUnion
  <2> QED
    BY <1>1, <2>1, <2>2 DEF Sound
<1> QED
  BY <1>11, <1>12, <1>13 DEF new

(***************************************************************************)
(* The inductive invariant.                                                *)
(***************************************************************************)

BlocksOK(ix, bd) ==
    /\ TreeOK(DOMAIN ix)
    /\ ix \in [DOMAIN ix -> Entry]
    /\ DOMAIN bd = DOMAIN ix
    /\ \A b \in DOMAIN ix :
          /\ ix[b].height = Height[b]
          /\ bd[b] \subseteq PaymentSet(b)
          /\ Screened(b)
          /\ ix[b].status = "valid" =>
                /\ ClaimedHeight[Coinbase[b]] = Height[b]
                /\ \A a \in Ancestors[b] : ix[a].status = "valid"

(* Everything about the chain that ends at b but the rows themselves. *)
ConsistentAt(b, ix, bd, un) ==
    /\ b \in DOMAIN ix
    /\ ix[b].status = "valid"
    /\ {a \in DOMAIN ix : ix[a].active} = Ancestors[b]
    /\ \A a \in Ancestors[b] :
          a \in DOMAIN un /\ un[a] = UndoOf(a) /\ bd[a] = {}
    /\ \A a \in Ancestors[b] \ {Genesis} : Sound(a)

DiskOK ==
    /\ BlocksOK(saved.index, saved.body)
    /\ ConsistentAt(saved.tip, saved.index, saved.body, saved.undo)
    /\ DurableLedger
    /\ MostWork

ViewOK ==
    /\ BlocksOK(index, body)
    /\ ConsistentAt(cursor, index, body, undo)
    /\ tip = saved.tip
    /\ position \in Nat \ {0}
    /\ phase \in Phases

(* Between calls the view is what the disk holds. *)
Synced ==
    /\ body = saved.body
    /\ index = saved.index
    /\ utxos = saved.utxos
    /\ undo = saved.undo
    /\ tip = saved.tip

IdleOK == phase = "idle" => Synced /\ cursor = tip /\ position = 1

(* A call in progress has added one block, with more work than the tip. *)
BusyOK ==
    phase # "idle" =>
        /\ candidate \in Known \ DOMAIN saved.index
        /\ Known = DOMAIN saved.index \cup {candidate}
        /\ index[candidate].status = "valid"
        /\ index[candidate].cumwork > saved.index[saved.tip].cumwork
        /\ \A b \in DOMAIN saved.index :
              /\ index[b].cumwork = saved.index[b].cumwork
              /\ index[b].status = saved.index[b].status

DownOK ==
    phase = "disconnect" =>
        /\ fork \in Ancestors[cursor] \cap Ancestors[candidate]
        /\ fork # cursor
        /\ fork # candidate
        /\ branch = Ancestors[candidate] \ Ancestors[fork]
        /\ position = 1
        /\ consumed = {}
        /\ utxos = LedgerAt[cursor]

UpOK ==
    phase = "connect" =>
        /\ cursor \in Ancestors[candidate] \ {candidate}
        /\ branch = Ancestors[candidate] \ Ancestors[cursor]
        /\ position - 1 <= Len(Payments[Current])
        /\ Partial(Current, position - 1, utxos, consumed)
        /\ \A i \in 1..(position - 1) : Payments[Current][i] \notin body[Current]

DoneOK ==
    phase = "commit" =>
        /\ cursor = candidate
        /\ position = 1
        /\ utxos = LedgerAt[cursor]

IInv == DiskOK /\ ViewOK /\ IdleOK /\ BusyOK /\ DownOK /\ UpOK /\ DoneOK

(* Storing one more block. *)
LEMMA StoreBlock ==
    ASSUME NEW ix, NEW bd, BlocksOK(ix, bd),
           NEW b \in Block, b \notin DOMAIN ix, Parent[b] \in DOMAIN ix,
           Screened(b),
           NEW d, d \subseteq PaymentSet(b),
           NEW e \in Entry, e.height = Height[b],
           e.status = "valid" => /\ ix[Parent[b]].status = "valid"
                                 /\ ClaimedHeight[Coinbase[b]] = Height[b]
    PROVE  BlocksOK(Put(ix, b, e), Put(bd, b, d))
<1> DEFINE jx == Put(ix, b, e)
           cd == Put(bd, b, d)
           K == DOMAIN ix
<1>1. /\ DOMAIN jx = K \cup {b} /\ DOMAIN cd = K \cup {b}
      /\ jx[b] = e /\ cd[b] = d
      /\ \A x \in K : jx[x] = ix[x] /\ cd[x] = bd[x]
  BY DEF Put, BlocksOK
<1>2. jx \in [DOMAIN jx -> Entry]
  BY DEF Put, BlocksOK
<1>3. TreeOK(K \cup {b})
  BY TreeGrows DEF BlocksOK
<1> HIDE DEF jx, cd
<1>4. /\ Ancestors[b] = Ancestors[Parent[b]] \cup {b}
      /\ Ancestors[Parent[b]] \subseteq K
      /\ \A x \in K : Ancestors[x] \subseteq K
  BY TreeAssumption DEF BlocksOK, TreeOK
<1>5. ASSUME NEW x \in DOMAIN jx
      PROVE  /\ jx[x].height = Height[x]
             /\ cd[x] \subseteq PaymentSet(x)
             /\ Screened(x)
             /\ jx[x].status = "valid" =>
                   /\ ClaimedHeight[Coinbase[x]] = Height[x]
                   /\ \A a \in Ancestors[x] : jx[a].status = "valid"
  <2>1. CASE x \in K
    <3>1. /\ ix[x].height = Height[x]
          /\ bd[x] \subseteq PaymentSet(x)
          /\ Screened(x)
          /\ ix[x].status = "valid" =>
                /\ ClaimedHeight[Coinbase[x]] = Height[x]
                /\ \A a \in Ancestors[x] : ix[a].status = "valid"
      BY <2>1 DEF BlocksOK
    <3> QED
      BY <1>1, <1>4, <2>1, <3>1
  <2>2. CASE x = b
    <3>1. ix[Parent[b]].status = "valid" =>
             \A a \in Ancestors[Parent[b]] : ix[a].status = "valid"
      BY DEF BlocksOK
    <3> QED
      BY <1>1, <1>4, <2>2, <3>1
  <2> QED
    BY <1>1, <2>1, <2>2
<1>6. BlocksOK(jx, cd)
  BY <1>1, <1>2, <1>3, <1>5 DEF BlocksOK
<1> QED
  BY <1>6 DEF jx, cd

(* A stored block that is not active changes nothing for the active chain. *)
LEMMA StoreKeepsChain ==
    ASSUME NEW ix, NEW bd, NEW un, NEW at, BlocksOK(ix, bd),
           ConsistentAt(at, ix, bd, un),
           NEW b, b \notin DOMAIN ix, NEW d, NEW e, e.active = FALSE
    PROVE  ConsistentAt(at, Put(ix, b, e), Put(bd, b, d), un)
<1> DEFINE jx == Put(ix, b, e)
           cd == Put(bd, b, d)
           K == DOMAIN ix
<1>1. /\ DOMAIN jx = K \cup {b}
      /\ jx[b] = e
      /\ \A x \in K : jx[x] = ix[x] /\ cd[x] = bd[x]
  BY DEF Put, BlocksOK
<1>2. at \in K /\ Ancestors[at] \subseteq K
  BY DEF BlocksOK, ConsistentAt, TreeOK
<1> HIDE DEF jx, cd
<1>3. {a \in DOMAIN jx : jx[a].active} = {a \in K : ix[a].active}
  BY <1>1
<1>4. ConsistentAt(at, jx, cd, un)
  BY <1>1, <1>2, <1>3 DEF ConsistentAt
<1> QED
  BY <1>4 DEF jx, cd

(* Marking a block active or inactive says nothing about its validity. *)
OnlyActiveDiffers(jx, ix, bd, b, v) ==
    /\ BlocksOK(jx, bd)
    /\ DOMAIN jx = DOMAIN ix
    /\ \A x \in DOMAIN ix : /\ jx[x].status = ix[x].status
                            /\ jx[x].cumwork = ix[x].cumwork
                            /\ jx[x].active = IF x = b THEN v ELSE ix[x].active

LEMMA MarkBlock ==
    ASSUME NEW ix, NEW bd, BlocksOK(ix, bd), NEW b \in DOMAIN ix,
           NEW v \in BOOLEAN
    PROVE  OnlyActiveDiffers([ix EXCEPT ![b].active = v], ix, bd, b, v)
<1> DEFINE jx == [ix EXCEPT ![b].active = v]
<1>1. ix \in [DOMAIN ix -> Entry]
  BY DEF BlocksOK
<1>2. DOMAIN jx = DOMAIN ix /\ jx \in [DOMAIN jx -> Entry]
  BY <1>1 DEF Entry
<1>3. \A x \in DOMAIN ix : /\ jx[x].height = ix[x].height
                           /\ jx[x].status = ix[x].status
                           /\ jx[x].cumwork = ix[x].cumwork
                           /\ jx[x].active = IF x = b THEN v ELSE ix[x].active
  BY <1>1 DEF Entry
<1> HIDE DEF jx
<1>4. \A x \in DOMAIN ix : Ancestors[x] \subseteq DOMAIN ix
  BY DEF BlocksOK, TreeOK
<1>5. BlocksOK(jx, bd)
  BY <1>2, <1>3, <1>4 DEF BlocksOK
<1> QED
  BY <1>2, <1>3, <1>5 DEF jx, OnlyActiveDiffers

LEMMA GenesisLedger ==
    /\ LedgerAt[Genesis] = RowsOf(Coinbase[Genesis], 0, TRUE)
    /\ UndoOf(Genesis) = {}
    /\ Screened(Genesis)
    /\ PaymentSet(Genesis) = {}
<1>1. Len(Payments[Genesis]) = 0 /\ DOMAIN Payments[Genesis] = {}
  BY GenesisAssumption
<1>2. SpentIn(Genesis) = {} /\ CreatedBy(Genesis, Len(Payments[Genesis])) = {}
  BY <1>1, NothingYet DEF SpentIn
<1>3. Spent(Genesis) = {} /\ Created(Genesis) = RowsOf(Coinbase[Genesis], 0, TRUE)
  <2>1. Ancestors[Genesis] = {Genesis} /\ Height[Genesis] = 0
    BY TreeAssumption
  <2>2. CreatedIn(Genesis) = RowsOf(Coinbase[Genesis], 0, TRUE)
    BY <1>2, <2>1 DEF CreatedIn
  <2>3. Created(Genesis) = CreatedIn(Genesis) /\ Spent(Genesis) = SpentIn(Genesis)
    BY <2>1 DEF Created, Spent
  <2> QED
    BY <1>2, <2>2, <2>3
<1>4. PaymentSet(Genesis) = {}
  BY <1>1 DEF PaymentSet
<1> QED
  BY <1>2, <1>3, <1>4, TreeAssumption, GenesisAssumption
     DEF LedgerAt, UndoOf, Screened

LEMMA GenesisTree == TreeOK({Genesis})
<1>1. Genesis \in Block /\ Ancestors[Genesis] = {Genesis}
  BY TreeAssumption
<1> QED
  BY <1>1 DEF TreeOK

LEMMA InitIInv == Init => IInv
<1> SUFFICES ASSUME Init PROVE IInv
  OBVIOUS
<1>1. /\ DOMAIN index = {Genesis}
      /\ index[Genesis] = [height |-> 0, cumwork |-> Work(Genesis),
                           active |-> TRUE, status |-> "valid"]
      /\ DOMAIN body = {Genesis} /\ body[Genesis] = {}
      /\ DOMAIN undo = {Genesis} /\ undo[Genesis] = {}
  BY DEF Init
<1>2. index[Genesis] \in Entry /\ index \in [DOMAIN index -> Entry]
  <2>1. Work(Genesis) \in Nat
    BY WorkAssumption, TreeAssumption
  <2>2. index = [b \in {Genesis} |-> [height |-> 0, cumwork |-> Work(Genesis),
                                      active |-> TRUE, status |-> "valid"]]
    BY DEF Init
  <2> HIDE DEF Init
  <2> QED
    BY <1>1, <2>1, <2>2 DEF Entry
<1>3. BlocksOK(index, body)
  BY <1>1, <1>2, GenesisTree, GenesisLedger, TreeAssumption, GenesisAssumption
     DEF BlocksOK
<1>4. ConsistentAt(Genesis, index, body, undo)
  <2>1. Ancestors[Genesis] = {Genesis}
    BY TreeAssumption
  <2>2. index[Genesis].active = TRUE /\ index[Genesis].status = "valid"
    BY <1>1
  <2>3. {a \in DOMAIN index : index[a].active} = {Genesis}
    BY <1>1, <2>2
  <2> QED
    BY <1>1, <2>1, <2>2, <2>3, GenesisLedger DEF ConsistentAt
<1>5. /\ saved.index = index /\ saved.body = body /\ saved.undo = undo
      /\ saved.utxos = utxos /\ saved.tip = tip
      /\ tip = Genesis /\ cursor = Genesis /\ position = 1 /\ phase = "idle"
      /\ utxos = RowsOf(Coinbase[Genesis], 0, TRUE)
  BY DEF Init, Tables
<1>6. DiskOK
  <2>1. DurableLedger
    BY <1>5, GenesisLedger DEF DurableLedger
  <2>2. MostWork
    BY <1>1, <1>2, <1>5 DEF MostWork, Entry
  <2> QED
    BY <1>3, <1>4, <1>5, <2>1, <2>2 DEF DiskOK
<1>7. ViewOK
  BY <1>3, <1>4, <1>5 DEF ViewOK, Phases
<1> QED
  BY <1>5, <1>6, <1>7 DEF IInv, IdleOK, Synced, BusyOK, DownOK, UpOK, DoneOK

(* What the handlers know of a block that can be attached. *)
LEMMA AttachableFacts ==
    ASSUME IInv, NEW b \in Block, Attachable(b)
    PROVE  /\ phase = "idle" /\ b # Genesis
           /\ b \notin Known /\ Parent[b] \in Known
           /\ index[Parent[b]].status = "valid"
           /\ Screened(b)
           /\ NewEntry(b) \in Entry
           /\ NewEntry(b).height = Height[b]
           /\ NewEntry(b).height = index[Parent[b]].height + 1
           /\ NewEntry(b).active = FALSE
           /\ NewEntry(b).status = "valid"
<1>1. /\ phase = "idle" /\ b \notin Known /\ Parent[b] \in Known
      /\ index[Parent[b]].status = "valid"
  BY DEF Attachable
<1>2. Genesis \in Known /\ Parent[b] \in Block /\ BlocksOK(index, body)
  BY <1>1 DEF IInv, ViewOK, BlocksOK, TreeOK, Known
<1>3. b # Genesis /\ Height[b] = Height[Parent[b]] + 1 /\ Height[b] \in Nat
  BY <1>1, <1>2, TreeAssumption
<1>4. index[Parent[b]] \in Entry /\ index[Parent[b]].height = Height[Parent[b]]
  BY <1>1, <1>2 DEF BlocksOK, Known
<1>5. Screened(b)
  BY DEF Attachable, CheckBlockStructure, CheckStructure, Screened
<1> QED
  BY <1>1, <1>3, <1>4, <1>5, WorkAssumption DEF NewEntry, Entry

(* A block stored at once, with its verdict, while no call is in progress. *)
LEMMA StoreStep ==
    ASSUME IInv, NEW b \in Block, Attachable(b),
           NEW d, d \subseteq PaymentSet(b),
           NEW e \in Entry, e.height = Height[b], e.active = FALSE,
           e.status = "valid" => /\ ClaimedHeight[Coinbase[b]] = Height[b]
                                 /\ e.cumwork <= index[tip].cumwork,
           body' = Put(body, b, d), index' = Put(index, b, e),
           UNCHANGED <<utxos, undo, tip, call>>, saved' = Tables'
    PROVE  IInv'
<1>1. /\ phase = "idle" /\ b \notin Known /\ Parent[b] \in Known
      /\ index[Parent[b]].status = "valid" /\ Screened(b)
  BY AttachableFacts
<1>2. /\ BlocksOK(index, body) /\ ConsistentAt(cursor, index, body, undo)
      /\ Synced /\ cursor = tip /\ position = 1
  BY <1>1 DEF IInv, ViewOK, IdleOK
<1>3. BlocksOK(index', body')
  BY <1>1, <1>2, StoreBlock DEF Known
<1>4. ConsistentAt(cursor, index', body', undo)
  BY <1>1, <1>2, StoreKeepsChain DEF Known
<1>5. /\ saved.index = index /\ saved.tip = tip /\ saved.utxos = utxos
      /\ saved'.index = index' /\ saved'.tip = tip /\ saved'.utxos = utxos
      /\ saved'.body = body' /\ saved'.undo = undo
      /\ phase' = "idle" /\ cursor' = cursor /\ undo' = undo /\ tip' = tip
      /\ position' = 1 /\ utxos' = utxos
  BY <1>1, <1>2 DEF Synced, Tables, call
<1>6. DurableLedger'
  BY <1>5 DEF DurableLedger, IInv, DiskOK
<1>7. MostWork'
  <2>1. DOMAIN index' = Known \cup {b} /\ index'[b] = e
        /\ \A x \in Known : index'[x] = index[x]
    BY <1>1 DEF Known, Put
  <2>2. tip \in Known
    BY <1>2 DEF ConsistentAt, Known
  <2>3. \A x \in Known : index[x].status = "valid" => index[x].cumwork <= index[tip].cumwork
    BY <1>5 DEF IInv, DiskOK, MostWork, Known
  <2> QED
    BY <1>5, <2>1, <2>2, <2>3 DEF MostWork
<1>8. DiskOK'
  BY <1>2, <1>3, <1>4, <1>5, <1>6, <1>7 DEF DiskOK
<1>9. ViewOK'
  BY <1>2, <1>3, <1>4, <1>5 DEF ViewOK, Phases
<1> QED
  BY <1>2, <1>5, <1>8, <1>9 DEF IInv, IdleOK, Synced, BusyOK, DownOK, UpOK, DoneOK

(* Before its first payment a block is met by the ledger of its parent. *)
LEMMA PartialStart ==
    ASSUME NEW b \in Block \ {Genesis}
    PROVE  Partial(b, 0, LedgerAt[Parent[b]], {})
<1>1. Parent[b] \in Block
  BY TreeAssumption
<1>2. LedgerAt[Parent[b]] = {r \in Created(Parent[b]) : r.out \notin Spent(Parent[b])}
  BY <1>1 DEF LedgerAt
<1>3. CreatedBy(b, 0) = {} /\ SpentBy(b, 0) = {}
  BY NothingYet
<1>4. Keys({}) = {}
  BY DEF Keys
<1> QED
  BY <1>2, <1>3, <1>4 DEF Partial

(* Two branches of the tree leave each other at one block. *)
LEMMA Meet ==
    ASSUME NEW K, TreeOK(K), NEW x \in K, NEW y \in K
    PROVE  \E f \in Ancestors[x] \cap Ancestors[y] :
              Ancestors[x] \cap Ancestors[y] = Ancestors[f]
<1>1. \A u, v \in K : \E f \in Ancestors[u] \cap Ancestors[v] :
          Ancestors[u] \cap Ancestors[v] = Ancestors[f]
  BY DEF TreeOK
<1> QED
  BY <1>1

(* The walk of _reorg_to stops at the fork of the two branches. *)
LEMMA WalkFindsFork ==
    ASSUME NEW K, TreeOK(K), Known \subseteq K,
           NEW b \in K, b \notin Known, Parent[b] \in Known,
           NEW at \in Known, TreeOK(Known),
           {a \in Known : index[a].active} = Ancestors[at]
    PROVE  \E f \in Ancestors[b] \cap Ancestors[at] :
              /\ f # b /\ InactiveBranch(b) = Ancestors[b] \ Ancestors[f]
              /\ Ancestors[b] \cap Ancestors[at] = Ancestors[f]
<1>1. PICK f \in Ancestors[b] \cap Ancestors[at] :
             Ancestors[b] \cap Ancestors[at] = Ancestors[f]
  <2>1. \A x, y \in K : \E f \in Ancestors[x] \cap Ancestors[y] :
            Ancestors[x] \cap Ancestors[y] = Ancestors[f]
    BY DEF TreeOK
  <2>2. b \in K /\ at \in K
    OBVIOUS
  <2> QED
    BY <2>1, <2>2
<1>2. Ancestors[at] \subseteq Known /\ b \notin Ancestors[at] /\ f # b
  BY DEF TreeOK
<1>3. Ancestors[b] = Ancestors[Parent[b]] \cup {b} /\ Ancestors[Parent[b]] \subseteq Known
  BY TreeAssumption DEF TreeOK
<1>4. \A d \in Ancestors[b] \ {b} : index[d].active <=> d \in Ancestors[f]
  BY <1>1, <1>3
<1>5. f \in Ancestors[f] /\ \A d \in Ancestors[f] : Ancestors[d] \subseteq Ancestors[f]
  BY <1>1, <1>2 DEF TreeOK
<1>6. InactiveBranch(b) \subseteq Ancestors[b] \ Ancestors[f]
  BY <1>1, <1>2, <1>4, <1>5 DEF InactiveBranch
<1>7. Ancestors[b] \ Ancestors[f] \subseteq InactiveBranch(b)
  BY <1>4, <1>5 DEF InactiveBranch
<1> QED
  BY <1>1, <1>2, <1>6, <1>7

LEMMA HeavierStep ==
    ASSUME IInv, NEW b \in Block, NEW d \in Copies[b], AcceptHeavier(b, d)
    PROVE  IInv'
<1>1. /\ phase = "idle" /\ b # Genesis /\ b \notin Known /\ Parent[b] \in Known
      /\ index[Parent[b]].status = "valid" /\ Screened(b)
      /\ NewEntry(b) \in Entry /\ NewEntry(b).height = Height[b]
      /\ NewEntry(b).active = FALSE /\ NewEntry(b).status = "valid"
      /\ ClaimedHeight[Coinbase[b]] = Height[b]
  BY AttachableFacts DEF AcceptHeavier, ContextOk
<1>2. d \subseteq PaymentSet(b)
  BY CopiesAssumption
<1>3. /\ BlocksOK(index, body) /\ ConsistentAt(tip, index, body, undo)
      /\ Synced /\ cursor = tip /\ position = 1
      /\ TreeOK(Known) /\ tip \in Known
      /\ {a \in Known : index[a].active} = Ancestors[tip]
  BY <1>1 DEF IInv, ViewOK, IdleOK, BlocksOK, ConsistentAt, Known
<1>4. /\ body' = Put(body, b, d) /\ index' = Put(index, b, NewEntry(b))
      /\ NewEntry(b).cumwork > index[tip].cumwork
      /\ candidate' = b /\ branch' = InactiveBranch(b)
      /\ fork' = Parent[Oldest(branch')] /\ cursor' = tip
      /\ phase' = (IF fork' = tip THEN "connect" ELSE "disconnect")
      /\ position' = 1 /\ consumed' = {}
      /\ UNCHANGED <<utxos, undo, tip, saved>>
  BY DEF AcceptHeavier, Outweighs
<1>5. BlocksOK(index', body')
  BY <1>1, <1>2, <1>3, <1>4, StoreBlock DEF Known
<1>6. ConsistentAt(tip, index', body', undo)
  BY <1>1, <1>3, <1>4, StoreKeepsChain DEF Known
<1>7. /\ DOMAIN index' = Known \cup {b} /\ index'[b] = NewEntry(b)
      /\ \A x \in Known : index'[x] = index[x]
  BY <1>1, <1>4 DEF Known, Put
<1>8. TreeOK(Known \cup {b})
  BY <1>5, <1>7 DEF BlocksOK
<1>9. PICK f \in Ancestors[b] \cap Ancestors[tip] :
             f # b /\ branch' = Ancestors[b] \ Ancestors[f]
  BY <1>1, <1>3, <1>4, <1>8, WalkFindsFork
<1>10. /\ fork' = f /\ Oldest(branch') \in Block \ {Genesis}
       /\ Parent[Oldest(branch')] = f
  <2>1. /\ Oldest(branch') \in branch' /\ Oldest(branch') # Genesis
        /\ Parent[Oldest(branch')] = f
    <3> DEFINE rest == Ancestors[b] \ Ancestors[f]
    <3>1. b \in Known \cup {b} /\ f \in Ancestors[b] /\ f # b
      BY <1>9
    <3>2. Oldest(rest) \in rest /\ Oldest(rest) # Genesis /\ Parent[Oldest(rest)] = f
      BY <1>8, <3>1, OldestIsNext
    <3> QED
      BY <1>9, <3>2
  <2>2. branch' \subseteq Block
    BY <1>8, <1>9 DEF TreeOK
  <2> QED
    BY <1>4, <2>1, <2>2
<1>11. DiskOK'
  BY <1>4 DEF IInv, DiskOK, DurableLedger, MostWork
<1>12. ViewOK'
  BY <1>4, <1>5, <1>6 DEF IInv, ViewOK, Phases
<1>13. BusyOK'
  BY <1>1, <1>3, <1>4, <1>7 DEF BusyOK, Synced, Known
<1>14. utxos' = LedgerAt[tip]
  BY <1>3, <1>4 DEF IInv, DiskOK, DurableLedger, Synced
<1>15. DownOK'
  BY <1>4, <1>9, <1>10, <1>14 DEF DownOK
<1>16. UpOK'
  <2> SUFFICES ASSUME phase' = "connect" PROVE UpOK'
    BY DEF UpOK
  <2>1. f = tip /\ cursor' = f /\ Current' = Oldest(branch')
    BY <1>4, <1>10 DEF Current
  <2>2. Partial(Current', 0, utxos', consumed')
    BY <1>4, <1>10, <1>14, <2>1, PartialStart
  <2>3. Len(Payments[Current']) \in Nat
    BY <1>10, <2>1, PaymentsType
  <2> QED
    BY <1>4, <1>9, <2>1, <2>2, <2>3 DEF UpOK
<1> QED
  BY <1>4, <1>11, <1>12, <1>13, <1>15, <1>16 DEF IInv, IdleOK, DoneOK

(* The block below the working tip on the way down. *)
LEMMA DisconnectStep ==
    ASSUME IInv, DisconnectTip
    PROVE  IInv'
<1> DEFINE c == cursor
           p == Parent[cursor]
<1>1. /\ phase = "disconnect"
      /\ utxos' = {r \in utxos \cup undo[c] : r.out \notin Keys(CreatedIn(c))}
      /\ index' = [index EXCEPT ![c].active = FALSE]
      /\ cursor' = p
      /\ phase' = IF p = fork THEN "connect" ELSE "disconnect"
      /\ UNCHANGED <<body, undo, tip, saved, candidate, fork, branch, position, consumed>>
  BY DEF DisconnectTip, Undone, Marked
<1>2. /\ BlocksOK(index, body) /\ ConsistentAt(c, index, body, undo)
      /\ TreeOK(Known) /\ c \in Known
      /\ fork \in Ancestors[c] \cap Ancestors[candidate]
      /\ fork # c /\ fork # candidate
      /\ branch = Ancestors[candidate] \ Ancestors[fork]
      /\ position = 1 /\ consumed = {} /\ utxos = LedgerAt[c]
      /\ candidate \in Known
  BY <1>1 DEF IInv, ViewOK, DownOK, BusyOK, BlocksOK, ConsistentAt, Known
<1>3. /\ c \in Block \ {Genesis}
      /\ Ancestors[c] = Ancestors[p] \cup {c}
      /\ p \in Known /\ p \in Ancestors[p]
      /\ c \notin Ancestors[p]
  <2>1. c \in Block \ {Genesis}
    BY <1>2, TreeAssumption DEF TreeOK
  <2>2. /\ Ancestors[c] = Ancestors[p] \cup {c} /\ Height[c] = Height[p] + 1
        /\ Height[p] \in Nat
    BY <2>1, TreeAssumption
  <2>3. p \in Known /\ p \in Ancestors[p]
    BY <1>2, <2>1 DEF TreeOK
  <2>4. \A a \in Ancestors[p] : a = p \/ Height[a] < Height[p]
    BY <1>2, <2>3 DEF TreeOK
  <2> QED
    BY <2>1, <2>2, <2>3, <2>4
<1>4. utxos' = LedgerAt[p]
  BY <1>1, <1>2, <1>3, UndoRestores, TreeAssumption DEF ConsistentAt, TreeOK
<1>5. /\ BlocksOK(index', body) /\ DOMAIN index' = Known
      /\ \A x \in Known : /\ index'[x].status = index[x].status
                          /\ index'[x].cumwork = index[x].cumwork
                          /\ index'[x].active = IF x = c THEN FALSE ELSE index[x].active
  <2> DEFINE jx == [index EXCEPT ![c].active = FALSE]
  <2>1. FALSE \in BOOLEAN /\ c \in DOMAIN index
    BY <1>2 DEF Known
  <2>2. /\ BlocksOK(jx, body) /\ DOMAIN jx = DOMAIN index
        /\ \A x \in DOMAIN index :
              /\ jx[x].status = index[x].status
              /\ jx[x].cumwork = index[x].cumwork
              /\ jx[x].active = IF x = c THEN FALSE ELSE index[x].active
    <3>1. BlocksOK(index, body)
      BY <1>2
    <3>2. OnlyActiveDiffers(jx, index, body, c, FALSE)
      BY <2>1, <3>1, MarkBlock
    <3> QED
      BY <3>2 DEF OnlyActiveDiffers
  <2> QED
    BY <1>1, <2>2 DEF Known
<1>6. ConsistentAt(p, index', body, undo)
  <2>1. {a \in Known : index'[a].active} = Ancestors[p]
    <3>1. {a \in Known : index[a].active} = Ancestors[c]
      BY <1>2 DEF ConsistentAt, Known
    <3>2. \A x \in Known : index'[x].active <=> x # c /\ index[x].active
      BY <1>5
    <3>3. Ancestors[p] \subseteq Known
      BY <1>2, <1>3 DEF TreeOK
    <3> QED
      BY <1>3, <3>1, <3>2, <3>3
  <2>2. index'[p].status = "valid"
    <3>1. index[c].status = "valid" /\ p \in Ancestors[c]
      BY <1>2, <1>3 DEF ConsistentAt
    <3>2. index[p].status = "valid"
      BY <1>2, <3>1 DEF BlocksOK, Known
    <3> QED
      BY <1>3, <1>5, <3>2
  <2> QED
    BY <1>2, <1>3, <1>5, <2>1, <2>2 DEF ConsistentAt, Known
<1>7. DiskOK'
  BY <1>1 DEF IInv, DiskOK, DurableLedger, MostWork
<1>8. ViewOK'
  BY <1>1, <1>5, <1>6 DEF IInv, ViewOK, Phases
<1>9. BusyOK'
  BY <1>1, <1>2, <1>5 DEF IInv, BusyOK, Known
<1>10. DownOK'
  BY <1>1, <1>2, <1>3, <1>4 DEF DownOK
<1>11. UpOK'
  <2> SUFFICES ASSUME p = fork PROVE UpOK'
    BY <1>1 DEF UpOK
  <2>1. /\ Current' = Oldest(branch) /\ Oldest(branch) \in branch
        /\ Oldest(branch) # Genesis /\ Parent[Oldest(branch)] = p
    <3> DEFINE rest == Ancestors[candidate] \ Ancestors[fork]
    <3>1. Oldest(rest) \in rest /\ Oldest(rest) # Genesis /\ Parent[Oldest(rest)] = fork
      BY <1>2, OldestIsNext
    <3> QED
      BY <1>1, <1>2, <3>1 DEF Current
  <2>2. Oldest(branch) \in Block \ {Genesis}
    BY <1>2, <2>1 DEF TreeOK
  <2>3. Partial(Current', 0, utxos', consumed')
    BY <1>1, <1>2, <1>4, <2>1, <2>2, PartialStart
  <2>4. Len(Payments[Current']) \in Nat
    BY <2>1, <2>2, PaymentsType
  <2> QED
    BY <1>1, <1>2, <2>3, <2>4 DEF UpOK
<1> QED
  BY <1>1, <1>7, <1>8, <1>9, <1>10, <1>11 DEF IInv, IdleOK, DoneOK

(* What is known of the block being connected. *)
LEMMA CurrentFacts ==
    ASSUME IInv, phase = "connect"
    PROVE  /\ Current \in Block \ {Genesis} /\ Current \in Known
           /\ Current \in branch /\ Current \in Ancestors[candidate]
           /\ Parent[Current] = cursor
           /\ branch \ {Current} = Ancestors[candidate] \ Ancestors[Current]
           /\ index[Current].height = Height[Current]
           /\ index[Current].status = "valid"
           /\ \A a \in Ancestors[Current] :
                 Screened(a) /\ ClaimedHeight[Coinbase[a]] = Height[a]
           /\ Ancestors[Current] = Ancestors[cursor] \cup {Current}
           /\ Spent(cursor) \subseteq Keys(Created(cursor))
<1>1. /\ TreeOK(Known) /\ candidate \in Known /\ BlocksOK(index, body)
      /\ ConsistentAt(cursor, index, body, undo)
      /\ cursor \in Ancestors[candidate] /\ cursor # candidate /\ cursor \in Known
      /\ branch = Ancestors[candidate] \ Ancestors[cursor]
      /\ index[candidate].status = "valid"
  BY DEF IInv, ViewOK, UpOK, BusyOK, BlocksOK, ConsistentAt, Known
<1>2. /\ Current \in branch /\ Current # Genesis /\ Parent[Current] = cursor
      /\ branch \ {Current} = Ancestors[candidate] \ Ancestors[Current]
  <2> DEFINE rest == Ancestors[candidate] \ Ancestors[cursor]
  <2>1. /\ Oldest(rest) \in rest /\ Oldest(rest) # Genesis
        /\ Parent[Oldest(rest)] = cursor
        /\ rest \ {Oldest(rest)} = Ancestors[candidate] \ Ancestors[Oldest(rest)]
    BY <1>1, OldestIsNext
  <2> QED
    BY <1>1, <2>1 DEF Current
<1>3. Current \in Ancestors[candidate] /\ Current \in Known /\ Current \in Block
  BY <1>1, <1>2 DEF TreeOK
<1>4. index[Current].height = Height[Current] /\ index[Current].status = "valid"
  BY <1>1, <1>3 DEF BlocksOK, Known
<1>5. Ancestors[Current] \subseteq Known
  BY <1>1, <1>3 DEF TreeOK
<1>6. \A a \in Ancestors[Current] :
         Screened(a) /\ ClaimedHeight[Coinbase[a]] = Height[a]
  BY <1>1, <1>3, <1>4, <1>5 DEF BlocksOK, Known
<1>7. Ancestors[Current] = Ancestors[cursor] \cup {Current}
  BY <1>2, <1>3, TreeAssumption
<1>8. Spent(cursor) \subseteq Keys(Created(cursor))
  BY <1>1, SpentWasCreated DEF ConsistentAt
<1> QED
  BY <1>2, <1>3, <1>4, <1>6, <1>7, <1>8

LEMMA PaymentKeeps ==
    ASSUME IInv, ConnectPayment
    PROVE  IInv'
<1> DEFINE c == Current
           t == Payments[c][position]
           n == position - 1
<1>1. /\ phase = "connect" /\ position <= Len(Payments[c]) /\ PaymentOk(t)
      /\ utxos' = Left(t) \cup RowsOf(t, index[c].height, FALSE)
      /\ consumed' = consumed \cup Found(t)
      /\ position' = position + 1
      /\ UNCHANGED <<body, index, undo, tip, saved, phase, candidate, fork,
                     branch, cursor>>
  BY DEF ConnectPayment
<1>2. /\ c \in Block \ {Genesis} /\ Parent[c] = cursor
      /\ index[c].height = Height[c] /\ Screened(c)
      /\ \A a \in Ancestors[Parent[c]] : Screened(a)
      /\ Spent(Parent[c]) \subseteq Keys(Created(Parent[c]))
  BY <1>1, CurrentFacts
<1>3. /\ position \in Nat \ {0} /\ n \in Nat /\ n + 1 = position
      /\ Partial(c, n, utxos, consumed)
      /\ \A i \in 1..n : Payments[c][i] \notin body[c]
      /\ Len(Payments[c]) \in Nat
  BY <1>1, <1>2, PaymentsType DEF IInv, ViewOK, UpOK
<1>4. Inputs[t] \subseteq Keys(utxos) /\ t \notin body[c]
  BY <1>1 DEF PaymentOk, VerifyInputs
<1>5. Partial(c, n + 1, utxos', consumed')
  <2>1. n < Len(Payments[c]) /\ t = Payments[c][n+1]
    BY <1>1, <1>3
  <2>3. /\ c \in Block \ {Genesis} /\ n \in Nat /\ Partial(c, n, utxos, consumed)
        /\ Screened(c) /\ \A a \in Ancestors[Parent[c]] : Screened(a)
        /\ Spent(Parent[c]) \subseteq Keys(Created(Parent[c]))
        /\ Inputs[Payments[c][n+1]] \subseteq Keys(utxos)
    BY <1>2, <1>3, <1>4, <2>1
  <2> HIDE DEF c, n, t
  <2>4. Partial(c, n + 1,
                (utxos \ {r \in utxos : r.out \in Inputs[Payments[c][n+1]]})
                    \cup RowsOf(Payments[c][n+1], Height[c], FALSE),
                consumed \cup {r \in utxos : r.out \in Inputs[Payments[c][n+1]]})
    BY <2>1, <2>3, PaymentStep
  <2>2. Partial(c, n + 1,
                (utxos \ {r \in utxos : r.out \in Inputs[t]})
                    \cup RowsOf(t, Height[c], FALSE),
                consumed \cup {r \in utxos : r.out \in Inputs[t]})
    BY <2>1, <2>4
  <2> QED
    BY <1>1, <1>2, <2>2 DEF Found, Left
<1>6. \A i \in 1..position : Payments[c][i] \notin body[c]
  <2>1. 1..position = (1..n) \cup {position}
    BY <1>3
  <2> QED
    BY <1>3, <1>4, <2>1
<1>7. UpOK'
  <2>1. /\ Current' = c /\ position' - 1 = position /\ n + 1 = position
        /\ position' - 1 <= Len(Payments[c])
    BY <1>1, <1>3 DEF Current
  <2>2. Partial(Current', position' - 1, utxos', consumed')
    BY <1>5, <2>1
  <2>3. \A i \in 1..(position' - 1) : Payments[Current'][i] \notin body'[Current']
    BY <1>1, <1>6, <2>1
  <2>4. cursor' \in Ancestors[candidate'] \ {candidate'}
        /\ branch' = Ancestors[candidate'] \ Ancestors[cursor']
    BY <1>1 DEF IInv, UpOK
  <2> QED
    BY <2>1, <2>2, <2>3, <2>4 DEF UpOK
<1>8. DiskOK'
  BY <1>1 DEF IInv, DiskOK, DurableLedger, MostWork
<1>9. ViewOK'
  BY <1>1, <1>3 DEF IInv, ViewOK
<1>10. BusyOK'
  BY <1>1 DEF IInv, BusyOK, Known
<1> QED
  BY <1>1, <1>7, <1>8, <1>9, <1>10 DEF IInv, IdleOK, DownOK, DoneOK

LEMMA InvalidStep ==
    ASSUME IInv, NEW b \in Block, NEW d \in Copies[b], AcceptInvalid(b, d)
    PROVE  IInv'
<1> DEFINE e == [NewEntry(b) EXCEPT !.status = "invalid"]
<1>1. /\ Attachable(b) /\ body' = Put(body, b, d) /\ index' = Put(index, b, e)
      /\ UNCHANGED <<utxos, undo, tip, call>> /\ saved' = Tables'
  BY DEF AcceptInvalid
<1>2. /\ NewEntry(b) \in Entry /\ NewEntry(b).height = Height[b]
      /\ NewEntry(b).active = FALSE
  BY <1>1, AttachableFacts
<1>3. /\ e \in Entry /\ e.height = Height[b] /\ e.active = FALSE
      /\ e.status = "invalid"
  BY <1>2 DEF Entry
<1>4. d \subseteq PaymentSet(b)
  BY CopiesAssumption
<1> HIDE DEF e
<1> QED
  BY <1>1, <1>3, <1>4, StoreStep

LEMMA SidechainStep ==
    ASSUME IInv, NEW b \in Block, NEW d \in Copies[b], AcceptSidechain(b, d)
    PROVE  IInv'
<1>1. /\ Attachable(b) /\ ContextOk(b, now)
      /\ ~(NewEntry(b).cumwork > index[tip].cumwork)
      /\ body' = Put(body, b, d) /\ index' = Put(index, b, NewEntry(b))
      /\ UNCHANGED <<utxos, undo, tip, call>> /\ saved' = Tables'
  BY DEF AcceptSidechain, Outweighs
<1>2. /\ NewEntry(b) \in Entry /\ NewEntry(b).height = Height[b]
      /\ NewEntry(b).height = index[Parent[b]].height + 1
      /\ NewEntry(b).active = FALSE
  BY <1>1, AttachableFacts
<1>3. ClaimedHeight[Coinbase[b]] = Height[b]
  BY <1>1, <1>2 DEF ContextOk
<1>4. d \subseteq PaymentSet(b)
  BY CopiesAssumption
<1>5. NewEntry(b).cumwork <= index[tip].cumwork
  <2>1. index[tip] \in Entry
    BY <1>1 DEF IInv, ViewOK, IdleOK, BlocksOK, ConsistentAt, Attachable
  <2> QED
    BY <1>1, <1>2, <2>1 DEF Entry
<1> QED
  BY <1>1, <1>2, <1>3, <1>4, <1>5, StoreStep

(* A block closed: it joins the active chain of the view. *)
LEMMA ConnectStep ==
    ASSUME IInv, ConnectBlock
    PROVE  IInv'
<1> DEFINE c == Current
           n == Len(Payments[c])
<1>1. /\ phase = "connect" /\ position > n
      /\ utxos' = utxos \cup RowsOf(Coinbase[c], index[c].height, TRUE)
      /\ undo' = Put(undo, c, consumed)
      /\ index' = [index EXCEPT ![c].active = TRUE]
      /\ cursor' = c
      /\ branch' = branch \ {c}
      /\ phase' = (IF branch' = {} THEN "commit" ELSE "connect")
      /\ position' = 1 /\ consumed' = {}
      /\ UNCHANGED <<body, tip, saved, candidate, fork>>
  BY DEF ConnectBlock, Marked
<1>2. /\ c \in Block \ {Genesis} /\ c \in Known /\ c \in Ancestors[candidate]
      /\ Parent[c] = cursor
      /\ branch \ {c} = Ancestors[candidate] \ Ancestors[c]
      /\ index[c].height = Height[c] /\ index[c].status = "valid"
      /\ \A a \in Ancestors[c] :
            Screened(a) /\ ClaimedHeight[Coinbase[a]] = Height[a]
      /\ Ancestors[c] = Ancestors[cursor] \cup {c}
      /\ Spent(cursor) \subseteq Keys(Created(cursor))
  BY <1>1, CurrentFacts
<1>3. n \in Nat /\ DOMAIN Payments[c] = 1..n
  BY <1>2, PaymentsType
<1>4. /\ position \in Nat \ {0} /\ position - 1 <= n
      /\ Partial(c, position - 1, utxos, consumed)
      /\ \A i \in 1..(position - 1) : Payments[c][i] \notin body[c]
      /\ BlocksOK(index, body) /\ ConsistentAt(cursor, index, body, undo)
      /\ TreeOK(Known) /\ candidate \in Known
  BY <1>1 DEF IInv, ViewOK, UpOK, BusyOK, BlocksOK, Known
<1>5. position - 1 = n
  BY <1>1, <1>3, <1>4
<1>6. utxos' = LedgerAt[c] /\ consumed = UndoOf(c) /\ Sound(c)
  <2>1. Partial(c, n, utxos, consumed)
    BY <1>4, <1>5
  <2>2. Spent(Parent[c]) \subseteq Keys(Created(Parent[c]))
    BY <1>2
  <2> QED
    BY <1>1, <1>2, <1>4, <2>1, <2>2, BlockStep
<1>7. body[c] = {}
  <2>1. body[c] \subseteq PaymentSet(c)
    BY <1>2, <1>4 DEF BlocksOK, Known
  <2>2. \A i \in DOMAIN Payments[c] : Payments[c][i] \notin body[c]
    BY <1>3, <1>4, <1>5
  <2> QED
    BY <2>1, <2>2 DEF PaymentSet
<1>8. /\ BlocksOK(index', body) /\ DOMAIN index' = Known
      /\ \A x \in Known : /\ index'[x].status = index[x].status
                          /\ index'[x].cumwork = index[x].cumwork
                          /\ index'[x].active = IF x = c THEN TRUE ELSE index[x].active
  <2> DEFINE jx == [index EXCEPT ![c].active = TRUE]
  <2>1. TRUE \in BOOLEAN /\ c \in DOMAIN index
    BY <1>2 DEF Known
  <2>2. /\ BlocksOK(jx, body) /\ DOMAIN jx = DOMAIN index
        /\ \A x \in DOMAIN index :
              /\ jx[x].status = index[x].status
              /\ jx[x].cumwork = index[x].cumwork
              /\ jx[x].active = IF x = c THEN TRUE ELSE index[x].active
    <3>1. BlocksOK(index, body)
      BY <1>4
    <3>2. OnlyActiveDiffers(jx, index, body, c, TRUE)
      BY <2>1, <3>1, MarkBlock
    <3> QED
      BY <3>2 DEF OnlyActiveDiffers
  <2> QED
    BY <1>1, <2>2 DEF Known
<1>9. ConsistentAt(c, index', body, undo')
  <2>1. /\ cursor \in Known /\ Ancestors[cursor] \subseteq Known
        /\ c \notin Ancestors[cursor]
    <3>1. cursor \in Known /\ Ancestors[cursor] \subseteq Known
      BY <1>4 DEF ConsistentAt, TreeOK, Known
    <3>2. \A a \in Ancestors[cursor] : a = cursor \/ Height[a] < Height[cursor]
      BY <1>4, <3>1 DEF TreeOK
    <3>3. Height[c] = Height[cursor] + 1 /\ Height[cursor] \in Nat
      BY <1>2, TreeAssumption
    <3> QED
      BY <3>1, <3>2, <3>3
  <2>2. {a \in Known : index'[a].active} = Ancestors[c]
    <3>1. {a \in Known : index[a].active} = Ancestors[cursor]
      BY <1>4 DEF ConsistentAt, Known
    <3>2. \A x \in Known : index'[x].active <=> x = c \/ index[x].active
      BY <1>8
    <3> QED
      BY <1>2, <2>1, <3>1, <3>2
  <2>3. /\ DOMAIN undo' = DOMAIN undo \cup {c} /\ undo'[c] = consumed
        /\ \A x \in DOMAIN undo \ {c} : undo'[x] = undo[x]
    BY <1>1 DEF Put
  <2>4. \A a \in Ancestors[cursor] :
            a \in DOMAIN undo /\ undo[a] = UndoOf(a) /\ body[a] = {}
    BY <1>4 DEF ConsistentAt
  <2>5. \A a \in Ancestors[c] :
            a \in DOMAIN undo' /\ undo'[a] = UndoOf(a) /\ body[a] = {}
    BY <1>2, <1>6, <1>7, <2>1, <2>3, <2>4
  <2>6. \A a \in Ancestors[c] \ {Genesis} : Sound(a)
    BY <1>2, <1>4, <1>6 DEF ConsistentAt
  <2> QED
    BY <1>2, <1>8, <2>2, <2>5, <2>6 DEF ConsistentAt
<1>10. DiskOK'
  BY <1>1 DEF IInv, DiskOK, DurableLedger, MostWork
<1>11. ViewOK'
  BY <1>1, <1>8, <1>9 DEF IInv, ViewOK, Phases
<1>12. BusyOK'
  <2>1. DOMAIN saved.index \subseteq Known
    BY <1>1 DEF IInv, BusyOK
  <2> QED
    BY <1>1, <1>8, <2>1 DEF IInv, BusyOK, Known
<1>13. ASSUME branch' = {} PROVE DoneOK'
  <2>1. candidate \in Ancestors[c]
    BY <1>1, <1>2, <1>4, <1>13 DEF TreeOK
  <2>2. candidate = c \/ Height[candidate] < Height[c]
    BY <1>2, <1>4, <2>1 DEF TreeOK
  <2>3. c = candidate \/ Height[c] < Height[candidate]
    BY <1>2, <1>4 DEF TreeOK
  <2>4. Height[c] \in Nat /\ Height[candidate] \in Nat
    BY <1>2, <1>4, TreeAssumption DEF TreeOK
  <2>5. c = candidate
    BY <2>2, <2>3, <2>4
  <2> QED
    BY <1>1, <1>6, <2>5 DEF DoneOK
<1>14. ASSUME branch' # {} PROVE UpOK'
  <2>1. c # candidate
    BY <1>1, <1>2, <1>14
  <2> DEFINE rest == Ancestors[candidate] \ Ancestors[c]
  <2>2. Oldest(rest) \in rest /\ Oldest(rest) # Genesis /\ Parent[Oldest(rest)] = c
    BY <1>2, <1>4, <2>1, OldestIsNext
  <2>3. /\ branch' = rest /\ Current' = Oldest(rest)
        /\ Current' \in Block \ {Genesis} /\ Parent[Current'] = c
    BY <1>1, <1>2, <1>4, <2>2 DEF Current, TreeOK
  <2>4. Partial(Current', 0, utxos', consumed')
    BY <1>1, <1>6, <2>3, PartialStart
  <2>5. Len(Payments[Current']) \in Nat
    BY <2>3, PaymentsType
  <2> QED
    BY <1>1, <1>2, <2>1, <2>3, <2>4, <2>5 DEF UpOK
<1> QED
  BY <1>1, <1>10, <1>11, <1>12, <1>13, <1>14 DEF IInv, IdleOK, DownOK, UpOK, DoneOK

LEMMA CommitStep ==
    ASSUME IInv, Commit
    PROVE  IInv'
<1>1. /\ phase = "commit" /\ tip' = candidate
      /\ phase' = "idle" /\ cursor' = candidate /\ position' = 1
      /\ UNCHANGED <<body, index, utxos, undo>>
      /\ saved' = Tables'
  BY DEF Commit, Hangup
<1>2. /\ cursor = candidate /\ utxos = LedgerAt[candidate]
      /\ BlocksOK(index, body) /\ ConsistentAt(candidate, index, body, undo)
  BY <1>1 DEF IInv, ViewOK, DoneOK
<1>3. /\ saved'.body = body /\ saved'.index = index /\ saved'.utxos = utxos
      /\ saved'.undo = undo /\ saved'.tip = candidate
  BY <1>1 DEF Tables
<1>4. MostWork'
  <2>1. /\ candidate \in Known
        /\ Known = DOMAIN saved.index \cup {candidate}
        /\ index[candidate].cumwork > saved.index[saved.tip].cumwork
        /\ \A b \in DOMAIN saved.index :
              /\ index[b].cumwork = saved.index[b].cumwork
              /\ index[b].status = saved.index[b].status
    BY <1>1 DEF IInv, BusyOK
  <2>2. /\ saved.tip \in DOMAIN saved.index
        /\ \A b \in DOMAIN saved.index : saved.index[b].status = "valid" =>
               saved.index[b].cumwork <= saved.index[saved.tip].cumwork
    BY DEF IInv, DiskOK, MostWork, ConsistentAt
  <2>3. \A b \in Known : index[b].cumwork \in Nat
    BY <1>2 DEF BlocksOK, Entry, Known
  <2>4. \A b \in Known : index[b].status = "valid" =>
            index[b].cumwork <= index[candidate].cumwork
    BY <2>1, <2>2, <2>3
  <2> QED
    BY <1>3, <2>4 DEF MostWork, Known
<1>5. DiskOK'
  BY <1>2, <1>3, <1>4 DEF DiskOK, DurableLedger
<1>6. ViewOK'
  BY <1>1, <1>2, <1>3 DEF ViewOK, Phases
<1> QED
  BY <1>1, <1>3, <1>5, <1>6 DEF IInv, IdleOK, Synced, BusyOK, DownOK, UpOK, DoneOK

LEMMA RestoreStep ==
    ASSUME IInv, Restore
    PROVE  IInv'
<1>1. /\ body' = saved.body /\ index' = saved.index /\ utxos' = saved.utxos
      /\ undo' = saved.undo /\ tip' = saved.tip /\ saved' = saved
      /\ phase' = "idle" /\ cursor' = saved.tip /\ position' = 1
  BY DEF Restore, Hangup
<1>2. DiskOK'
  BY <1>1 DEF IInv, DiskOK, DurableLedger, MostWork
<1>3. ViewOK'
  BY <1>1 DEF IInv, DiskOK, ViewOK, Phases
<1> QED
  BY <1>1, <1>2, <1>3 DEF IInv, IdleOK, Synced, BusyOK, DownOK, UpOK, DoneOK

LEMMA StutterStep ==
    ASSUME IInv, UNCHANGED <<tables, saved, call>>
    PROVE  IInv'
<1>1. /\ body' = body /\ index' = index /\ utxos' = utxos /\ undo' = undo
      /\ tip' = tip /\ saved' = saved /\ phase' = phase
      /\ candidate' = candidate /\ fork' = fork /\ branch' = branch
      /\ cursor' = cursor /\ position' = position /\ consumed' = consumed
  BY DEF tables, call
<1>2. DiskOK'
  BY <1>1 DEF IInv, DiskOK, DurableLedger, MostWork
<1>3. ViewOK'
  BY <1>1 DEF IInv, ViewOK
<1>4. IdleOK' /\ BusyOK'
  BY <1>1 DEF IInv, IdleOK, Synced, BusyOK, Known
<1>5. DownOK' /\ UpOK' /\ DoneOK'
  BY <1>1 DEF IInv, DownOK, UpOK, DoneOK, Current
<1> QED
  BY <1>2, <1>3, <1>4, <1>5 DEF IInv

LEMMA NextIInv == IInv /\ [Next]_vars => IInv'
<1> SUFFICES ASSUME IInv, [Next]_vars PROVE IInv'
  OBVIOUS
<1>1. ASSUME NEW b \in Block, NEW d \in Copies[b], Accept(b, d) PROVE IInv'
  <2>1. CASE AcceptKnown(b, d) \/ AcceptBad(b, d) \/ AcceptOrphan(b, d)
    BY <2>1, StutterStep DEF AcceptKnown, AcceptBad, AcceptOrphan
  <2>2. CASE AcceptInvalid(b, d)
    BY <2>2, InvalidStep
  <2>3. CASE AcceptSidechain(b, d)
    BY <2>3, SidechainStep
  <2>4. CASE AcceptHeavier(b, d)
    BY <2>4, HeavierStep
  <2> QED
    BY <1>1, <2>1, <2>2, <2>3, <2>4 DEF Accept
<1>2. CASE DisconnectTip
  BY <1>2, DisconnectStep
<1>3. CASE ConnectPayment
  BY <1>3, PaymentKeeps
<1>4. CASE ConnectBlock
  BY <1>4, ConnectStep
<1>5. CASE Commit
  BY <1>5, CommitStep
<1>6. CASE Rollback \/ Crash
  BY <1>6, RestoreStep DEF Rollback, Crash
<1>7. CASE Tick \/ UNCHANGED vars
  BY <1>7, StutterStep DEF Tick, vars
<1> QED
  BY <1>1, <1>2, <1>3, <1>4, <1>5, <1>6, <1>7 DEF Next, Working

(* The tables agree with the tree of blocks on disk and at every step of a *)
(* reorganisation inside the transaction (chainstate.py:154-378).          *)
THEOREM Invariance == Spec => []IInv
<1>1. Init => IInv
  BY InitIInv
<1>2. IInv /\ [Next]_vars => IInv'
  BY NextIInv
<1> QED
  BY <1>1, <1>2, PTL DEF Spec

(***************************************************************************)
(* The theorems.                                                           *)
(***************************************************************************)

(* The utxos table on disk holds what the active chain created and never   *)
(* spent: accept_block, with its disconnecting and reconnecting, and the   *)
(* transaction around it lose no coin and bring none back.                 *)
THEOREM LedgerCorrect == Spec => []DurableLedger
<1>1. IInv => DurableLedger
  BY DEF IInv, DiskOK
<1> QED
  BY <1>1, Invariance, PTL

(* The blocks marked active on disk are the tip and its ancestors, which   *)
(* is what active_hash_at_height answers from.                             *)
THEOREM ActiveChainCorrect == Spec => []DurableActive
<1>1. IInv => DurableActive
  BY DEF IInv, DiskOK, ConsistentAt, DurableActive
<1> QED
  BY <1>1, Invariance, PTL

(* No stored block outside the invalid ones has more work than the tip:    *)
(* a branch that lost the comparison in accept_block stays behind, and one *)
(* that won it was connected or not stored at all.                         *)
THEOREM HeaviestStored == Spec => []MostWork
<1>1. IInv => MostWork
  BY DEF IInv, DiskOK
<1> QED
  BY <1>1, Invariance, PTL

(* Every block of the active chain is held in a copy whose signatures all  *)
(* verify, also one that waited unexamined on a side chain (_connect).     *)
THEOREM ActiveChainSigned == Spec => []ActiveSigned
<1>1. IInv => ActiveSigned
  BY DEF IInv, DiskOK, ConsistentAt, ActiveSigned
<1> QED
  BY <1>1, Invariance, PTL

(* _disconnect always finds its undo record, never inserts an outpoint the *)
(* utxos table has already, and deletes only outputs that are there.       *)
THEOREM DisconnectNeverFails == Spec => []UndoApplies
<1>1. IInv => UndoApplies
  <2> SUFFICES ASSUME IInv, phase = "disconnect" PROVE UndoApplies
    BY DEF UndoApplies
  <2> DEFINE c == cursor
             p == Parent[cursor]
  <2>1. /\ TreeOK(Known) /\ c \in Known /\ ConsistentAt(c, index, body, undo)
        /\ fork \in Ancestors[c] /\ fork # c /\ utxos = LedgerAt[c]
    BY DEF IInv, ViewOK, DownOK, BlocksOK, ConsistentAt, Known
  <2>2. c \in Block \ {Genesis} /\ p \in Known /\ c \in Ancestors[c]
        /\ Ancestors[c] = Ancestors[p] \cup {c}
    BY <2>1, TreeAssumption DEF TreeOK
  <2>3. c \in DOMAIN undo /\ undo[c] = UndoOf(c) /\ Sound(c)
    BY <2>1, <2>2 DEF ConsistentAt
  <2>4. Spent(p) \subseteq Keys(Created(p))
    BY <2>1, <2>2, SpentWasCreated DEF ConsistentAt
  <2>5. /\ utxos = {r \in Created(c) : r.out \notin Spent(c)}
        /\ undo[c] = {r \in Created(c) : r.out \in SpentIn(c)}
    BY <2>1, <2>2, <2>3 DEF LedgerAt, UndoOf
  <2>6. /\ Created(c) = Created(p) \cup CreatedIn(c)
        /\ Spent(c) = Spent(p) \cup SpentIn(c)
    BY <2>2, BranchStep
  <2>7. Keys(undo[c]) \cap Keys(utxos) = {}
    BY <2>5, <2>6 DEF Keys
  <2>8. ASSUME NEW r \in CreatedIn(c) PROVE r \in utxos \cup undo[c]
    <3>1. r \in Created(c) /\ r.out \in Keys(CreatedIn(c))
      BY <2>6 DEF Keys
    <3>2. r.out \notin Spent(p)
      BY <2>3, <2>4, <3>1 DEF Sound
    <3> QED
      BY <2>5, <2>6, <3>1, <3>2
  <2>9. Keys(CreatedIn(c)) \subseteq Keys(utxos \cup undo[c])
    BY <2>8 DEF Keys
  <2> QED
    BY <2>3, <2>7, <2>9 DEF UndoApplies
<1> QED
  BY <1>1, Invariance, PTL

LEMMA WorkingRows == IInv => WorkingLedger
<1> SUFFICES ASSUME IInv, position = 1 PROVE utxos = LedgerAt[cursor]
  BY DEF WorkingLedger
<1>1. CASE phase = "idle"
  BY <1>1 DEF IInv, IdleOK, Synced, DiskOK, DurableLedger
<1>2. CASE phase = "disconnect"
  BY <1>2 DEF IInv, DownOK
<1>3. CASE phase = "commit"
  BY <1>3 DEF IInv, DoneOK
<1>4. CASE phase = "connect"
  <2>1. Parent[Current] = cursor /\ cursor \in Block
    BY <1>4, CurrentFacts DEF IInv, ViewOK, ConsistentAt, BlocksOK, TreeOK
  <2>2. position - 1 = 0
    OBVIOUS
  <2>3. Partial(Current, 0, utxos, consumed)
    BY <1>4, <2>2 DEF IInv, UpOK
  <2> QED
    BY <2>1, <2>3, NothingYet DEF Partial, LedgerAt
<1> QED
  BY <1>1, <1>2, <1>3, <1>4 DEF IInv, ViewOK, Phases

(* Between two blocks of a reorganisation the open transaction sees the    *)
(* ledger of the block it has come to, going down and going up.            *)
THEOREM WorkingLedgerCorrect == Spec => []WorkingLedger
<1> QED
  BY WorkingRows, Invariance, PTL

(* The tip on disk changes only for one with more work: of two equal       *)
(* branches accept_block keeps the one it has.                             *)
THEOREM TipGainsWork == Spec => WorkOnlyGrows
<1> DEFINE Gains ==
        saved'.tip # saved.tip =>
            saved'.index[saved'.tip].cumwork > saved.index[saved.tip].cumwork
<1>1. ASSUME IInv, [Next]_vars PROVE Gains
  <2>1. CASE saved' = saved
    BY <2>1
  <2>2. CASE Commit
    <3>1. saved'.tip = candidate /\ saved'.index = index /\ phase = "commit"
      BY <2>2 DEF Commit, Tables
    <3> QED
      BY <1>1, <3>1 DEF IInv, BusyOK
  <2>3. ASSUME NEW b \in Block, NEW d \in Copies[b],
               AcceptInvalid(b, d) \/ AcceptSidechain(b, d)
        PROVE  Gains
    <3>1. phase = "idle" /\ saved'.tip = tip
      BY <2>3 DEF AcceptInvalid, AcceptSidechain, Attachable, Tables
    <3> QED
      BY <1>1, <3>1 DEF IInv, IdleOK, Synced
  <2>4. CASE \E b \in Block : \E d \in Copies[b] :
                AcceptKnown(b, d) \/ AcceptBad(b, d) \/ AcceptOrphan(b, d)
                    \/ AcceptHeavier(b, d)
    BY <2>1, <2>4 DEF AcceptKnown, AcceptBad, AcceptOrphan, AcceptHeavier
  <2>5. CASE DisconnectTip \/ ConnectPayment \/ ConnectBlock \/ Rollback \/ Crash
                \/ Tick \/ UNCHANGED vars
    BY <2>1, <2>5 DEF DisconnectTip, ConnectPayment, ConnectBlock, Rollback,
                      Crash, Restore, Tick, vars
  <2> QED
    BY <1>1, <2>2, <2>3, <2>4, <2>5 DEF Next, Accept, Working
<1>2. IInv /\ [Next]_vars => [Gains]_vars
  BY <1>1
<1> HIDE DEF Gains
<1>3. Spec => [][Gains]_vars
  BY <1>2, Invariance, PTL DEF Spec
<1> QED
  BY <1>3 DEF WorkOnlyGrows, Gains

(***************************************************************************)
(* Types.                                                                  *)
(***************************************************************************)
CallOK ==
    /\ phase \in Phases
    /\ {candidate, fork, cursor} \subseteq Known
    /\ branch \subseteq Known
    /\ position \in Nat \ {0}
    /\ consumed \subseteq Row
    /\ fees \in Nat
    /\ disconnected \in Seq(Tx)
    /\ connected \in Seq(Block)

ReplyOK ==
    /\ reply.status \in Statuses
    /\ reply.disconnected \in Seq(Tx)
    /\ reply.connected \in Seq(Block)

WorldOK == now \in 0..LastTime /\ crashes \in 0..MaxCrashes /\ offered \subseteq Block

LEMMA TypeParts ==
    TypeOK <=> TablesOK(Tables) /\ TablesOK(saved) /\ CallOK /\ ReplyOK /\ WorldOK
  BY DEF TypeOK, CallOK, ReplyOK, WorldOK

LEMMA RowsAreRows ==
    ASSUME NEW t \in Tx, NEW h \in Nat, NEW c \in BOOLEAN
    PROVE  RowsOf(t, h, c) \subseteq Row
<1>1. OutsOf(t) \subseteq OutPoint
  <2>1. Outputs[t] \in Seq(Nat)
    BY TransactionAssumption
  <2>2. DOMAIN Outputs[t] \subseteq Nat
    BY <2>1
  <2> QED
    BY <2>2 DEF OutsOf, OutPoint
<1> QED
  BY <1>1 DEF RowsOf, Row

(* An answer of accept_block that reports no change of the chain. *)
(* Amounts are natural numbers: those of outputs, and their sums over the  *)
(* outputs and the inputs of a transaction.                                *)
LEMMA AmountTypes ==
    ASSUME NEW t \in Tx
    PROVE  /\ IsFiniteSet(DOMAIN Outputs[t])
           /\ \A i \in DOMAIN Outputs[t] : Outputs[t][i] \in Nat
           /\ OutputTotal(t) \in Nat
           /\ \A out \in Inputs[t] : out \in OutPoint /\ Amount(out) \in Nat
           /\ InputTotal(t) \in Nat
<1>1. \A u \in Tx : /\ DOMAIN Outputs[u] = 1..Len(Outputs[u])
                    /\ Len(Outputs[u]) \in Nat
                    /\ \A i \in DOMAIN Outputs[u] : Outputs[u][i] \in Nat
  BY TransactionAssumption
<1>2. IsFiniteSet(DOMAIN Outputs[t])
  BY <1>1, FS_Interval
<1>3. OutputTotal(t) \in Nat
  BY <1>1, <1>2, SumNat DEF OutputTotal
<1>4. \A out \in Inputs[t] : out \in OutPoint /\ out[2] \in DOMAIN Outputs[out[1]]
  BY TransactionAssumption, AmountAssumption
<1>5. \A out \in Inputs[t] : Amount(out) \in Nat
  BY <1>1, <1>4 DEF Amount, OutPoint
<1>6. InputTotal(t) \in Nat
  <2> DEFINE amount == [out \in Inputs[t] |-> Amount(out)]
  <2>1. IsFiniteSet(Inputs[t])
    BY TransactionAssumption
  <2>2. \A out \in Inputs[t] : amount[out] \in Nat
    BY <1>5
  <2> HIDE DEF amount
  <2>3. SumOver(amount, Inputs[t]) \in Nat
    BY <2>1, <2>2, SumNat
  <2> QED
    BY <2>3 DEF InputTotal, amount
<1> QED
  BY <1>1, <1>2, <1>3, <1>4, <1>5, <1>6

LEMMA AnswerType ==
    ASSUME NEW s \in Statuses, reply' = Answer(s)
    PROVE  ReplyOK'
<1>1. <<>> \in Seq(Tx) /\ <<>> \in Seq(Block)
  OBVIOUS
<1> QED
  BY <1>1 DEF Answer, ReplyOK

LEMMA OfferType ==
    ASSUME WorldOK, NEW b \in Block, NEW d, Offer(b, d), UNCHANGED <<now, crashes>>
    PROVE  WorldOK'
  BY DEF WorldOK, Offer

LEMMA StoreType ==
    ASSUME TablesOK(Tables), NEW b \in Block, NEW d \in SUBSET Tx, NEW e \in Entry,
           body' = Put(body, b, d), index' = Put(index, b, e),
           UNCHANGED <<utxos, undo, tip>>
    PROVE  TablesOK(Tables)' /\ Known' = Known \cup {b}
<1>1. /\ Known \subseteq Block /\ index \in [Known -> Entry]
      /\ body \in [Known -> SUBSET Tx] /\ utxos \subseteq Row
      /\ DOMAIN undo \subseteq Known /\ undo \in [DOMAIN undo -> SUBSET Row]
      /\ tip \in Known
  BY DEF TablesOK, Tables, Known
<1>2. Known' = Known \cup {b}
  BY DEF Known, Put
<1>3. index' \in [Known \cup {b} -> Entry] /\ body' \in [Known \cup {b} -> SUBSET Tx]
  BY <1>1 DEF Put, Known
<1> QED
  BY <1>1, <1>2, <1>3 DEF TablesOK, Tables, Known

LEMMA HangupType ==
    ASSUME NEW at \in Known', Hangup(at)
    PROVE  CallOK'
<1>1. <<>> \in Seq(Tx) /\ <<>> \in Seq(Block)
  OBVIOUS
<1> QED
  BY <1>1 DEF Hangup, CallOK, Phases

LEMMA RestoreType ==
    ASSUME TypeOK, Restore
    PROVE  TablesOK(Tables)' /\ TablesOK(saved)' /\ CallOK'
<1>1. TablesOK(saved)
  BY DEF TypeOK
<1>2. /\ body' = saved.body /\ index' = saved.index /\ utxos' = saved.utxos
      /\ undo' = saved.undo /\ tip' = saved.tip /\ saved' = saved
      /\ Hangup(saved.tip)
  BY DEF Restore
<1>3. TablesOK(Tables)'
  BY <1>1, <1>2 DEF TablesOK, Tables
<1>4. saved.tip \in Known'
  BY <1>1, <1>2 DEF TablesOK, Known
<1> QED
  BY <1>1, <1>2, <1>3, <1>4, HangupType DEF TablesOK

LEMMA AcceptType ==
    ASSUME TypeOK, IInv, NEW b \in Block, NEW d \in Copies[b], Accept(b, d)
    PROVE  TypeOK'
<1>1. /\ TablesOK(Tables) /\ TablesOK(saved) /\ CallOK /\ ReplyOK /\ WorldOK
      /\ d \in SUBSET Tx
  BY TypeParts, CopiesAssumption
<1>2. ASSUME UNCHANGED <<body, index, utxos, undo, tip, saved, call>>, ReplyOK', WorldOK'
      PROVE  TypeOK'
  <2>1. TablesOK(Tables)' /\ TablesOK(saved)'
    BY <1>1, <1>2 DEF TablesOK, Tables
  <2>2. CallOK'
    BY <1>1, <1>2 DEF CallOK, call, Known
  <2> QED
    BY <1>2, <2>1, <2>2 DEF TypeOK, CallOK, ReplyOK, WorldOK
<1>3. CASE AcceptKnown(b, d)
  <2>1. PICK s \in Statuses : reply' = Answer(s)
    BY <1>3 DEF AcceptKnown, Statuses
  <2> QED
    BY <1>1, <1>2, <1>3, <2>1, AnswerType, OfferType DEF AcceptKnown, tables
<1>4. CASE AcceptBad(b, d)
  <2>1. reply' = Answer("rejected") /\ "rejected" \in Statuses
    BY <1>4 DEF AcceptBad, Statuses
  <2> QED
    BY <1>1, <1>2, <1>4, <2>1, AnswerType, OfferType DEF AcceptBad, tables
<1>5. CASE AcceptOrphan(b, d)
  <2>1. reply' = Answer("orphan") /\ "orphan" \in Statuses
    BY <1>5 DEF AcceptOrphan, Statuses
  <2> QED
    BY <1>1, <1>2, <1>5, <2>1, AnswerType DEF AcceptOrphan, WorldOK, tables
<1>6. ASSUME NEW e \in Entry, body' = Put(body, b, d), index' = Put(index, b, e),
             UNCHANGED <<utxos, undo, tip, call>>, saved' = Tables', ReplyOK', WorldOK'
      PROVE  TypeOK'
  <2>1. TablesOK(Tables)' /\ Known' = Known \cup {b}
    BY <1>1, <1>6, StoreType
  <2>2. TablesOK(saved)'
    BY <1>6, <2>1
  <2>3. CallOK'
    BY <1>1, <1>6, <2>1 DEF CallOK, call
  <2> QED
    BY <1>6, <2>1, <2>2, <2>3 DEF TypeOK, CallOK, ReplyOK, WorldOK
<1>7. CASE AcceptInvalid(b, d)
  <2> DEFINE e == [NewEntry(b) EXCEPT !.status = "invalid"]
  <2>1. NewEntry(b) \in Entry
    BY <1>7, AttachableFacts DEF AcceptInvalid
  <2>2. e \in Entry
    BY <2>1 DEF Entry
  <2>3. /\ reply' = Answer("rejected") /\ "rejected" \in Statuses
        /\ body' = Put(body, b, d) /\ index' = Put(index, b, e)
        /\ UNCHANGED <<utxos, undo, tip, call, now, crashes, offered>>
        /\ saved' = Tables'
    BY <1>7 DEF AcceptInvalid, Statuses
  <2> HIDE DEF e
  <2> QED
    BY <1>1, <1>6, <2>2, <2>3, AnswerType DEF WorldOK
<1>8. CASE AcceptSidechain(b, d)
  <2>1. NewEntry(b) \in Entry
    BY <1>8, AttachableFacts DEF AcceptSidechain
  <2>2. /\ reply' = Answer("sidechain") /\ "sidechain" \in Statuses
        /\ body' = Put(body, b, d) /\ index' = Put(index, b, NewEntry(b))
        /\ UNCHANGED <<utxos, undo, tip, call, now, crashes>>
        /\ Offer(b, d) /\ saved' = Tables'
    BY <1>8 DEF AcceptSidechain, Statuses
  <2> QED
    BY <1>1, <1>6, <2>1, <2>2, AnswerType, OfferType
<1>9. CASE AcceptHeavier(b, d)
  <2>1. NewEntry(b) \in Entry
    BY <1>9, AttachableFacts DEF AcceptHeavier
  <2>2. /\ body' = Put(body, b, d) /\ index' = Put(index, b, NewEntry(b))
        /\ candidate' = b /\ cursor' = tip /\ position' = 1 /\ consumed' = {}
        /\ fees' = 0 /\ disconnected' = <<>> /\ connected' = <<>>
        /\ UNCHANGED <<utxos, undo, tip, saved, reply, now, crashes, offered>>
        /\ phase' \in Phases
    BY <1>9 DEF AcceptHeavier, Phases
  <2>3. TablesOK(Tables)' /\ Known' = Known \cup {b} /\ tip \in Known
    BY <1>1, <2>1, <2>2, StoreType DEF TablesOK, Tables, Known
  <2>4. IInv'
    BY <1>9, HeavierStep
  <2>5. TreeOK(Known') /\ phase' \in {"disconnect", "connect"}
    BY <1>9, <2>4 DEF IInv, ViewOK, BlocksOK, Known, AcceptHeavier
  <2>6. branch' \subseteq Known'
    BY <2>2, <2>4, <2>5 DEF IInv, DownOK, UpOK, TreeOK, BusyOK
  <2>7. fork' \in Known'
    <3>1. CASE phase' = "disconnect"
      BY <2>4, <2>5, <3>1 DEF IInv, DownOK, TreeOK, ViewOK, ConsistentAt, Known
    <3>2. CASE phase' = "connect"
      <4>1. fork' = tip
        BY <1>9, <3>2 DEF AcceptHeavier
      <4> QED
        BY <2>3, <4>1
    <3> QED
      BY <2>5, <3>1, <3>2
  <2>8. CallOK'
    <3>1. <<>> \in Seq(Tx) /\ <<>> \in Seq(Block)
      OBVIOUS
    <3> QED
      BY <2>2, <2>3, <2>6, <2>7, <3>1 DEF CallOK
  <2> QED
    BY <1>1, <2>2, <2>3, <2>8 DEF TypeOK, TablesOK, CallOK, ReplyOK, WorldOK
<1> QED
  BY <1>3, <1>4, <1>5, <1>7, <1>8, <1>9 DEF Accept

LEMMA WorkingType ==
    ASSUME TypeOK, IInv, DisconnectTip \/ ConnectPayment \/ ConnectBlock
    PROVE  TypeOK'
<1>1. /\ TablesOK(Tables) /\ TablesOK(saved) /\ CallOK /\ ReplyOK /\ WorldOK
      /\ Known \subseteq Block /\ index \in [Known -> Entry]
      /\ body \in [Known -> SUBSET Tx] /\ utxos \subseteq Row
      /\ DOMAIN undo \subseteq Known /\ undo \in [DOMAIN undo -> SUBSET Row]
      /\ tip \in Known
  BY TypeParts DEF TablesOK, Tables, Known
<1>2. UNCHANGED <<body, tip, saved, candidate, fork, reply, now, crashes, offered>>
  BY DEF DisconnectTip, ConnectPayment, ConnectBlock
<1>3. ASSUME Known' = Known, index' \in [Known -> Entry], utxos' \subseteq Row,
             DOMAIN undo' \subseteq Known, undo' \in [DOMAIN undo' -> SUBSET Row],
             CallOK'
      PROVE  TypeOK'
  <2>1. TablesOK(Tables)'
    BY <1>1, <1>2, <1>3 DEF TablesOK, Tables, Known
  <2>2. TablesOK(saved)' /\ ReplyOK' /\ WorldOK'
    BY <1>1, <1>2 DEF TablesOK, ReplyOK, WorldOK
  <2> QED
    BY <1>3, <2>1, <2>2 DEF TypeOK, CallOK, ReplyOK, WorldOK
<1>4. ASSUME NEW c \in Known, NEW v \in BOOLEAN, index' = [index EXCEPT ![c].active = v]
      PROVE  Known' = Known /\ index' \in [Known -> Entry]
  BY <1>1, <1>4 DEF Known, Entry
<1>5. CASE DisconnectTip
  <2>1. /\ cursor \in Known /\ undo[cursor] \subseteq Row /\ Parent[cursor] \in Known
        /\ Payments[cursor] \in Seq(Tx)
    <3>1. /\ phase = "disconnect" /\ TreeOK(Known)
          /\ ConsistentAt(cursor, index, body, undo)
          /\ fork \in Ancestors[cursor] /\ fork # cursor
      BY <1>5 DEF IInv, ViewOK, DownOK, BlocksOK, Known, DisconnectTip
    <3>2. cursor \in Known /\ cursor # Genesis /\ cursor \in Ancestors[cursor]
      BY <3>1, TreeAssumption DEF ConsistentAt, TreeOK, Known
    <3>3. cursor \in DOMAIN undo
      BY <3>1, <3>2 DEF ConsistentAt
    <3> QED
      BY <1>1, <3>1, <3>2, <3>3, TransactionAssumption DEF TreeOK
  <2>2. /\ index' = [index EXCEPT ![cursor].active = FALSE]
        /\ cursor' = Parent[cursor] /\ undo' = undo /\ utxos' \subseteq Row
        /\ phase' \in Phases
        /\ disconnected' = disconnected \o Payments[cursor]
        /\ UNCHANGED <<branch, position, consumed, fees, connected>>
    BY <1>1, <1>5, <2>1 DEF DisconnectTip, Undone, Marked, Returned, Phases
  <2>3. Known' = Known /\ index' \in [Known -> Entry]
    BY <1>4, <2>1, <2>2
  <2>4. disconnected' \in Seq(Tx)
    BY <1>1, <2>1, <2>2 DEF CallOK
  <2>5. CallOK'
    BY <1>1, <1>2, <2>1, <2>2, <2>3, <2>4 DEF CallOK
  <2> QED
    BY <1>1, <1>3, <2>2, <2>3, <2>5
<1>6. CASE ConnectPayment
  <2> DEFINE t == Payments[Current][position]
  <2>1. /\ position <= Len(Payments[Current]) /\ PaymentOk(t)
        /\ utxos' = Left(t) \cup RowsOf(t, index[Current].height, FALSE)
        /\ consumed' = consumed \cup Found(t)
        /\ fees' = fees + InputTotal(t) - OutputTotal(t)
        /\ position' = position + 1
        /\ UNCHANGED <<index, undo, phase, branch, cursor, disconnected, connected>>
    BY <1>6 DEF ConnectPayment
  <2>2. Current \in Block /\ Current \in Known
    BY <1>6, CurrentFacts DEF ConnectPayment
  <2>3. t \in Tx
    BY <1>1, <2>1, <2>2, PaymentsType DEF CallOK
  <2>4. RowsOf(t, index[Current].height, FALSE) \subseteq Row
    BY <1>1, <2>2, <2>3, RowsAreRows DEF Entry
  <2>5. fees' \in Nat
    <3>1. OutputTotal(t) \in Nat /\ InputTotal(t) \in Nat /\ OutputTotal(t) <= InputTotal(t)
      BY <2>1, <2>3, AmountTypes DEF PaymentOk
    <3> QED
      BY <1>1, <2>1, <3>1 DEF CallOK
  <2>6. utxos' \subseteq Row /\ consumed' \subseteq Row
    BY <1>1, <2>1, <2>4 DEF Left, Found, CallOK
  <2>7. Known' = Known
    BY <2>1 DEF Known
  <2>8. CallOK'
    BY <1>1, <1>2, <2>1, <2>5, <2>6, <2>7 DEF CallOK
  <2> QED
    BY <1>1, <1>3, <2>1, <2>6, <2>7, <2>8
<1>7. CASE ConnectBlock
  <2>1. /\ utxos' = utxos \cup RowsOf(Coinbase[Current], index[Current].height, TRUE)
        /\ undo' = Put(undo, Current, consumed)
        /\ index' = [index EXCEPT ![Current].active = TRUE]
        /\ cursor' = Current /\ connected' = Append(connected, Current)
        /\ branch' = branch \ {Current} /\ phase' \in Phases
        /\ position' = 1 /\ consumed' = {} /\ fees' = 0
        /\ disconnected' = disconnected
    BY <1>7 DEF ConnectBlock, Marked, Phases
  <2>2. Current \in Block /\ Current \in Known
    BY <1>7, CurrentFacts DEF ConnectBlock
  <2>3. RowsOf(Coinbase[Current], index[Current].height, TRUE) \subseteq Row
    BY <1>1, <2>2, RowsAreRows, TransactionAssumption DEF Entry
  <2>4. DOMAIN undo' \subseteq Known /\ undo' \in [DOMAIN undo' -> SUBSET Row]
    BY <1>1, <2>1, <2>2 DEF Put, CallOK
  <2>5. Known' = Known /\ index' \in [Known -> Entry]
    BY <1>4, <2>1, <2>2
  <2>6. connected' \in Seq(Block)
    BY <1>1, <2>1, <2>2 DEF CallOK
  <2>7. CallOK'
    BY <1>1, <1>2, <2>1, <2>2, <2>5, <2>6 DEF CallOK
  <2> QED
    BY <1>1, <1>3, <2>1, <2>3, <2>4, <2>5, <2>7
<1> QED
  BY <1>5, <1>6, <1>7

LEMMA CommitType ==
    ASSUME TypeOK, Commit
    PROVE  TypeOK'
<1>1. /\ TablesOK(Tables) /\ TablesOK(saved) /\ CallOK /\ ReplyOK /\ WorldOK
      /\ candidate \in Known /\ candidate \in Block
  BY TypeParts DEF TablesOK, Tables, Known, CallOK
<1>2. /\ tip' = candidate /\ Hangup(candidate)
      /\ UNCHANGED <<body, index, utxos, undo, now, crashes>>
      /\ Offer(candidate, body[candidate])
      /\ reply' = [status |-> IF disconnected = <<>> THEN "connected" ELSE "reorged",
                   disconnected |-> disconnected, connected |-> connected]
      /\ saved' = Tables'
  BY DEF Commit
<1>3. TablesOK(Tables)' /\ Known' = Known
  BY <1>1, <1>2 DEF TablesOK, Tables, Known
<1>4. TablesOK(saved)'
  BY <1>2, <1>3
<1>5. CallOK'
  BY <1>1, <1>2, <1>3, HangupType
<1>6. ReplyOK'
  BY <1>1, <1>2 DEF ReplyOK, CallOK, Statuses
<1>7. WorldOK'
  BY <1>1, <1>2, OfferType
<1> QED
  BY <1>3, <1>4, <1>5, <1>6, <1>7 DEF TypeOK, CallOK, ReplyOK, WorldOK

(* Every table holds rows of its schema, on disk and in the transaction,   *)
(* and fees are never negative.                                            *)
THEOREM TypeCorrect == Spec => []TypeOK
<1>1. Init => TypeOK
  <2> SUFFICES ASSUME Init PROVE TypeOK
    OBVIOUS
  <2>1. IInv
    BY InitIInv
  <2>2. index \in [{Genesis} -> Entry] /\ Genesis \in Block /\ Known = {Genesis}
    BY <2>1, TreeAssumption DEF Init, IInv, ViewOK, BlocksOK, Known
  <2>3. RowsOf(Coinbase[Genesis], 0, TRUE) \subseteq Row
    BY <2>2, RowsAreRows, TransactionAssumption
  <2>4. TablesOK(Tables) /\ saved = Tables
    BY <2>2, <2>3 DEF Init, TablesOK, Tables, Known
  <2>5. <<>> \in Seq(Tx) /\ <<>> \in Seq(Block)
    OBVIOUS
  <2>6. CallOK
    BY <2>2, <2>5 DEF Init, CallOK, Phases
  <2>7. ReplyOK
    BY <2>5 DEF Init, ReplyOK, Answer, Statuses
  <2>8. WorldOK
    BY <2>2, CopiesAssumption DEF Init, WorldOK
  <2> QED
    BY <2>4, <2>6, <2>7, <2>8, TypeParts
<1>2. TypeOK /\ IInv /\ [Next]_vars => TypeOK'
  <2> SUFFICES ASSUME TypeOK, IInv, [Next]_vars PROVE TypeOK'
    OBVIOUS
  <2>1. ASSUME NEW b \in Block, NEW d \in Copies[b], Accept(b, d) PROVE TypeOK'
    BY <2>1, AcceptType
  <2>2. CASE DisconnectTip \/ ConnectPayment \/ ConnectBlock
    BY <2>2, WorkingType
  <2>3. CASE Commit
    BY <2>3, CommitType
  <2>4. CASE Rollback
    <3>1. /\ Restore /\ reply' = Answer("rejected") /\ "rejected" \in Statuses
          /\ Offer(candidate, body[candidate]) /\ UNCHANGED <<now, crashes>>
      BY <2>4 DEF Rollback, Statuses
    <3>2. candidate \in Block /\ WorldOK
      BY TypeParts DEF TablesOK, Tables, CallOK, Known
    <3>3. TablesOK(Tables)' /\ TablesOK(saved)' /\ CallOK' /\ ReplyOK' /\ WorldOK'
      BY <3>1, <3>2, RestoreType, AnswerType, OfferType
    <3> QED
      BY <3>3 DEF TypeOK, CallOK, ReplyOK, WorldOK
  <2>5. CASE Crash
    <3>1. /\ Restore /\ reply' = Answer("none") /\ "none" \in Statuses
          /\ crashes < MaxCrashes /\ crashes' = crashes + 1
          /\ UNCHANGED <<now, offered>>
      BY <2>5 DEF Crash, Statuses
    <3>2. WorldOK'
      BY <3>1, CopiesAssumption DEF TypeOK, WorldOK
    <3>3. TablesOK(Tables)' /\ TablesOK(saved)' /\ CallOK' /\ ReplyOK'
      BY <3>1, RestoreType, AnswerType
    <3> QED
      BY <3>2, <3>3 DEF TypeOK, CallOK, ReplyOK, WorldOK
  <2>6. CASE Tick
    <3>1. now' \in 0..LastTime
      BY <2>6, CopiesAssumption DEF Tick, TypeOK
    <3> QED
      BY <2>6, <3>1 DEF Tick, TypeOK, TablesOK, Tables, tables, call, Known
  <2>7. CASE UNCHANGED vars
    BY <2>7 DEF vars, TypeOK, TablesOK, Tables, tables, call, Known
  <2> QED
    BY <2>1, <2>2, <2>3, <2>4, <2>5, <2>6, <2>7 DEF Next, Working
<1> QED
  BY <1>1, <1>2, Invariance, PTL DEF Spec

(***************************************************************************)
(* Emission.                                                               *)
(***************************************************************************)

(* The reward of an era: the first is the initial subsidy, each later one  *)
(* half of the one before, rounded down.                                   *)
LEMMA EraRewardFacts ==
    /\ EraReward \in [0..MaxHalvings -> Nat]
    /\ EraReward[0] = InitialSubsidy
    /\ \A e \in 0..MaxHalvings :
          e + 1 \in 0..MaxHalvings => EraReward[e + 1] = EraReward[e] \div 2
<1>1. \E f : IsHalving(f, InitialSubsidy, MaxHalvings)
  BY EmissionAssumption, HalvingsExist
<1>2. IsHalving(EraReward, InitialSubsidy, MaxHalvings)
  BY <1>1 DEF EraReward, IsHalving
<1> QED
  BY <1>2, EmissionAssumption, HalvingsType

(* The closed formulas of Consensus are those of rewards in eras.          *)
LEMMA EmissionInEras ==
    /\ TotalSupply = PaidBefore(EraReward, MaxHalvings, HalvingInterval, MaxHalvings)
    /\ \A h : Subsidy(h) = RewardAt(EraReward, MaxHalvings, HalvingInterval, h)
    /\ \A h \in Nat :
          CirculatingSupply(h) = PaidUpTo(EraReward, MaxHalvings, HalvingInterval, h)
<1>1. TotalSupply = PaidBefore(EraReward, MaxHalvings, HalvingInterval, MaxHalvings)
  BY DEF TotalSupply, EraTotal, PaidBefore
<1>2. \A h : Subsidy(h) = RewardAt(EraReward, MaxHalvings, HalvingInterval, h)
  BY DEF Subsidy, HalvingEra, RewardAt
<1>3. ASSUME NEW h \in Nat
      PROVE  CirculatingSupply(h) = PaidUpTo(EraReward, MaxHalvings, HalvingInterval, h)
  <2>1. ~(h < 0)
    OBVIOUS
  <2> QED
    BY <1>1, <1>2, <2>1 DEF CirculatingSupply, HalvingEra, EraTotal, PaidUpTo, PaidBefore
<1> QED
  BY <1>1, <1>2, <1>3

(* circulating_supply counts the reward of every block once.               *)
LEMMA EmissionStart == Subsidy(0) \in Nat /\ CirculatingSupply(0) = Subsidy(0)
<1>1. 0 \in Nat
  OBVIOUS
<1> QED
  BY <1>1, EmissionAssumption, EraRewardFacts, EmissionInEras, PaidFirst, RewardType

LEMMA EmissionStep ==
    ASSUME NEW h \in Nat
    PROVE  /\ CirculatingSupply(h) \in Nat
           /\ Subsidy(h + 1) \in Nat
           /\ CirculatingSupply(h + 1) = CirculatingSupply(h) + Subsidy(h + 1)
<1>1. h + 1 \in Nat
  OBVIOUS
<1> DEFINE U(k) == PaidUpTo(EraReward, MaxHalvings, HalvingInterval, k)
           R(k) == RewardAt(EraReward, MaxHalvings, HalvingInterval, k)
<1>2. U(h) \in Nat /\ U(h + 1) = U(h) + R(h + 1)
  <2>1. /\ HalvingInterval \in Nat \ {0} /\ MaxHalvings \in Nat
        /\ EraReward \in [0..MaxHalvings -> Nat]
    BY EmissionAssumption, EraRewardFacts
  <2> QED
    BY <2>1, PaidNext
<1>3. R(h + 1) \in Nat
  BY <1>1, EmissionAssumption, EraRewardFacts, RewardType
<1>4. CirculatingSupply(h) = U(h) /\ CirculatingSupply(h + 1) = U(h + 1) /\ Subsidy(h + 1) = R(h + 1)
  BY <1>1, EmissionInEras
<1> QED
  BY <1>2, <1>3, <1>4

(***************************************************************************)
(* What rows are worth.                                                    *)
(***************************************************************************)

(* Finitely many rows, one per outpoint, each of an output that exists.    *)
Proper(rows) ==
    /\ IsFiniteSet(rows)
    /\ \A r \in rows : Amount(r.out) \in Nat
    /\ \A r, s \in rows : r.out = s.out => r = s

LEMMA ValueType ==
    ASSUME NEW rows, Proper(rows)
    PROVE  LedgerValue(rows) \in Nat
<1> DEFINE f == [r \in rows |-> Amount(r.out)]
<1>1. \A r \in rows : f[r] \in Nat
  BY DEF Proper
<1> HIDE DEF f
<1>2. SumOver(f, rows) \in Nat
  BY <1>1, SumNat DEF Proper
<1> QED
  BY <1>2 DEF LedgerValue, f

LEMMA ProperPart ==
    ASSUME NEW rows, Proper(rows), NEW part \in SUBSET rows
    PROVE  Proper(part)
<1>1. IsFiniteSet(part)
  BY FS_Subset DEF Proper
<1> QED
  BY <1>1 DEF Proper

(* Rows of different outpoints are worth the sum of both.                  *)
LEMMA ValueUnion ==
    ASSUME NEW R, NEW S, Proper(R), Proper(S), Keys(R) \cap Keys(S) = {}
    PROVE  Proper(R \cup S) /\ LedgerValue(R \cup S) = LedgerValue(R) + LedgerValue(S)
<1> DEFINE f == [r \in R |-> Amount(r.out)]
           g == [r \in S |-> Amount(r.out)]
           h == [r \in R \cup S |-> Amount(r.out)]
<1>1. IsFiniteSet(R) /\ IsFiniteSet(S) /\ IsFiniteSet(R \cup S)
  BY FS_Union DEF Proper
<1>2. \A r \in R, s \in S : r.out # s.out
  BY DEF Keys
<1>3. R \cap S = {} /\ Proper(R \cup S)
  BY <1>1, <1>2 DEF Proper
<1>4. /\ \A r \in R : h[r] = f[r]
      /\ \A r \in S : h[r] = g[r]
      /\ \A r \in R \cup S : h[r] \in Int
  BY DEF Proper
<1> HIDE DEF f, g, h
<1>5. SumOver(h, R \cup S) = SumOver(h, R) + SumOver(h, S)
  BY <1>1, <1>3, <1>4, SumUnion
<1>6. SumOver(h, R) = SumOver(f, R) /\ SumOver(h, S) = SumOver(g, S)
  BY <1>1, <1>4, SumSame
<1> QED
  BY <1>3, <1>5, <1>6 DEF LedgerValue, f, g, h

(* The rows of a transaction are worth its outputs.                        *)
LEMMA ValueOfRows ==
    ASSUME NEW t \in Tx, NEW h, NEW c
    PROVE  Proper(RowsOf(t, h, c)) /\ LedgerValue(RowsOf(t, h, c)) = OutputTotal(t)
<1> DEFINE S == DOMAIN Outputs[t]
           row == [i \in S |-> [out |-> <<t, i>>, height |-> h, coinbase |-> c]]
           rows == {row[i] : i \in S}
           g == [r \in rows |-> Amount(r.out)]
<1>1. rows = RowsOf(t, h, c)
  <2>1. \A i \in S : row[i] = [out |-> <<t, i>>, height |-> h, coinbase |-> c]
                     /\ <<t, i>> \in OutsOf(t)
    BY DEF OutsOf
  <2>2. \A out \in OutsOf(t) : \E i \in S : out = <<t, i>>
    BY DEF OutsOf
  <2> HIDE DEF row, S
  <2>3. rows \subseteq RowsOf(t, h, c)
    BY <2>1 DEF RowsOf
  <2>4. RowsOf(t, h, c) \subseteq rows
    BY <2>1, <2>2 DEF RowsOf
  <2> QED
    BY <2>3, <2>4
<1>2. /\ IsFiniteSet(S)
      /\ \A i \in S : Outputs[t][i] \in Nat
  BY AmountTypes
<1>3. \A i \in S : /\ row[i].out = <<t, i>>
                   /\ Amount(row[i].out) = Outputs[t][i]
  BY DEF Amount
<1>4. \A i, j \in S : row[i].out = row[j].out => i = j
  BY <1>3
<1>5. \A i \in S : Outputs[t][i] \in Int /\ g[row[i]] = Outputs[t][i]
  <2>1. \A i \in S : row[i] \in rows
    OBVIOUS
  <2> HIDE DEF row, rows
  <2> QED
    BY <1>2, <1>3, <2>1
<1> HIDE DEF S, row
<1>6. IsFiniteSet(rows) /\ SumOver(g, rows) = SumOver(Outputs[t], S)
  <2> HIDE DEF g
  <2>1. \A i, j \in S : row[i] = row[j] => i = j
    BY <1>4
  <2> QED
    BY <1>2, <1>5, <2>1, SumRenamed
<1>7. Proper(rows)
  <2>1. \A r \in rows : \E i \in S : r = row[i]
    OBVIOUS
  <2> QED
    BY <1>2, <1>3, <1>4, <1>6, <2>1 DEF Proper
<1>8. LedgerValue(rows) = SumOver(g, rows)
  BY DEF LedgerValue
<1> QED
  BY <1>1, <1>6, <1>7, <1>8 DEF OutputTotal, S

(* What the inputs of a transaction find is worth what it spends.          *)
LEMMA ValueOfFound ==
    ASSUME NEW t \in Tx, NEW rows, Proper(rows), Inputs[t] \subseteq Keys(rows)
    PROVE  LedgerValue({r \in rows : r.out \in Inputs[t]}) = InputTotal(t)
<1> DEFINE S == {r \in rows : r.out \in Inputs[t]}
           f == [r \in S |-> Amount(r.out)]
           g == [out \in Inputs[t] |-> Amount(out)]
           key == [r \in S |-> r.out]
<1>1. Inputs[t] = {key[r] : r \in S}
  BY DEF Keys
<1>2. IsFiniteSet(S) /\ \A r \in S : f[r] \in Int /\ g[key[r]] = f[r]
  <2>1. Proper(S)
    BY ProperPart
  <2> QED
    BY <2>1 DEF Proper
<1>3. \A r, s \in S : key[r] = key[s] => r = s
  BY DEF Proper
<1>4. LedgerValue(S) = SumOver(f, S) /\ InputTotal(t) = SumOver(g, Inputs[t])
  BY DEF LedgerValue, InputTotal
<1> HIDE DEF S, f, g, key
<1>5. SumOver(g, {key[r] : r \in S}) = SumOver(f, S)
  BY <1>2, <1>3, SumRenamed
<1> QED
  BY <1>1, <1>4, <1>5 DEF S

(***************************************************************************)
(* The blocks of the active chain are valid, and what they leave unspent   *)
(* is never worth more than what has been issued.                          *)
(***************************************************************************)
FeeOf(b) ==
    [i \in DOMAIN Payments[b] |->
        InputTotal(Payments[b][i]) - OutputTotal(Payments[b][i])]

(* What BlockValid asks of the i-th payment of b. *)
PaymentValid(b, i) ==
    LET t == Payments[b][i]
    IN  /\ \A out \in Inputs[t] :
              \E r \in Spendable(b, i) : r.out = out /\ Mature(r, Height[b])
        /\ OutputTotal(t) <= InputTotal(t)
        /\ OutsOf(t) \cap Keys(Spendable(b, i)) = {}

Settled(b) ==
    /\ b # Genesis => BlockValid(b)
    /\ Proper(LedgerAt[b])
    /\ LedgerValue(LedgerAt[b]) <= CirculatingSupply(Height[b])

(* The payments connected so far are valid, and what they have taken from  *)
(* the ledger is in the fees.                                              *)
PaidOK ==
    /\ fees = SumOver(FeeOf(Current), 1..(position - 1))
    /\ \A i \in 1..(position - 1) : PaymentValid(Current, i)
    /\ Proper(utxos)
    /\ LedgerValue(utxos) + fees = LedgerValue(LedgerAt[cursor])

SettledOK ==
    /\ \A b \in Ancestors[saved.tip] \cup Ancestors[cursor] : Settled(b)
    /\ phase = "disconnect" => fees = 0
    /\ phase = "connect" => PaidOK

LEMMA FeeType ==
    ASSUME NEW b \in Block
    PROVE  /\ DOMAIN FeeOf(b) = 1..Len(Payments[b])
           /\ \A i \in 1..Len(Payments[b]) :
                 /\ FeeOf(b)[i] \in Int
                 /\ FeeOf(b)[i] = InputTotal(Payments[b][i]) - OutputTotal(Payments[b][i])
           /\ Fees(b) = SumOver(FeeOf(b), 1..Len(Payments[b]))
<1>1. DOMAIN Payments[b] = 1..Len(Payments[b])
  BY PaymentsType
<1>2. ASSUME NEW i \in 1..Len(Payments[b])
      PROVE  InputTotal(Payments[b][i]) - OutputTotal(Payments[b][i]) \in Int
  <2>1. Payments[b][i] \in Tx
    BY PaymentsType
  <2> QED
    BY <2>1, AmountTypes
<1>3. Fees(b) = SumOver(FeeOf(b), DOMAIN FeeOf(b))
  BY DEF Fees, FeeOf
<1> QED
  BY <1>1, <1>2, <1>3 DEF FeeOf

(* The rows a block may still spend after n payments are what Partial says *)
(* of the table.                                                           *)
LEMMA PartialSpendable ==
    ASSUME NEW b \in Block \ {Genesis}, NEW n \in Nat,
           NEW rows, NEW entries, Partial(b, n, rows, entries),
           Spent(Parent[b]) \subseteq Keys(Created(Parent[b]))
    PROVE  rows = Spendable(b, n + 1)
<1> DEFINE p == Parent[b]
<1>1. p \in Block /\ LedgerAt[p] = {r \in Created(p) : r.out \notin Spent(p)}
  BY TreeAssumption DEF LedgerAt
<1>2. /\ rows = {r \in Created(p) \cup CreatedBy(b, n) :
                    r.out \notin Spent(p) \cup SpentBy(b, n)}
      /\ Keys(CreatedBy(b, n)) \cap Keys(Created(p)) = {}
  BY DEF Partial
<1>3. \A r \in CreatedBy(b, n) : r.out \notin Spent(p)
  BY <1>2 DEF Keys
<1>4. (n + 1) - 1 = n
  OBVIOUS
<1>5. Spendable(b, n + 1) = {r \in LedgerAt[p] \cup CreatedBy(b, n) : r.out \notin SpentBy(b, n)}
  BY <1>4 DEF Spendable
<1> QED
  BY <1>1, <1>2, <1>3, <1>5

LEMMA SettledInit == Init => SettledOK
<1> SUFFICES ASSUME Init PROVE SettledOK
  OBVIOUS
<1>1. /\ saved.tip = Genesis /\ cursor = Genesis /\ phase = "idle"
      /\ saved.utxos = utxos /\ utxos = RowsOf(Coinbase[Genesis], 0, TRUE)
  BY DEF Init, Tables
<1>2. LedgerAt[Genesis] = RowsOf(Coinbase[Genesis], 0, TRUE)
  BY <1>1, InitIInv DEF IInv, DiskOK, DurableLedger
<1>3. Coinbase[Genesis] \in Tx /\ Height[Genesis] = 0
  BY TreeAssumption, TransactionAssumption
<1>4. /\ Proper(LedgerAt[Genesis])
      /\ LedgerValue(LedgerAt[Genesis]) = CirculatingSupply(0)
  BY <1>2, <1>3, ValueOfRows, EmissionStart, GenesisRewardAssumption
<1>5. CirculatingSupply(0) \in Nat
  BY EmissionStep
<1>6. Settled(Genesis)
  BY <1>3, <1>4, <1>5 DEF Settled
<1> QED
  BY <1>1, <1>6, TreeAssumption DEF SettledOK

(* One payment moves its value from the inputs to the outputs and the fee. *)
LEMMA SettledPayment ==
    ASSUME IInv, SettledOK, ConnectPayment
    PROVE  SettledOK'
<1> DEFINE c == Current
           t == Payments[c][position]
           n == position - 1
           fee == FeeOf(c)
<1>1. /\ phase = "connect" /\ position <= Len(Payments[c]) /\ PaymentOk(t)
      /\ utxos' = Left(t) \cup RowsOf(t, index[c].height, FALSE)
      /\ fees' = fees + InputTotal(t) - OutputTotal(t)
      /\ position' = position + 1
      /\ UNCHANGED <<body, index, undo, tip, saved, phase, candidate, fork,
                     branch, cursor>>
  BY DEF ConnectPayment
<1>2. /\ c \in Block \ {Genesis} /\ Parent[c] = cursor
      /\ index[c].height = Height[c] /\ Screened(c)
      /\ \A a \in Ancestors[Parent[c]] : Screened(a)
      /\ Spent(Parent[c]) \subseteq Keys(Created(Parent[c]))
  BY <1>1, CurrentFacts
<1>3. /\ position \in Nat \ {0} /\ n \in Nat /\ n + 1 = position
      /\ Partial(c, n, utxos, consumed)
      /\ Len(Payments[c]) \in Nat /\ position \in 1..Len(Payments[c])
      /\ t \in Tx
  <2>1. position \in Nat \ {0} /\ Partial(c, n, utxos, consumed)
    BY <1>1 DEF IInv, ViewOK, UpOK
  <2>2. Len(Payments[c]) \in Nat
    BY <1>2, PaymentsType
  <2>3. position \in 1..Len(Payments[c])
    BY <1>1, <2>1, <2>2
  <2> QED
    BY <1>2, <2>1, <2>2, <2>3, PaymentsType
<1>4. PaidOK
  BY <1>1 DEF SettledOK
<1>5. utxos = Spendable(c, position)
  BY <1>2, <1>3, PartialSpendable
<1>6. /\ Inputs[t] \subseteq Keys(utxos)
      /\ \A r \in utxos : r.out \in Inputs[t] => Mature(r, Height[c])
      /\ OutputTotal(t) <= InputTotal(t)
      /\ OutsOf(t) \cap Keys(Left(t)) = {}
  BY <1>1, <1>2 DEF PaymentOk, Found
<1>7. PaymentValid(c, position)
  <2>1. \A out \in Inputs[t] :
            \E r \in Spendable(c, position) : r.out = out /\ Mature(r, Height[c])
    BY <1>5, <1>6 DEF Keys
  <2>2. OutsOf(t) \cap Keys(Spendable(c, position)) = {}
    <3>1. OutsOf(t) \cap Keys(Created(Parent[c]) \cup CreatedBy(c, n)) = {}
      <4>1. n < Len(Payments[c]) /\ t = Payments[c][n + 1]
        BY <1>1, <1>3
      <4>2. Inputs[Payments[c][n + 1]] \subseteq Keys(utxos)
        BY <1>6, <4>1
      <4> HIDE DEF n, c
      <4> QED
        BY <1>2, <1>3, <4>1, <4>2, PaymentIsNew
    <3>2. utxos \subseteq Created(Parent[c]) \cup CreatedBy(c, n)
      BY <1>3 DEF Partial
    <3> QED
      BY <1>5, <3>1, <3>2 DEF Keys
  <2> QED
    BY <1>6, <2>1, <2>2 DEF PaymentValid
<1>8. \A i \in 1..position : PaymentValid(c, i)
  <2>1. 1..position = (1..n) \cup {position}
    BY <1>3
  <2> QED
    BY <1>4, <1>7, <2>1 DEF PaidOK
<1>9. InputTotal(t) \in Nat /\ OutputTotal(t) \in Nat
  BY <1>3, AmountTypes
<1>10. fees \in Int /\ fees' = SumOver(fee, 1..position)
  <2>1. \A i \in 1..position : fee[i] \in Int
    <3>1. \A i \in 1..position : i \in 1..Len(Payments[c])
      BY <1>3
    <3> QED
      BY <1>2, <3>1, FeeType
  <2>2. fee[position] = InputTotal(t) - OutputTotal(t)
    BY <1>2, <1>3, FeeType
  <2> HIDE DEF fee
  <2>3. SumOver(fee, 1..(n + 1)) = SumOver(fee, 1..n) + fee[n + 1]
    <3>1. n \in Int /\ 1 <= n + 1 /\ \A i \in 1..(n + 1) : fee[i] \in Int
      BY <1>3, <2>1
    <3> HIDE DEF n
    <3> QED
      BY <3>1, SumInterval
  <2>4. SumOver(fee, 1..n) \in Int
    <3>1. IsFiniteSet(1..n) /\ \A i \in 1..n : i \in 1..position
      BY <1>3, FS_Interval
    <3> QED
      BY <2>1, <3>1, SumInt
  <2>5. fees = SumOver(fee, 1..n)
    BY <1>4 DEF PaidOK, fee
  <2> QED
    BY <1>1, <1>3, <1>9, <2>2, <2>3, <2>4, <2>5
<1>11. Proper(utxos') /\ LedgerValue(utxos') = LedgerValue(utxos) - InputTotal(t) + OutputTotal(t)
  <2> DEFINE new == RowsOf(t, index[c].height, FALSE)
             left == Left(t)
             found == {r \in utxos : r.out \in Inputs[t]}
  <2>1. Proper(new) /\ LedgerValue(new) = OutputTotal(t) /\ Keys(new) = OutsOf(t)
    BY <1>3, ValueOfRows, RowKeys
  <2>2. Proper(left) /\ Proper(found) /\ left \cup found = utxos
    BY <1>4, ProperPart DEF PaidOK, Left, Found
  <2>3. Keys(left) \cap Keys(found) = {}
    BY DEF Left, Found, Keys
  <2>4. LedgerValue(found) = InputTotal(t)
    BY <1>3, <1>4, <1>6, ValueOfFound DEF PaidOK
  <2>5. Keys(left) \cap Keys(new) = {}
    BY <1>6, <2>1
  <2> HIDE DEF new, left, found
  <2>6. LedgerValue(utxos) = LedgerValue(left) + LedgerValue(found)
    BY <2>2, <2>3, ValueUnion
  <2>7. /\ Proper(left \cup new)
        /\ LedgerValue(left \cup new) = LedgerValue(left) + LedgerValue(new)
    BY <2>1, <2>2, <2>5, ValueUnion
  <2>8. LedgerValue(left) \in Nat
    BY <2>2, ValueType
  <2>9. utxos' = left \cup new
    BY <1>1 DEF left, new
  <2> QED
    BY <1>9, <2>1, <2>4, <2>6, <2>7, <2>8, <2>9
<1>12. LedgerValue(utxos') + fees' = LedgerValue(LedgerAt[cursor])
  <2>1. LedgerValue(utxos) \in Nat /\ LedgerValue(utxos) + fees = LedgerValue(LedgerAt[cursor])
    BY <1>4, ValueType DEF PaidOK
  <2> QED
    BY <1>1, <1>9, <1>10, <1>11, <2>1
<1>13. Current' = c /\ position' - 1 = position /\ cursor' = cursor
  BY <1>1, <1>3 DEF Current
<1>14. PaidOK'
  BY <1>8, <1>10, <1>11, <1>12, <1>13 DEF PaidOK
<1> QED
  BY <1>1, <1>14 DEF SettledOK

(* Before its first payment a block has taken nothing. *)
LEMMA PaidStart ==
    ASSUME IInv', position' = 1, fees' = 0, Settled(cursor')
    PROVE  PaidOK'
<1>1. WorkingLedger'
  BY WorkingRows, PTL
<1>2. utxos' = LedgerAt[cursor'] /\ Proper(utxos')
  BY <1>1 DEF WorkingLedger, Settled
<1>3. 1..(position' - 1) = {}
  OBVIOUS
<1>4. SumOver(FeeOf(Current'), {}) = 0
  BY SumEmpty
<1>5. LedgerValue(utxos') \in Nat
  BY <1>2, ValueType
<1> QED
  BY <1>2, <1>3, <1>4, <1>5 DEF PaidOK

(* A block closes: its coinbase takes at most its subsidy and the fees. *)
LEMMA SettledBlock ==
    ASSUME IInv, IInv', SettledOK, ConnectBlock
    PROVE  SettledOK'
<1> DEFINE c == Current
           n == Len(Payments[c])
           cb == Coinbase[c]
<1>1. /\ phase = "connect" /\ position > n
      /\ utxos' = utxos \cup RowsOf(cb, index[c].height, TRUE)
      /\ cursor' = c /\ position' = 1 /\ fees' = 0
      /\ phase' \in {"commit", "connect"}
      /\ UNCHANGED saved
      /\ OutputTotal(cb) <= Subsidy(index[c].height) + fees
      /\ OutsOf(cb) \cap Keys(utxos) = {}
  BY DEF ConnectBlock, RewardOk
<1>2. /\ c \in Block \ {Genesis} /\ Parent[c] = cursor
      /\ index[c].height = Height[c]
      /\ Ancestors[c] = Ancestors[cursor] \cup {c}
      /\ Spent(Parent[c]) \subseteq Keys(Created(Parent[c]))
  BY <1>1, CurrentFacts
<1>3. n \in Nat /\ DOMAIN Payments[c] = 1..n
  BY <1>2, PaymentsType
<1>4. position - 1 = n /\ Partial(c, n, utxos, consumed)
  <2>1. position \in Nat \ {0} /\ position - 1 <= n
        /\ Partial(c, position - 1, utxos, consumed)
    BY <1>1 DEF IInv, ViewOK, UpOK
  <2>2. position - 1 = n
    BY <1>1, <1>3, <2>1
  <2> QED
    BY <2>1, <2>2
<1>5. PaidOK
  BY <1>1 DEF SettledOK
<1>6. fees = Fees(c) /\ utxos = Spendable(c, n + 1)
  BY <1>2, <1>3, <1>4, <1>5, FeeType, PartialSpendable DEF PaidOK
<1>7. BlockValid(c)
  <2>1. \A i \in DOMAIN Payments[c] : PaymentValid(c, i)
    BY <1>3, <1>4, <1>5 DEF PaidOK
  <2> QED
    BY <1>1, <1>2, <1>6, <2>1 DEF BlockValid, PaymentValid
<1>8. utxos' = LedgerAt[c]
  <2>1. WorkingLedger'
    BY WorkingRows, PTL
  <2> QED
    BY <1>1, <2>1 DEF WorkingLedger
<1>9. /\ Proper(utxos')
      /\ LedgerValue(utxos') = LedgerValue(utxos) + OutputTotal(cb)
  <2> DEFINE new == RowsOf(cb, index[c].height, TRUE)
  <2>1. cb \in Tx
    BY <1>2, TransactionAssumption
  <2>2. Proper(new) /\ LedgerValue(new) = OutputTotal(cb) /\ Keys(new) = OutsOf(cb)
    BY <2>1, ValueOfRows, RowKeys
  <2>3. Proper(utxos) /\ Keys(utxos) \cap Keys(new) = {}
    BY <1>1, <1>5, <2>2 DEF PaidOK
  <2> HIDE DEF new
  <2>4. Proper(utxos \cup new) /\ LedgerValue(utxos \cup new) = LedgerValue(utxos) + LedgerValue(new)
    BY <2>2, <2>3, ValueUnion
  <2> QED
    BY <1>1, <2>2, <2>4 DEF new
<1>10. LedgerValue(utxos') <= CirculatingSupply(Height[c])
  <2> DEFINE h == Height[cursor]
             before == LedgerValue(LedgerAt[cursor])
  <2>1. cursor \in Block /\ h \in Nat /\ Height[c] = h + 1
    BY <1>2, TreeAssumption
  <2>2. CirculatingSupply(h) \in Nat
        /\ CirculatingSupply(h + 1) = CirculatingSupply(h) + Subsidy(h + 1)
    BY <2>1, EmissionStep
  <2>3. Subsidy(h + 1) \in Nat
    BY <2>1, EmissionStep
  <2>4. cursor \in Ancestors[cursor]
    BY DEF IInv, ViewOK, ConsistentAt, BlocksOK, TreeOK
  <2>5. Settled(cursor)
    BY <2>4 DEF SettledOK
  <2>6. before \in Nat /\ before <= CirculatingSupply(h)
    BY <2>5, ValueType DEF Settled
  <2>7. LedgerValue(utxos) \in Nat /\ LedgerValue(utxos) + fees = before
    BY <1>5, ValueType DEF PaidOK
  <2>8. fees \in Int
    <3>1. \A i \in 1..n : FeeOf(c)[i] \in Int
      BY <1>2, FeeType
    <3>2. IsFiniteSet(1..n)
      BY <1>3, FS_Interval
    <3>3. SumOver(FeeOf(c), 1..n) \in Int
      BY <3>1, <3>2, SumInt
    <3> QED
      BY <1>2, <1>6, <3>3, FeeType
  <2>9. OutputTotal(cb) \in Nat
    BY <1>2, TransactionAssumption, AmountTypes
  <2>10. OutputTotal(cb) <= Subsidy(h + 1) + fees
    BY <1>1, <1>2, <2>1
  <2> HIDE DEF h, before
  <2> QED
    BY <1>9, <2>1, <2>2, <2>3, <2>6, <2>7, <2>8, <2>9, <2>10
<1>11. Settled(c)
  BY <1>7, <1>8, <1>9, <1>10 DEF Settled
<1>12. \A b \in Ancestors[saved'.tip] \cup Ancestors[cursor'] : Settled(b)
  BY <1>1, <1>2, <1>11 DEF SettledOK
<1>13. PaidOK'
  BY <1>1, <1>11, PaidStart
<1> QED
  BY <1>1, <1>12, <1>13 DEF SettledOK

LEMMA SettledStep == IInv /\ IInv' /\ SettledOK /\ [Next]_vars => SettledOK'
<1> SUFFICES ASSUME IInv, IInv', SettledOK, [Next]_vars PROVE SettledOK'
  OBVIOUS
<1> DEFINE Chain == Ancestors[saved.tip] \cup Ancestors[cursor]
<1>1. \A b \in Chain : Settled(b)
  BY DEF SettledOK
<1>2. /\ cursor \in Ancestors[cursor] /\ saved.tip \in Ancestors[saved.tip]
      /\ tip = saved.tip
  BY DEF IInv, DiskOK, ViewOK, ConsistentAt, BlocksOK, TreeOK
<1>3. ASSUME phase' = "idle", cursor' = saved'.tip, saved'.tip = saved.tip
      PROVE  SettledOK'
  BY <1>1, <1>3 DEF SettledOK
<1>4. ASSUME NEW b \in Block, NEW d \in Copies[b], Accept(b, d) PROVE SettledOK'
  <2>1. CASE AcceptKnown(b, d) \/ AcceptBad(b, d) \/ AcceptOrphan(b, d)
    BY <1>1, <1>2, <2>1 DEF AcceptKnown, AcceptBad, AcceptOrphan, call, SettledOK
  <2>2. CASE AcceptInvalid(b, d) \/ AcceptSidechain(b, d)
    <3>1. phase = "idle" /\ UNCHANGED <<cursor, phase, tip>> /\ saved'.tip = tip'
      BY <2>2 DEF AcceptInvalid, AcceptSidechain, Attachable, call, Tables
    <3> QED
      BY <1>1, <1>2, <3>1 DEF SettledOK
  <2>3. CASE AcceptHeavier(b, d)
    <3>1. /\ cursor' = tip /\ saved' = saved /\ position' = 1 /\ fees' = 0
          /\ phase' \in {"connect", "disconnect"}
      BY <2>3 DEF AcceptHeavier
    <3>2. \A a \in Ancestors[saved'.tip] \cup Ancestors[cursor'] : Settled(a)
      BY <1>1, <1>2, <3>1
    <3>3. Settled(cursor')
      BY <1>2, <3>1, <3>2
    <3> QED
      BY <3>1, <3>2, <3>3, PaidStart DEF SettledOK
  <2> QED
    BY <1>4, <2>1, <2>2, <2>3 DEF Accept
<1>5. CASE DisconnectTip
  <2>1. /\ phase = "disconnect" /\ fees = 0 /\ fees' = fees
        /\ cursor' = Parent[cursor] /\ saved' = saved
        /\ phase' \in {"connect", "disconnect"} /\ position' = position
    BY <1>5 DEF DisconnectTip, SettledOK
  <2>2. Parent[cursor] \in Ancestors[cursor] /\ Ancestors[Parent[cursor]] \subseteq Ancestors[cursor]
    <3>1. /\ TreeOK(Known) /\ cursor \in Known
          /\ fork \in Ancestors[cursor] /\ fork # cursor
      BY <2>1 DEF IInv, ViewOK, DownOK, BlocksOK, ConsistentAt, Known
    <3>2. cursor \in Block \ {Genesis} /\ Parent[cursor] \in Known
      BY <3>1, TreeAssumption DEF TreeOK
    <3>3. Parent[cursor] \in Ancestors[Parent[cursor]]
      BY <3>1, <3>2 DEF TreeOK
    <3> QED
      BY <3>2, <3>3, TreeAssumption
  <2>3. Settled(cursor') /\ \A a \in Ancestors[saved'.tip] \cup Ancestors[cursor'] : Settled(a)
    BY <1>1, <2>1, <2>2
  <2>4. position' = 1
    BY <2>1 DEF IInv, DownOK
  <2> QED
    BY <2>1, <2>3, <2>4, PaidStart DEF SettledOK
<1>6. CASE ConnectPayment
  BY <1>6, SettledPayment
<1>7. CASE ConnectBlock
  BY <1>7, SettledBlock
<1>8. CASE Commit
  <2>1. /\ phase = "commit" /\ phase' = "idle" /\ cursor' = candidate
        /\ saved'.tip = candidate /\ cursor = candidate
    BY <1>8 DEF Commit, Hangup, Tables, IInv, DoneOK
  <2> QED
    BY <1>1, <2>1 DEF SettledOK
<1>9. CASE Rollback \/ Crash
  BY <1>3, <1>9 DEF Rollback, Crash, Restore, Hangup
<1>10. CASE Tick
  BY <1>10 DEF Tick, SettledOK, PaidOK, tables, call, Current
<1>11. CASE UNCHANGED vars
  BY <1>11 DEF vars, SettledOK, PaidOK, tables, call, Current
<1> QED
  BY <1>4, <1>5, <1>6, <1>7, <1>8, <1>9, <1>10, <1>11 DEF Next, Working

LEMMA SettledAlways == Spec => []SettledOK
  BY SettledInit, SettledStep, Invariance, PTL DEF Spec

(* total_utxo_value never exceeds what the emission schedule has released  *)
(* by the height of the tip, whatever is disconnected, retried or cut      *)
(* short on the way: what a payment takes from the ledger and does not     *)
(* give back is in the fees, and a coinbase takes no more than them and    *)
(* its subsidy.                                                            *)
THEOREM SupplyCapped == Spec => []SupplyCap
<1>1. IInv /\ SettledOK => SupplyCap
  <2> SUFFICES ASSUME IInv, SettledOK PROVE SupplyCap
    OBVIOUS
  <2>1. /\ saved.tip \in Ancestors[saved.tip]
        /\ saved.index[saved.tip].height = Height[saved.tip]
        /\ saved.utxos = LedgerAt[saved.tip]
    BY DEF IInv, DiskOK, DurableLedger, ConsistentAt, BlocksOK, TreeOK
  <2>2. Settled(saved.tip)
    BY <2>1 DEF SettledOK
  <2> QED
    BY <2>1, <2>2 DEF SupplyCap, Settled
<1> QED
  BY <1>1, Invariance, SettledAlways, PTL

(* The chain that a settled tip ends is valid from genesis on. *)
LEMMA SettledBranch ==
    ASSUME NEW K, TreeOK(K), NEW b \in K, \A a \in Ancestors[b] : Settled(a)
    PROVE  b \in ValidTips
<1>1. b \in Block /\ Ancestors[b] \subseteq Block
  BY DEF TreeOK
<1>2. Ancestors[b] \subseteq ValidBlocks \cup {Genesis}
  BY <1>1 DEF Settled, ValidBlocks
<1> QED
  BY <1>1, <1>2 DEF ValidTips, BranchValid

(* What is durable moves only when a call commits, and then to the tip of  *)
(* a valid branch with more work, whose ledger it shows.                   *)
LEMMA PromiseStep ==
    ASSUME IInv, IInv', SettledOK', [Next]_vars
    PROVE  [Promise!Next]_(Promise!chainVars)
<1> DEFINE work == saved.index[saved.tip].cumwork
<1>1. CASE saved' = saved
  BY <1>1 DEF Promise!chainVars
<1>2. CASE Commit
  <2>1. /\ phase = "commit" /\ saved'.tip = candidate
        /\ saved'.index = index /\ saved'.utxos = utxos
    BY <1>2 DEF Commit, Tables
  <2>2. index[candidate].cumwork > work /\ cursor = candidate /\ utxos = LedgerAt[cursor]
    BY <2>1 DEF IInv, BusyOK, DoneOK
  <2>3. index[candidate].cumwork \in Nat
    BY <2>2 DEF IInv, ViewOK, BlocksOK, ConsistentAt, Entry
  <2>4. candidate \in ValidTips
    <3>1. TreeOK(DOMAIN saved'.index) /\ candidate \in DOMAIN saved'.index
      BY <2>1 DEF IInv, DiskOK, BlocksOK, ConsistentAt
    <3>2. \A a \in Ancestors[candidate] : Settled(a)
      BY <2>1 DEF SettledOK
    <3> QED
      BY <3>1, <3>2, SettledBranch
  <2>5. Promise!Adopt(candidate)
    BY <2>1, <2>2, <2>3 DEF Promise!Adopt
  <2> QED
    BY <2>4, <2>5 DEF Promise!Next
<1>3. ASSUME NEW b \in Block, NEW d \in Copies[b],
             AcceptInvalid(b, d) \/ AcceptSidechain(b, d)
      PROVE  UNCHANGED Promise!chainVars
  <2>1. /\ phase = "idle" /\ Attachable(b)
        /\ saved'.tip = tip /\ saved'.utxos = utxos /\ saved'.index = index'
        /\ \E e : index' = Put(index, b, e)
    BY <1>3 DEF AcceptInvalid, AcceptSidechain, Attachable, Tables
  <2>2. /\ tip = saved.tip /\ utxos = saved.utxos /\ index = saved.index
        /\ tip \in Known
    BY <2>1 DEF IInv, IdleOK, Synced, DiskOK, ConsistentAt, Known
  <2>3. b \notin Known
    BY <2>1 DEF Attachable
  <2>4. index'[tip] = index[tip]
    BY <2>1, <2>2, <2>3 DEF Put, Known
  <2> QED
    BY <2>1, <2>2, <2>4 DEF Promise!chainVars
<1>4. CASE \E b \in Block : \E d \in Copies[b] :
              AcceptKnown(b, d) \/ AcceptBad(b, d) \/ AcceptOrphan(b, d)
                  \/ AcceptHeavier(b, d)
  BY <1>1, <1>4 DEF AcceptKnown, AcceptBad, AcceptOrphan, AcceptHeavier
<1>5. CASE DisconnectTip \/ ConnectPayment \/ ConnectBlock \/ Rollback \/ Crash
              \/ Tick \/ UNCHANGED vars
  BY <1>1, <1>5 DEF DisconnectTip, ConnectPayment, ConnectBlock, Rollback,
                    Crash, Restore, Tick, vars
<1> QED
  BY <1>2, <1>3, <1>4, <1>5 DEF Next, Accept, Working

(* The chain state implements the abstract promise: seen through its last  *)
(* commit it moves, in one step, from one valid branch to a valid branch   *)
(* with more work, and shows the ledger of it.                             *)
THEOREM PromiseHolds == Spec => PromiseKept
<1>1. Init => Promise!Init
  <2> SUFFICES ASSUME Init PROVE Promise!Init
    OBVIOUS
  <2>1. /\ saved.tip = Genesis /\ saved.index = index /\ index[Genesis].cumwork = Work(Genesis)
    BY DEF Init, Tables
  <2>2. saved.utxos = LedgerAt[Genesis]
    BY <2>1, InitIInv DEF IInv, DiskOK, DurableLedger
  <2> QED
    BY <2>1, <2>2 DEF Promise!Init
<1>2. IInv /\ IInv' /\ SettledOK' /\ [Next]_vars => [Promise!Next]_(Promise!chainVars)
  BY PromiseStep
<1> QED
  BY <1>1, <1>2, Invariance, SettledAlways, PTL DEF Spec, PromiseKept, Promise!Spec

(***************************************************************************)
(* What the caller is told.                                                *)
(***************************************************************************)
PaymentsOf(blocks) == UNION {PaymentSet(b) : b \in blocks}

Rising(blocks) ==
    \A i, j \in DOMAIN blocks : i < j => Height[blocks[i]] < Height[blocks[j]]

(* The lists kept on the way: what has left the chain of the old tip, and  *)
(* what has been put on above the fork.                                    *)
ToldOK ==
    phase # "idle" =>
        /\ fork \in Ancestors[saved.tip] \cap Ancestors[candidate]
        /\ Ancestors[saved.tip] \cap Ancestors[candidate] = Ancestors[fork]
        /\ phase = "disconnect" =>
              /\ cursor \in Ancestors[saved.tip]
              /\ ToSet(disconnected) = PaymentsOf(Ancestors[saved.tip] \ Ancestors[cursor])
              /\ connected = <<>>
        /\ phase # "disconnect" =>
              /\ fork \in Ancestors[cursor]
              /\ ToSet(disconnected) = PaymentsOf(Ancestors[saved.tip] \ Ancestors[fork])
              /\ ToSet(connected) = Ancestors[cursor] \ Ancestors[fork]
              /\ Rising(connected)

LEMMA SetOfList ==
    ASSUME NEW S, NEW s \in Seq(S)
    PROVE  /\ \A t \in Seq(S) : ToSet(s \o t) = ToSet(s) \cup ToSet(t)
           /\ \A x \in S : ToSet(Append(s, x)) = ToSet(s) \cup {x}
<1>1. ASSUME NEW t \in Seq(S) PROVE ToSet(s \o t) = ToSet(s) \cup ToSet(t)
  <2>1. /\ DOMAIN s = 1..Len(s) /\ DOMAIN t = 1..Len(t)
        /\ DOMAIN (s \o t) = 1..(Len(s) + Len(t))
        /\ Len(s) \in Nat /\ Len(t) \in Nat
    OBVIOUS
  <2>2. \A i \in 1..Len(s) : (s \o t)[i] = s[i] /\ i \in DOMAIN (s \o t)
    BY <2>1
  <2>3. \A i \in 1..Len(t) : (s \o t)[Len(s) + i] = t[i] /\ Len(s) + i \in DOMAIN (s \o t)
    BY <2>1
  <2>4. ASSUME NEW i \in 1..(Len(s) + Len(t)), i \notin 1..Len(s)
        PROVE  i - Len(s) \in 1..Len(t) /\ (s \o t)[i] = t[i - Len(s)]
    <3>1. i - Len(s) \in 1..Len(t) /\ Len(s) + (i - Len(s)) = i
      BY <2>1, <2>4
    <3> QED
      BY <2>3, <3>1
  <2>5. ToSet(s \o t) \subseteq ToSet(s) \cup ToSet(t)
    BY <2>1, <2>2, <2>4 DEF ToSet
  <2>6. ToSet(s) \cup ToSet(t) \subseteq ToSet(s \o t)
    BY <2>1, <2>2, <2>3 DEF ToSet
  <2> QED
    BY <2>5, <2>6
<1>2. ASSUME NEW x \in S PROVE ToSet(Append(s, x)) = ToSet(s) \cup {x}
  <2>1. /\ DOMAIN Append(s, x) = (DOMAIN s) \cup {Len(s) + 1}
        /\ \A i \in DOMAIN s : Append(s, x)[i] = s[i]
        /\ Append(s, x)[Len(s) + 1] = x
    OBVIOUS
  <2> QED
    BY <2>1 DEF ToSet
<1> QED
  BY <1>1, <1>2

(* A block above all the others keeps the list rising. *)
LEMMA RisingAppend ==
    ASSUME NEW s \in Seq(Block), Rising(s), NEW c \in Block,
           \A b \in ToSet(s) : Height[b] < Height[c]
    PROVE  Rising(Append(s, c))
<1>1. /\ DOMAIN s = 1..Len(s) /\ Len(s) \in Nat
      /\ DOMAIN Append(s, c) = 1..(Len(s) + 1)
      /\ \A i \in 1..Len(s) : Append(s, c)[i] = s[i]
      /\ Append(s, c)[Len(s) + 1] = c
  OBVIOUS
<1>2. \A i \in 1..Len(s) : Height[s[i]] < Height[c]
  BY <1>1 DEF ToSet
<1> SUFFICES ASSUME NEW i \in 1..(Len(s) + 1), NEW j \in 1..(Len(s) + 1), i < j
             PROVE  Height[Append(s, c)[i]] < Height[Append(s, c)[j]]
  BY <1>1 DEF Rising
<1>3. i \in 1..Len(s)
  BY <1>1
<1>4. CASE j \in 1..Len(s)
  BY <1>1, <1>3, <1>4 DEF Rising
<1>5. CASE j = Len(s) + 1
  BY <1>1, <1>2, <1>3, <1>5
<1> QED
  BY <1>1, <1>4, <1>5

(* The fork that AcceptHeavier finds is where the two branches meet. *)
LEMMA HeavierFork ==
    ASSUME IInv, IInv', NEW b \in Block, NEW d \in Copies[b], AcceptHeavier(b, d)
    PROVE  /\ fork' \in Ancestors[tip] \cap Ancestors[b]
           /\ Ancestors[tip] \cap Ancestors[b] = Ancestors[fork']
<1>1. /\ phase = "idle" /\ b \notin Known /\ Parent[b] \in Known
      /\ Known' = Known \cup {b}
      /\ branch' = InactiveBranch(b) /\ fork' = Parent[Oldest(branch')]
  BY DEF AcceptHeavier, Attachable, Known, Put
<1>2. /\ TreeOK(Known) /\ TreeOK(Known') /\ tip \in Known
      /\ {a \in Known : index[a].active} = Ancestors[tip]
  BY <1>1 DEF IInv, ViewOK, IdleOK, BlocksOK, ConsistentAt, Known
<1>3. PICK f \in Ancestors[b] \cap Ancestors[tip] :
             /\ f # b /\ branch' = Ancestors[b] \ Ancestors[f]
             /\ Ancestors[b] \cap Ancestors[tip] = Ancestors[f]
  <2>1. Known \subseteq Known \cup {b} /\ b \in Known \cup {b} /\ TreeOK(Known \cup {b})
    BY <1>1, <1>2
  <2> QED
    BY <1>1, <1>2, <2>1, WalkFindsFork
<1>4. fork' = f
  <2> DEFINE rest == Ancestors[b] \ Ancestors[f]
  <2>1. b \in Known'
    BY <1>1
  <2>2. Parent[Oldest(rest)] = f
    <3> PICK K : K = Known'
      OBVIOUS
    <3>1. TreeOK(K) /\ b \in K /\ f \in Ancestors[b] /\ f # b
      BY <1>2, <1>3, <2>1
    <3> QED
      BY <3>1, OldestIsNext
  <2> QED
    BY <1>1, <1>3, <2>2
<1> QED
  BY <1>3, <1>4

LEMMA ToldHeavier ==
    ASSUME IInv, IInv', NEW b \in Block, NEW d \in Copies[b], AcceptHeavier(b, d)
    PROVE  ToldOK'
<1>1. /\ phase' = (IF fork' = tip THEN "connect" ELSE "disconnect")
      /\ candidate' = b /\ cursor' = tip /\ saved' = saved
      /\ disconnected' = <<>> /\ connected' = <<>> /\ phase = "idle"
  BY DEF AcceptHeavier, Attachable
<1>2. tip = saved.tip /\ tip \in Ancestors[tip]
  BY <1>1 DEF IInv, ViewOK, ConsistentAt, BlocksOK, TreeOK, DiskOK
<1>3. /\ fork' \in Ancestors[tip] \cap Ancestors[b]
      /\ Ancestors[tip] \cap Ancestors[b] = Ancestors[fork']
  BY HeavierFork
<1>4. ToSet(<<>>) = {} /\ Rising(<<>>)
  BY DEF ToSet, Rising
<1>5. Ancestors[tip] \ Ancestors[tip] = {} /\ PaymentsOf({}) = {}
  BY DEF PaymentsOf
<1>6. CASE phase' = "disconnect"
  BY <1>1, <1>2, <1>3, <1>4, <1>5, <1>6 DEF ToldOK
<1>7. CASE phase' # "disconnect"
  <2>1. fork' = tip
    BY <1>1, <1>7
  <2> QED
    BY <1>1, <1>2, <1>3, <1>4, <1>5, <1>7, <2>1 DEF ToldOK
<1> QED
  BY <1>6, <1>7

LEMMA ToldDisconnect ==
    ASSUME IInv, TypeOK, ToldOK, DisconnectTip
    PROVE  ToldOK'
<1> DEFINE c == cursor
           p == Parent[cursor]
           old == Ancestors[saved.tip]
<1>1. /\ phase = "disconnect" /\ cursor' = p
      /\ phase' = (IF p = fork THEN "connect" ELSE "disconnect")
      /\ disconnected' = disconnected \o Payments[c]
      /\ UNCHANGED <<saved, candidate, fork, connected>>
  BY DEF DisconnectTip, Returned
<1>2. /\ fork \in old \cap Ancestors[candidate]
      /\ old \cap Ancestors[candidate] = Ancestors[fork]
      /\ c \in old /\ ToSet(disconnected) = PaymentsOf(old \ Ancestors[c])
      /\ connected = <<>>
  BY <1>1 DEF ToldOK
<1>3. /\ TreeOK(Known) /\ c \in Known /\ saved.tip \in Known
      /\ fork \in Ancestors[c] /\ fork # c
  BY <1>1 DEF IInv, ViewOK, DownOK, BusyOK, DiskOK, BlocksOK, ConsistentAt, Known
<1>4. /\ c \in Block \ {Genesis} /\ p \in Known /\ p \in Ancestors[p]
      /\ Ancestors[c] = Ancestors[p] \cup {c}
      /\ Ancestors[c] \subseteq old
      /\ c \notin Ancestors[p]
  <2>1. c \in Block \ {Genesis} /\ p \in Known
    BY <1>3, TreeAssumption DEF TreeOK
  <2>2. Height[c] = Height[p] + 1 /\ Height[p] \in Nat
        /\ \A a \in Ancestors[p] : a = p \/ Height[a] < Height[p]
    BY <1>3, <2>1, TreeAssumption DEF TreeOK
  <2>3. c \notin Ancestors[p]
    BY <2>2
  <2> QED
    BY <1>2, <1>3, <2>1, <2>3, TreeAssumption DEF TreeOK
<1>5. old \ Ancestors[p] = (old \ Ancestors[c]) \cup {c}
  BY <1>2, <1>4
<1>6. ToSet(disconnected') = PaymentsOf(old \ Ancestors[p])
  <2>1. disconnected \in Seq(Tx) /\ Payments[c] \in Seq(Tx)
    BY <1>4, TransactionAssumption DEF TypeOK
  <2>2. ToSet(disconnected') = ToSet(disconnected) \cup ToSet(Payments[c])
    BY <1>1, <2>1, SetOfList
  <2>3. ToSet(Payments[c]) = PaymentSet(c)
    BY DEF ToSet, PaymentSet
  <2>4. PaymentsOf((old \ Ancestors[c]) \cup {c}) = PaymentsOf(old \ Ancestors[c]) \cup PaymentSet(c)
    BY DEF PaymentsOf
  <2> QED
    BY <1>2, <1>5, <2>2, <2>3, <2>4
<1>7. ToSet(<<>>) = {} /\ Rising(<<>>)
  BY DEF ToSet, Rising
<1> HIDE DEF c, p
<1>8. CASE p = fork
  BY <1>1, <1>2, <1>4, <1>6, <1>7, <1>8 DEF ToldOK
<1>9. CASE p # fork
  BY <1>1, <1>2, <1>4, <1>6, <1>9 DEF ToldOK
<1> QED
  BY <1>8, <1>9

LEMMA ToldBlock ==
    ASSUME IInv, TypeOK, ToldOK, ConnectBlock
    PROVE  ToldOK'
<1> DEFINE c == Current
<1>1. /\ phase = "connect" /\ phase' \in {"connect", "commit"}
      /\ cursor' = c /\ connected' = Append(connected, c)
      /\ UNCHANGED <<saved, candidate, fork, disconnected>>
  BY DEF ConnectBlock
<1>2. /\ c \in Block \ {Genesis} /\ Parent[c] = cursor /\ c \in Ancestors[candidate]
      /\ Ancestors[c] = Ancestors[cursor] \cup {c}
      /\ c \in branch
  BY <1>1, CurrentFacts
<1>3. /\ fork \in Ancestors[saved.tip] \cap Ancestors[candidate]
      /\ Ancestors[saved.tip] \cap Ancestors[candidate] = Ancestors[fork]
      /\ fork \in Ancestors[cursor]
      /\ ToSet(connected) = Ancestors[cursor] \ Ancestors[fork]
      /\ ToSet(disconnected) = PaymentsOf(Ancestors[saved.tip] \ Ancestors[fork])
      /\ Rising(connected)
  BY <1>1 DEF ToldOK
<1>4. /\ TreeOK(Known) /\ cursor \in Known
      /\ branch = Ancestors[candidate] \ Ancestors[cursor]
      /\ Ancestors[fork] \subseteq Ancestors[cursor]
  BY <1>1, <1>3 DEF IInv, ViewOK, UpOK, BlocksOK, ConsistentAt, TreeOK, Known
<1>5. ToSet(connected') = Ancestors[c] \ Ancestors[fork]
  <2>1. ToSet(connected') = ToSet(connected) \cup {c}
    BY <1>1, <1>2, SetOfList DEF TypeOK
  <2>2. c \notin Ancestors[fork]
    BY <1>2, <1>4
  <2> QED
    BY <1>2, <1>3, <2>1, <2>2
<1>6. Rising(connected')
  <2>1. Height[c] = Height[cursor] + 1 /\ Height[cursor] \in Nat
    BY <1>2, <1>4, TreeAssumption DEF TreeOK
  <2>2. \A a \in Ancestors[cursor] : (a = cursor \/ Height[a] < Height[cursor]) /\ Height[a] \in Nat
    BY <1>4, TreeAssumption DEF TreeOK
  <2>3. \A a \in ToSet(connected) : Height[a] < Height[c]
    BY <1>3, <2>1, <2>2
  <2> QED
    BY <1>1, <1>2, <1>3, <2>3, RisingAppend DEF TypeOK
<1> QED
  BY <1>1, <1>2, <1>3, <1>5, <1>6 DEF ToldOK

LEMMA ToldStep == IInv /\ IInv' /\ TypeOK /\ ToldOK /\ [Next]_vars => ToldOK'
<1> SUFFICES ASSUME IInv, IInv', TypeOK, ToldOK, [Next]_vars PROVE ToldOK'
  OBVIOUS
<1>1. ASSUME NEW b \in Block, NEW d \in Copies[b], Accept(b, d) PROVE ToldOK'
  <2>1. CASE AcceptHeavier(b, d)
    BY <2>1, ToldHeavier
  <2>2. CASE ~AcceptHeavier(b, d)
    <3>1. phase' = phase /\ phase = "idle"
      BY <1>1, <2>2 DEF Accept, AcceptKnown, AcceptBad, AcceptOrphan, AcceptInvalid,
                        AcceptSidechain, Attachable, call
    <3> QED
      BY <3>1 DEF ToldOK
  <2> QED
    BY <2>1, <2>2
<1>2. CASE DisconnectTip
  BY <1>2, ToldDisconnect
<1>3. CASE ConnectPayment
  BY <1>3 DEF ConnectPayment, ToldOK
<1>4. CASE ConnectBlock
  BY <1>4, ToldBlock
<1>5. CASE Commit \/ Rollback \/ Crash
  BY <1>5 DEF Commit, Rollback, Crash, Restore, Hangup, ToldOK
<1>6. CASE Tick \/ UNCHANGED vars
  BY <1>6 DEF Tick, vars, call, ToldOK
<1> QED
  BY <1>1, <1>2, <1>3, <1>4, <1>5, <1>6 DEF Next, Working

LEMMA ToldAlways == Spec => []ToldOK
<1>1. Init => ToldOK
  BY DEF Init, ToldOK
<1> QED
  BY <1>1, ToldStep, Invariance, TypeCorrect, PTL DEF Spec

(* When the tip moves the caller is told exactly which payments left the   *)
(* active chain and which blocks entered it, these oldest first: what the  *)
(* mempool is repaired from.                                               *)
THEOREM CallerToldTheChange == Spec => ReplyTellsTheChange
<1> DEFINE Told == saved'.tip # saved.tip => TellsTheChange
<1>1. ASSUME IInv, ToldOK, [Next]_vars PROVE Told
  <2>1. CASE saved' = saved
    BY <2>1
  <2>2. CASE Commit
    <3>1. /\ phase = "commit" /\ saved'.tip = candidate
          /\ reply'.disconnected = disconnected /\ reply'.connected = connected
      BY <2>2 DEF Commit, Tables
    <3>2. /\ cursor = candidate
          /\ Ancestors[saved.tip] \cap Ancestors[candidate] = Ancestors[fork]
          /\ ToSet(disconnected) = PaymentsOf(Ancestors[saved.tip] \ Ancestors[fork])
          /\ ToSet(connected) = Ancestors[candidate] \ Ancestors[fork]
          /\ Rising(connected)
      BY <1>1, <3>1 DEF IInv, DoneOK, ToldOK
    <3>3. /\ Ancestors[saved.tip] \ Ancestors[candidate] = Ancestors[saved.tip] \ Ancestors[fork]
          /\ Ancestors[candidate] \ Ancestors[saved.tip] = Ancestors[candidate] \ Ancestors[fork]
      BY <3>2
    <3> QED
      BY <3>1, <3>2, <3>3 DEF TellsTheChange, PaymentsOf, Rising
  <2>3. ASSUME NEW b \in Block, NEW d \in Copies[b],
               AcceptInvalid(b, d) \/ AcceptSidechain(b, d)
        PROVE  Told
    <3>1. phase = "idle" /\ saved'.tip = tip
      BY <2>3 DEF AcceptInvalid, AcceptSidechain, Attachable, Tables
    <3> QED
      BY <1>1, <3>1 DEF IInv, IdleOK, Synced
  <2>4. CASE \E b \in Block : \E d \in Copies[b] :
                AcceptKnown(b, d) \/ AcceptBad(b, d) \/ AcceptOrphan(b, d)
                    \/ AcceptHeavier(b, d)
    BY <2>1, <2>4 DEF AcceptKnown, AcceptBad, AcceptOrphan, AcceptHeavier
  <2>5. CASE DisconnectTip \/ ConnectPayment \/ ConnectBlock \/ Rollback \/ Crash
                \/ Tick \/ UNCHANGED vars
    BY <2>1, <2>5 DEF DisconnectTip, ConnectPayment, ConnectBlock, Rollback,
                      Crash, Restore, Tick, vars
  <2> QED
    BY <1>1, <2>2, <2>3, <2>4, <2>5 DEF Next, Accept, Working
<1>2. IInv /\ ToldOK /\ [Next]_vars => [Told]_vars
  BY <1>1
<1> HIDE DEF Told
<1>3. Spec => [][Told]_vars
  BY <1>2, Invariance, ToldAlways, PTL DEF Spec
<1> QED
  BY <1>3 DEF ReplyTellsTheChange, Told

(***************************************************************************)
(* Verdicts, and the heaviest branch that was offered.                     *)
(***************************************************************************)

(* The contextual rules but for the clock, said without the index.         *)
PeriodStart(p) ==
    CHOOSE a \in Ancestors[p] : Height[a] = RetargetPeriodStartHeight(Height[p] + 1)

ContextHolds(b) ==
    LET p == Parent[b]
    IN  /\ ClaimedHeight[Coinbase[b]] = Height[p] + 1
        /\ Bits[b] = ExpectedBits(Height[p] + 1, Bits[p], Time[p], Time[PeriodStart(p)])
        /\ Time[b] > MedianTimePast({a \in Ancestors[p] :
                                        Height[a] > Height[p] - MedianTimeBlocks}, Time)

LEMMA ContextIsStatic ==
    ASSUME BlocksOK(index, body), NEW b \in Block, Parent[b] \in Known, NEW t
    PROVE  ContextOk(b, t) <=> ContextHolds(b) /\ Time[b] <= t + MaxFutureBlockTime
<1> DEFINE p == Parent[b]
<1>1. /\ p \in Known /\ p \in Block /\ index[p].height = Height[p]
      /\ \A a \in Ancestors[p] : index[a].height = Height[a]
  BY DEF BlocksOK, TreeOK, Known
<1>2. ExpectedBitsForNext(p)
        = ExpectedBits(Height[p] + 1, Bits[p], Time[p], Time[PeriodStart(p)])
  <2>1. (CHOOSE a \in Ancestors[p] :
            index[a].height = RetargetPeriodStartHeight(index[p].height + 1))
          = PeriodStart(p)
    BY <1>1 DEF PeriodStart
  <2> QED
    BY <1>1, <2>1 DEF ExpectedBitsForNext
<1>3. Recent(p) = {a \in Ancestors[p] : Height[a] > Height[p] - MedianTimeBlocks}
  BY <1>1 DEF Recent
<1> QED
  BY <1>1, <1>2, <1>3 DEF ContextOk, ContextHolds, TimestampOk

(* An invalid verdict is about a rule that the block breaks for good, or   *)
(* the block came before its time.                                         *)
Unfit(b, until) ==
    \E then \in 0..until : ~(ContextHolds(b) /\ Time[b] <= then + MaxFutureBlockTime)

VerdictOK ==
    \A b \in DOMAIN saved.index : saved.index[b].status = "invalid" => Unfit(b, now)

LEMMA SavedIsKnown ==
    ASSUME IInv
    PROVE  /\ DOMAIN saved.index \subseteq Known
           /\ TreeOK(DOMAIN saved.index)
           /\ \A b \in DOMAIN saved.index :
                 /\ index[b].status = saved.index[b].status
                 /\ index[b].cumwork = saved.index[b].cumwork
                 /\ saved.index[b].status \in {"valid", "invalid"}
           /\ saved.index[Genesis].status = "valid"
           /\ Genesis \in DOMAIN saved.index
<1> DEFINE D == DOMAIN saved.index
<1>1. /\ TreeOK(D) /\ saved.index \in [D -> Entry]
      /\ saved.tip \in D /\ saved.index[saved.tip].status = "valid"
      /\ \A b \in D : saved.index[b].status = "valid" =>
            \A a \in Ancestors[b] : saved.index[a].status = "valid"
  BY DEF IInv, DiskOK, BlocksOK, ConsistentAt
<1>2. Genesis \in D /\ Genesis \in Ancestors[saved.tip]
  BY <1>1 DEF TreeOK
<1>3. \A b \in D : saved.index[b].status \in {"valid", "invalid"}
  BY <1>1 DEF Entry
<1>4. saved.index[Genesis].status = "valid"
  BY <1>1, <1>2
<1>5. /\ D \subseteq Known
      /\ \A b \in D : /\ index[b].status = saved.index[b].status
                      /\ index[b].cumwork = saved.index[b].cumwork
  <2>1. CASE phase = "idle"
    <3>1. index = saved.index
      BY <2>1 DEF IInv, IdleOK, Synced
    <3> QED
      BY <3>1 DEF Known
  <2>2. CASE phase # "idle"
    BY <2>2 DEF IInv, BusyOK
  <2> QED
    BY <2>1, <2>2
<1> QED
  BY <1>1, <1>2, <1>3, <1>4, <1>5

(* What a call may store: one block, with a verdict that is what the rules *)
(* say of it.  The rest of the stored index keeps its verdicts.            *)
LEMMA SavedGrows ==
    ASSUME IInv, [Next]_vars
    PROVE  /\ DOMAIN saved.index \subseteq DOMAIN saved'.index
           /\ \A b \in DOMAIN saved.index : saved'.index[b].status = saved.index[b].status
           /\ \A b \in DOMAIN saved'.index \ DOMAIN saved.index :
                 saved'.index[b].status = "invalid" =>
                     b \in Block /\ \E d \in Copies[b] : AcceptInvalid(b, d)
<1>1. CASE saved' = saved
  BY <1>1
<1>2. CASE Commit
  <2>1. phase = "commit" /\ saved'.index = index
    BY <1>2 DEF Commit, Tables
  <2>2. /\ DOMAIN saved'.index = DOMAIN saved.index \cup {candidate}
        /\ saved'.index[candidate].status = "valid"
        /\ \A b \in DOMAIN saved.index : saved'.index[b].status = saved.index[b].status
    BY <2>1 DEF IInv, BusyOK, Known
  <2> QED
    BY <2>2
<1>3. ASSUME NEW b \in Block, NEW d \in Copies[b],
             AcceptInvalid(b, d) \/ AcceptSidechain(b, d)
      PROVE  /\ DOMAIN saved.index \subseteq DOMAIN saved'.index
             /\ \A x \in DOMAIN saved.index : saved'.index[x].status = saved.index[x].status
             /\ \A x \in DOMAIN saved'.index \ DOMAIN saved.index :
                   saved'.index[x].status = "invalid" =>
                       x \in Block /\ \E e \in Copies[x] : AcceptInvalid(x, e)
  <2>1. phase = "idle" /\ b \notin Known /\ saved'.index = index'
    BY <1>3 DEF AcceptInvalid, AcceptSidechain, Attachable, Tables
  <2>2. index = saved.index
    BY <2>1 DEF IInv, IdleOK, Synced
  <2>3. ASSUME NEW e, index' = Put(index, b, e)
        PROVE  /\ DOMAIN saved'.index = DOMAIN saved.index \cup {b}
               /\ \A x \in DOMAIN saved.index : saved'.index[x] = saved.index[x]
               /\ saved'.index[b] = e
    BY <2>1, <2>2, <2>3 DEF Put, Known
  <2>4. CASE AcceptInvalid(b, d)
    <3>1. index' = Put(index, b, [NewEntry(b) EXCEPT !.status = "invalid"])
      BY <2>4 DEF AcceptInvalid
    <3> QED
      BY <2>3, <2>4, <3>1
  <2>5. CASE AcceptSidechain(b, d)
    <3>1. index' = Put(index, b, NewEntry(b)) /\ NewEntry(b).status = "valid"
      BY <2>5 DEF AcceptSidechain, NewEntry
    <3> QED
      BY <2>3, <3>1
  <2> QED
    BY <1>3, <2>4, <2>5
<1>4. CASE \E b \in Block : \E d \in Copies[b] :
              AcceptKnown(b, d) \/ AcceptBad(b, d) \/ AcceptOrphan(b, d)
                  \/ AcceptHeavier(b, d)
  BY <1>1, <1>4 DEF AcceptKnown, AcceptBad, AcceptOrphan, AcceptHeavier
<1>5. CASE DisconnectTip \/ ConnectPayment \/ ConnectBlock \/ Rollback \/ Crash
              \/ Tick \/ UNCHANGED vars
  BY <1>1, <1>5 DEF DisconnectTip, ConnectPayment, ConnectBlock, Rollback,
                    Crash, Restore, Tick, vars
<1> QED
  BY <1>2, <1>3, <1>4, <1>5 DEF Next, Accept, Working

LEMMA VerdictStep ==
    ASSUME IInv, TypeOK, VerdictOK, [Next]_vars
    PROVE  VerdictOK'
<1>1. now \in Nat /\ now' \in {now, now + 1}
  <2>1. now \in Nat
    BY CopiesAssumption DEF TypeOK
  <2>2. ASSUME NEW b \in Block, NEW d \in Copies[b], Accept(b, d) PROVE now' = now
    BY <2>2 DEF Accept, AcceptKnown, AcceptBad, AcceptOrphan, AcceptInvalid,
                AcceptSidechain, AcceptHeavier
  <2>3. CASE Working \/ Crash \/ UNCHANGED vars
    BY <2>1, <2>3 DEF Working, DisconnectTip, ConnectPayment, ConnectBlock, Commit,
                      Rollback, Crash, vars
  <2>4. CASE Tick
    BY <2>1, <2>4 DEF Tick
  <2> QED
    BY <2>1, <2>2, <2>3, <2>4 DEF Next
<1>2. ASSUME NEW b, Unfit(b, now) PROVE Unfit(b, now')
  <2>1. 0..now \subseteq 0..now'
    BY <1>1
  <2> QED
    BY <1>2, <2>1 DEF Unfit
<1> SUFFICES ASSUME NEW b \in DOMAIN saved'.index, saved'.index[b].status = "invalid"
             PROVE  Unfit(b, now)
  BY <1>2 DEF VerdictOK
<1>3. CASE b \in DOMAIN saved.index
  BY <1>3, SavedGrows DEF VerdictOK
<1>4. CASE b \notin DOMAIN saved.index
  <2>1. b \in Block /\ \E d \in Copies[b] : AcceptInvalid(b, d)
    BY <1>4, SavedGrows
  <2>2. /\ Parent[b] \in Known /\ ~ContextOk(b, now)
        /\ BlocksOK(index, body)
    BY <2>1 DEF AcceptInvalid, Attachable, IInv, ViewOK
  <2>3. ~(ContextHolds(b) /\ Time[b] <= now + MaxFutureBlockTime)
    BY <2>1, <2>2, ContextIsStatic
  <2>4. now \in 0..now
    BY <1>1
  <2> QED
    BY <2>3, <2>4 DEF Unfit
<1> QED
  BY <1>3, <1>4

LEMMA VerdictAlways == Spec => []VerdictOK
<1>1. Init => VerdictOK
  BY InitIInv, SavedIsKnown DEF Init, VerdictOK, Tables
<1>2. IInv /\ TypeOK /\ VerdictOK /\ [Next]_vars => VerdictOK'
  BY VerdictStep
<1> QED
  BY <1>1, <1>2, Invariance, TypeCorrect, PTL DEF Spec

(* A verdict of invalid was earned: the header, the height or the claimed  *)
(* bits break a rule on the block's own branch, or the block came before   *)
(* its time.  No copy, no reorganisation and no crash can plant another.   *)
THEOREM VerdictsEarned == Spec => []VerdictEarned
<1>1. IInv /\ VerdictOK => VerdictEarned
  <2> SUFFICES ASSUME IInv, VerdictOK, NEW b \in DOMAIN saved.index,
                      saved.index[b].status = "invalid"
               PROVE  \E then \in 0..now : ~ContextOk(b, then)
    BY DEF VerdictEarned
  <2>1. b \in Block /\ b # Genesis /\ Parent[b] \in Known /\ BlocksOK(index, body)
    BY SavedIsKnown DEF TreeOK, IInv, ViewOK
  <2>2. PICK then \in 0..now : ~(ContextHolds(b) /\ Time[b] <= then + MaxFutureBlockTime)
    BY DEF VerdictOK, Unfit
  <2> QED
    BY <2>1, <2>2, ContextIsStatic
<1> QED
  BY <1>1, Invariance, VerdictAlways, PTL

(* The copies on disk are those the view started from. *)
CopiesOK == \A b \in DOMAIN saved.index : body[b] = saved.body[b]

(* A stored block stays, in the copy that came first, with the verdict, the *)
(* height and the work it was stored with.                                 *)
RowsStay ==
    \A b \in DOMAIN saved.index :
        /\ b \in DOMAIN saved'.index
        /\ saved'.body[b] = saved.body[b]
        /\ saved'.index[b].status = saved.index[b].status
        /\ saved'.index[b].height = saved.index[b].height
        /\ saved'.index[b].cumwork = saved.index[b].cumwork

LEMMA CopiesStep == IInv /\ IInv' /\ CopiesOK /\ [Next]_vars => CopiesOK'
<1> SUFFICES ASSUME IInv, IInv', CopiesOK, [Next]_vars PROVE CopiesOK'
  OBVIOUS
<1>1. CASE phase' = "idle"
  <2>1. body' = saved'.body
    BY <1>1 DEF IInv, IdleOK, Synced
  <2> QED
    BY <2>1 DEF CopiesOK
<1>2. CASE UNCHANGED <<body, saved>>
  BY <1>2 DEF CopiesOK
<1>3. ASSUME NEW b \in Block, NEW d \in Copies[b], AcceptHeavier(b, d) PROVE CopiesOK'
  <2>1. body' = Put(body, b, d) /\ saved' = saved /\ b \notin Known
    BY <1>3 DEF AcceptHeavier, Attachable
  <2>2. DOMAIN saved.index \subseteq Known /\ DOMAIN body = Known
    BY SavedIsKnown DEF IInv, ViewOK, BlocksOK, Known
  <2>3. \A x \in DOMAIN saved.index : body'[x] = body[x]
    BY <2>1, <2>2 DEF Put
  <2> QED
    BY <2>1, <2>3 DEF CopiesOK
<1>4. ASSUME NEW b \in Block, NEW d \in Copies[b],
             AcceptInvalid(b, d) \/ AcceptSidechain(b, d) \/ AcceptKnown(b, d)
                 \/ AcceptBad(b, d) \/ AcceptOrphan(b, d)
      PROVE  CopiesOK'
  <2>1. phase = "idle" /\ UNCHANGED call
    BY <1>4 DEF AcceptInvalid, AcceptSidechain, AcceptKnown, AcceptBad, AcceptOrphan, Attachable
  <2> QED
    BY <1>1, <2>1 DEF call
<1>5. CASE Commit \/ Rollback \/ Crash
  <2>1. phase' = "idle"
    BY <1>5 DEF Commit, Rollback, Crash, Restore, Hangup
  <2> QED
    BY <1>1, <2>1
<1>6. CASE DisconnectTip \/ ConnectPayment \/ ConnectBlock \/ Tick \/ UNCHANGED vars
  <2>1. UNCHANGED <<body, saved>>
    BY <1>6 DEF DisconnectTip, ConnectPayment, ConnectBlock, Tick, vars, tables
  <2> QED
    BY <1>2, <2>1
<1> QED
  BY <1>3, <1>4, <1>5, <1>6 DEF Next, Accept, Working

(* A block and its verdict, height and work stay as they were stored.      *)
LEMMA RowsStep ==
    ASSUME IInv, IInv', CopiesOK, [Next]_vars
    PROVE  RowsStay
<1>old. /\ \A b \in DOMAIN saved.index :
              /\ index[b].status = saved.index[b].status
              /\ index[b].cumwork = saved.index[b].cumwork
              /\ body[b] = saved.body[b]
        /\ DOMAIN saved.index \subseteq Known /\ DOMAIN body = Known
        /\ \A b \in DOMAIN saved.index : saved.index[b].height = Height[b]
        /\ \A b \in DOMAIN saved'.index : saved'.index[b].height = Height[b]
  BY SavedIsKnown DEF CopiesOK, IInv, DiskOK, ViewOK, BlocksOK, Known
<1>1. CASE saved' = saved
  BY <1>1 DEF RowsStay
<1>2. CASE Commit
  <2>1. saved'.index = index /\ saved'.body = body
    BY <1>2 DEF Commit, Tables
  <2> QED
    BY <1>old, <2>1 DEF RowsStay, Known
<1>3. ASSUME NEW b \in Block, NEW d \in Copies[b],
             AcceptInvalid(b, d) \/ AcceptSidechain(b, d)
      PROVE  RowsStay
  <2>1. /\ b \notin Known /\ saved'.index = index' /\ saved'.body = body'
        /\ body' = Put(body, b, d)
        /\ \E e \in {NewEntry(b), [NewEntry(b) EXCEPT !.status = "invalid"]} :
              index' = Put(index, b, e)
    BY <1>3 DEF AcceptInvalid, AcceptSidechain, Attachable, Tables
  <2>2. /\ DOMAIN index' = Known \cup {b}
        /\ \A x \in Known : index'[x] = index[x] /\ body'[x] = body[x]
    BY <1>old, <2>1 DEF Put, Known
  <2> QED
    BY <1>old, <2>1, <2>2 DEF RowsStay
<1>4. CASE \E b \in Block : \E d \in Copies[b] :
              AcceptKnown(b, d) \/ AcceptBad(b, d) \/ AcceptOrphan(b, d)
                  \/ AcceptHeavier(b, d)
  BY <1>1, <1>4 DEF AcceptKnown, AcceptBad, AcceptOrphan, AcceptHeavier
<1>5. CASE DisconnectTip \/ ConnectPayment \/ ConnectBlock \/ Rollback \/ Crash
              \/ Tick \/ UNCHANGED vars
  BY <1>1, <1>5 DEF DisconnectTip, ConnectPayment, ConnectBlock, Rollback,
                    Crash, Restore, Tick, vars
<1> QED
  BY <1>2, <1>3, <1>4, <1>5 DEF Next, Accept, Working

(* What is stored is stored for good: no reorganisation, crash or second   *)
(* copy of a block changes the copy on disk or the verdict about it        *)
(* (chainstate.py, accept_block: a known block is a duplicate).            *)
THEOREM FirstCopyStays == Spec => [][RowsStay]_vars
<1>1. Init => CopiesOK
  BY DEF Init, CopiesOK, Tables
<1>2. IInv /\ IInv' /\ CopiesOK /\ [Next]_vars => CopiesOK'
  BY CopiesStep
<1>3. IInv /\ IInv' /\ CopiesOK /\ [Next]_vars => [RowsStay]_vars
  BY RowsStep
<1> QED
  BY <1>1, <1>2, <1>3, Invariance, PTL DEF Spec
(* The work in the index is that of the whole branch. *)
WorkOK ==
    \A b \in Known : IsFiniteSet(Ancestors[b]) /\ index[b].cumwork = CumWork(b)

(* A block that was offered in good order, and is valid with its branch,   *)
(* is stored if its parent is thought well of and what is stored of its    *)
(* branch is undamaged.                                                    *)
Clean(b) == \A a \in Ancestors[b] \cap DOMAIN saved.index : saved.body[a] = {}

OfferedOK ==
    \A b \in offered \ {Genesis} :
        /\ Parent[b] \in DOMAIN saved.index
        /\ BranchValid(b) /\ saved.index[Parent[b]].status = "valid" /\ Clean(b) =>
              b \in DOMAIN saved.index

LEMMA CumWorkStep ==
    ASSUME NEW b \in Block \ {Genesis}, IsFiniteSet(Ancestors[Parent[b]]),
           b \notin Ancestors[Parent[b]]
    PROVE  IsFiniteSet(Ancestors[b]) /\ CumWork(b) = CumWork(Parent[b]) + Work(b)
<1> DEFINE p == Parent[b]
           S == Ancestors[p]
           f == [a \in S |-> Work(a)]
           g == [a \in S \cup {b} |-> Work(a)]
<1>1. Ancestors[b] = S \cup {b} /\ S \subseteq Block
  BY TreeAssumption
<1>2. /\ \A a \in S : g[a] = f[a]
      /\ \A a \in S \cup {b} : g[a] \in Int
      /\ g[b] = Work(b)
  BY <1>1, WorkAssumption
<1>3. CumWork(p) = SumOver(f, S) /\ CumWork(b) = SumOver(g, S \cup {b})
  BY <1>1 DEF CumWork
<1>4. IsFiniteSet(S) /\ b \notin S
  OBVIOUS
<1> HIDE DEF f, g, S
<1>5. IsFiniteSet(S \cup {b})
  BY <1>4, FS_AddElement
<1>6. SumOver(g, S \cup {b}) = SumOver(g, S) + g[b]
  BY <1>2, <1>4, SumAdd
<1>7. SumOver(g, S) = SumOver(f, S)
  BY <1>2, <1>4, SumSame
<1> QED
  BY <1>1, <1>2, <1>3, <1>5, <1>6, <1>7

LEMMA WorkInit == Init => WorkOK
<1> SUFFICES ASSUME Init PROVE WorkOK
  OBVIOUS
<1>1. Known = {Genesis} /\ index[Genesis].cumwork = Work(Genesis)
  BY DEF Init, Known
<1>2. IsFiniteSet({Genesis}) /\ CumWork(Genesis) = Work(Genesis)
  <2> DEFINE f == [a \in {Genesis} |-> Work(a)]
  <2>1. CumWork(Genesis) = SumOver(f, {Genesis})
    BY TreeAssumption DEF CumWork
  <2>2. f[Genesis] = Work(Genesis) /\ Work(Genesis) \in Int
    BY TreeAssumption, WorkAssumption
  <2>3. IsFiniteSet({}) /\ {} \cup {Genesis} = {Genesis} /\ IsFiniteSet({Genesis})
    BY FS_EmptySet, FS_Singleton
  <2>4. \A a \in {} \cup {Genesis} : f[a] \in Int
    BY <2>2
  <2> HIDE DEF f
  <2>5. SumOver(f, {} \cup {Genesis}) = SumOver(f, {}) + f[Genesis]
    BY <2>3, <2>4, SumAdd
  <2> QED
    BY <2>1, <2>2, <2>3, <2>5, SumEmpty
<1> QED
  BY <1>1, <1>2, TreeAssumption DEF WorkOK

LEMMA WorkStep == IInv /\ WorkOK /\ [Next]_vars => WorkOK'
<1> SUFFICES ASSUME IInv, WorkOK, [Next]_vars PROVE WorkOK'
  OBVIOUS
<1>1. TreeOK(Known) /\ index \in [Known -> Entry]
  BY DEF IInv, ViewOK, BlocksOK, Known
<1>2. ASSUME NEW b \in Block, NEW e, index' = Put(index, b, e),
             b \notin Known, Parent[b] \in Known,
             e.cumwork = index[Parent[b]].cumwork + Work(b)
      PROVE  WorkOK'
  <2>1. /\ Known' = Known \cup {b} /\ index'[b] = e
        /\ \A x \in Known : index'[x] = index[x]
    BY <1>2 DEF Put, Known
  <2>2. b # Genesis /\ b \notin Ancestors[Parent[b]]
    BY <1>1, <1>2 DEF TreeOK
  <2>3. IsFiniteSet(Ancestors[b]) /\ CumWork(b) = CumWork(Parent[b]) + Work(b)
    BY <1>2, <2>2, CumWorkStep DEF WorkOK
  <2> QED
    BY <1>2, <2>1, <2>3 DEF WorkOK
<1>3. ASSUME NEW c, NEW v, index' = [index EXCEPT ![c].active = v]
      PROVE  WorkOK'
  <2>1. Known' = Known /\ \A x \in Known : index'[x].cumwork = index[x].cumwork
    BY <1>1, <1>3 DEF Known, Entry
  <2> QED
    BY <2>1 DEF WorkOK
<1>4. CASE index' = index
  BY <1>4 DEF WorkOK, Known
<1>5. ASSUME NEW b \in Block, NEW d \in Copies[b], Accept(b, d) PROVE WorkOK'
  <2>1. CASE AcceptKnown(b, d) \/ AcceptBad(b, d) \/ AcceptOrphan(b, d)
    BY <1>4, <2>1 DEF AcceptKnown, AcceptBad, AcceptOrphan, tables
  <2>2. CASE AcceptInvalid(b, d)
    <3>1. /\ index' = Put(index, b, [NewEntry(b) EXCEPT !.status = "invalid"])
          /\ b \notin Known /\ Parent[b] \in Known
      BY <2>2 DEF AcceptInvalid, Attachable
    <3> QED
      BY <1>2, <3>1 DEF NewEntry
  <2>3. CASE AcceptSidechain(b, d) \/ AcceptHeavier(b, d)
    <3>1. index' = Put(index, b, NewEntry(b)) /\ b \notin Known /\ Parent[b] \in Known
      BY <2>3 DEF AcceptSidechain, AcceptHeavier, Attachable
    <3> QED
      BY <1>2, <3>1 DEF NewEntry
  <2> QED
    BY <1>5, <2>1, <2>2, <2>3 DEF Accept
<1>6. CASE DisconnectTip \/ ConnectBlock
  BY <1>3, <1>6 DEF DisconnectTip, ConnectBlock, Marked
<1>7. CASE Rollback \/ Crash
  <2>1. index' = saved.index
    BY <1>7 DEF Rollback, Crash, Restore
  <2> QED
    BY <2>1, SavedIsKnown DEF WorkOK, Known
<1>8. CASE ConnectPayment \/ Commit \/ Tick \/ UNCHANGED vars
  BY <1>4, <1>8 DEF ConnectPayment, Commit, Tick, vars, tables
<1> QED
  BY <1>5, <1>6, <1>7, <1>8 DEF Next, Working

(* A reorganisation is rolled back only for a branch that is not valid, or *)
(* of which a copy is damaged.                                             *)
LEMMA RollbackIsDeserved ==
    ASSUME IInv, SettledOK, Rollback, \A a \in Ancestors[candidate] : body[a] = {}
    PROVE  ~BranchValid(candidate)
<1> SUFFICES ASSUME BranchValid(candidate) PROVE FALSE
  OBVIOUS
<1> DEFINE c == Current
<1>1. phase = "connect"
  BY DEF Rollback
<1>2. /\ c \in Block \ {Genesis} /\ c \in Known
      /\ c \in Ancestors[candidate] /\ Parent[c] = cursor
      /\ index[c].height = Height[c]
      /\ Spent(Parent[c]) \subseteq Keys(Created(Parent[c]))
  BY <1>1, CurrentFacts
<1>3. BlockValid(c) /\ body[c] = {}
  BY <1>2 DEF BranchValid, ValidBlocks
<1>4. /\ position \in Nat \ {0} /\ position - 1 \in Nat
      /\ position - 1 <= Len(Payments[c])
      /\ Partial(c, position - 1, utxos, consumed)
      /\ Len(Payments[c]) \in Nat /\ DOMAIN Payments[c] = 1..Len(Payments[c])
  BY <1>1, <1>2, PaymentsType DEF IInv, ViewOK, UpOK
<1>5. utxos = Spendable(c, position) /\ PaidOK
  <2>1. (position - 1) + 1 = position
    BY <1>4
  <2>2. utxos = Spendable(c, (position - 1) + 1)
    BY <1>2, <1>4, PartialSpendable
  <2> QED
    BY <1>1, <2>1, <2>2 DEF SettledOK
<1>6. CASE position <= Len(Payments[c]) /\ ~PaymentOk(Payments[c][position])
  <2> DEFINE t == Payments[c][position]
  <2>1. position \in DOMAIN Payments[c]
    BY <1>4, <1>6
  <2>2. PaymentValid(c, position)
    BY <1>3, <2>1 DEF BlockValid, PaymentValid
  <2>3. /\ \A out \in Inputs[t] : \E r \in utxos : r.out = out /\ Mature(r, Height[c])
        /\ OutputTotal(t) <= InputTotal(t)
        /\ OutsOf(t) \cap Keys(utxos) = {}
    BY <1>5, <2>2 DEF PaymentValid
  <2>4. \A r, s \in utxos : r.out = s.out => r = s
    BY <1>5 DEF PaidOK, Proper
  <2>5. Inputs[t] \subseteq Keys(utxos)
    BY <2>3 DEF Keys
  <2>6. \A r \in Found(t) : Mature(r, index[c].height)
    BY <1>2, <2>3, <2>4 DEF Found
  <2>7. OutsOf(t) \cap Keys(Left(t)) = {}
    BY <2>3 DEF Left, Keys
  <2> QED
    BY <1>3, <1>6, <2>3, <2>5, <2>6, <2>7 DEF PaymentOk, VerifyInputs
<1>7. CASE position > Len(Payments[c]) /\ ~RewardOk(c)
  <2>1. position - 1 = Len(Payments[c]) /\ position = Len(Payments[c]) + 1
    BY <1>4, <1>7
  <2>2. fees = Fees(c)
    BY <1>2, <1>5, <2>1, FeeType DEF PaidOK
  <2> QED
    BY <1>2, <1>3, <1>5, <1>7, <2>1, <2>2 DEF BlockValid, RewardOk
<1> QED
  BY <1>6, <1>7 DEF Rollback

LEMMA OfferedStep ==
    ASSUME IInv, IInv', SettledOK, CopiesOK, OfferedOK, [Next]_vars
    PROVE  OfferedOK'
<1>1. /\ DOMAIN saved.index \subseteq DOMAIN saved'.index
      /\ \A b \in DOMAIN saved.index : /\ saved'.index[b].status = saved.index[b].status
                                       /\ saved'.body[b] = saved.body[b]
  BY RowsStep DEF RowsStay
<1>2. ASSUME NEW b \in offered \ {Genesis}
      PROVE  /\ Parent[b] \in DOMAIN saved'.index
             /\ BranchValid(b) /\ saved'.index[Parent[b]].status = "valid" /\ Clean(b)' =>
                   b \in DOMAIN saved'.index
  <2>1. Clean(b)' => Clean(b)
    BY <1>1 DEF Clean
  <2> QED
    BY <1>1, <2>1 DEF OfferedOK
<1>3. CASE offered' = offered
  BY <1>2, <1>3 DEF OfferedOK
<1>4. ASSUME NEW b \in Block, NEW d, Offer(b, d),
             b # Genesis /\ Usable(b, d) =>
                /\ Parent[b] \in DOMAIN saved'.index
                /\ BranchValid(b) /\ saved'.index[Parent[b]].status = "valid" /\ Clean(b)' =>
                      b \in DOMAIN saved'.index
      PROVE  OfferedOK'
  <2>1. CASE b # Genesis /\ Usable(b, d)
    <3>1. offered' = offered \cup {b}
      BY <1>4, <2>1 DEF Offer
    <3> QED
      BY <1>2, <1>4, <2>1, <3>1 DEF OfferedOK
  <2>2. CASE ~(b # Genesis /\ Usable(b, d))
    BY <1>3, <1>4, <2>2 DEF Offer
  <2> QED
    BY <2>1, <2>2
<1>5. phase = "idle" => index = saved.index
  BY DEF IInv, IdleOK, Synced
<1>6. ASSUME NEW b \in Block, NEW d \in Copies[b], Accept(b, d) PROVE OfferedOK'
  <2>1. CASE AcceptKnown(b, d)
    <3>1. phase = "idle" /\ b \in DOMAIN saved.index /\ Offer(b, d) /\ saved' = saved
      BY <1>5, <2>1 DEF AcceptKnown, Known
    <3> QED
      BY <1>4, <1>5, <3>1 DEF Usable, Known
  <2>2. CASE AcceptBad(b, d)
    <3>1. phase = "idle" /\ Offer(b, d) /\ saved' = saved
          /\ (~CheckBlockStructure(b)
                \/ (Parent[b] \in Known /\ index[Parent[b]].status = "invalid"))
      BY <2>2 DEF AcceptBad
    <3> QED
      BY <1>4, <1>5, <3>1 DEF Usable, Known
  <2>3. CASE AcceptOrphan(b, d) \/ AcceptInvalid(b, d) \/ AcceptHeavier(b, d)
    BY <1>3, <2>3 DEF AcceptOrphan, AcceptInvalid, AcceptHeavier
  <2>4. CASE AcceptSidechain(b, d)
    <3>1. /\ Offer(b, d) /\ saved'.index = index' /\ index' = Put(index, b, NewEntry(b))
          /\ Parent[b] \in Known
      BY <2>4 DEF AcceptSidechain, Attachable, Tables
    <3>2. DOMAIN saved'.index = Known \cup {b}
      BY <3>1 DEF Put, Known
    <3> QED
      BY <1>4, <3>1, <3>2
  <2> QED
    BY <1>6, <2>1, <2>2, <2>3, <2>4 DEF Accept
<1>7. CASE Commit
  <2>1. Offer(candidate, body[candidate]) /\ saved'.index = index /\ phase = "commit"
    BY <1>7 DEF Commit, Tables
  <2>2. candidate \in Known /\ candidate \in Block
    BY <2>1 DEF IInv, BusyOK, ViewOK, BlocksOK, TreeOK, Known
  <2> QED
    BY <1>4, <2>1, <2>2 DEF Usable, Known
<1>8. CASE Rollback
  <2>1. Offer(candidate, body[candidate]) /\ saved' = saved /\ phase = "connect"
    BY <1>8 DEF Rollback, Restore
  <2>2. /\ candidate \in Block /\ Known = DOMAIN saved.index \cup {candidate}
        /\ TreeOK(Known) /\ candidate \in Known
    BY <2>1 DEF IInv, BusyOK, ViewOK, BlocksOK, TreeOK, Known
  <2>3. candidate # Genesis => Parent[candidate] \in DOMAIN saved.index
    <3> SUFFICES ASSUME candidate # Genesis PROVE Parent[candidate] # candidate
                                                  /\ Parent[candidate] \in Known
      BY <2>2
    <3>1. Parent[candidate] \in Known /\ Parent[candidate] \in Block
      BY <2>2 DEF TreeOK
    <3>2. Height[candidate] = Height[Parent[candidate]] + 1
          /\ Height[Parent[candidate]] \in Nat
      BY <2>2, <3>1, TreeAssumption
    <3> QED
      BY <3>1, <3>2
  <2>4. ASSUME body[candidate] = {}, Clean(candidate)
        PROVE  ~BranchValid(candidate)
    <3>1. Ancestors[candidate] \subseteq DOMAIN saved.index \cup {candidate}
      BY <2>2 DEF TreeOK
    <3>2. \A a \in Ancestors[candidate] : body[a] = {}
      BY <2>4, <3>1 DEF Clean, CopiesOK
    <3> QED
      BY <1>8, <3>2, RollbackIsDeserved
  <2> QED
    BY <1>4, <2>1, <2>2, <2>3, <2>4 DEF Usable, Clean
<1>9. CASE DisconnectTip \/ ConnectPayment \/ ConnectBlock \/ Crash \/ Tick
              \/ UNCHANGED vars
  BY <1>3, <1>9 DEF DisconnectTip, ConnectPayment, ConnectBlock, Crash, Tick, vars
<1> QED
  BY <1>6, <1>7, <1>8, <1>9 DEF Next, Working

(* The node follows the heaviest of the valid branches whose blocks it was *)
(* offered, each after its parent, unless a spoilt copy is stored on the   *)
(* branch: whatever else was offered, failed or cut short in between.      *)
THEOREM HeaviestFollowed == Spec => []HeaviestHonestBranch
<1>1. Init => WorkOK /\ CopiesOK /\ OfferedOK
  <2> SUFFICES ASSUME Init PROVE CopiesOK /\ OfferedOK
    BY WorkInit
  <2>1. saved.body = body /\ offered = {Genesis}
    BY DEF Init, Tables
  <2> QED
    BY <2>1 DEF CopiesOK, OfferedOK
<1>2. IInv /\ IInv' /\ SettledOK /\ WorkOK /\ CopiesOK /\ OfferedOK /\ [Next]_vars
         => WorkOK' /\ CopiesOK' /\ OfferedOK'
  BY WorkStep, CopiesStep, OfferedStep
<1>3. IInv /\ TypeOK /\ WorkOK /\ OfferedOK => HeaviestHonestBranch
  <2> SUFFICES ASSUME IInv, TypeOK, WorkOK, OfferedOK, phase = "idle",
                      NEW b \in offered, HonestlyOffered(b), KeptUnspoilt(b)
               PROVE  CumWork(b) <= index[tip].cumwork
    BY DEF HeaviestHonestBranch
  <2>1. index = saved.index /\ tip = saved.tip /\ body = saved.body
    BY DEF IInv, IdleOK, Synced
  <2>2. \A a \in Ancestors[b] \cap DOMAIN saved.index :
           saved.body[a] = {} /\ saved.index[a].status = "valid"
    BY <2>1 DEF KeptUnspoilt, Known
  <2>3. b \in DOMAIN saved.index
    <3>1. CASE b = Genesis
      BY <3>1, SavedIsKnown
    <3>2. CASE b # Genesis
      <4>1. Parent[b] \in DOMAIN saved.index
        BY <3>2 DEF OfferedOK
      <4>2. Parent[b] \in Ancestors[b]
        <5>1. Parent[b] \in Ancestors[Parent[b]]
          BY <4>1, SavedIsKnown DEF TreeOK
        <5>2. b \in Block
          BY DEF TypeOK
        <5>3. Ancestors[b] = Ancestors[Parent[b]] \cup {b}
          BY <3>2, <5>2, TreeAssumption
        <5> QED
          BY <5>1, <5>3
      <4>3. saved.index[Parent[b]].status = "valid" /\ Clean(b)
        BY <2>2, <4>1, <4>2 DEF Clean
      <4> QED
        BY <3>2, <4>3 DEF OfferedOK, HonestlyOffered
    <3> QED
      BY <3>1, <3>2
  <2>4. saved.index[b].status = "valid"
    BY <2>2, <2>3, SavedIsKnown DEF TreeOK
  <2>5. saved.index[b].cumwork <= saved.index[saved.tip].cumwork
    BY <2>3, <2>4 DEF IInv, DiskOK, MostWork
  <2> QED
    BY <2>1, <2>3, <2>5 DEF WorkOK, Known
<1> QED
  BY <1>1, <1>2, <1>3, Invariance, TypeCorrect, SettledAlways, PTL DEF Spec

(***************************************************************************)
(* The end of a call.                                                      *)
(***************************************************************************)

(* How far the call is: what is left of it gets less in this order.        *)
Stage ==
    CASE phase = "idle" -> 0
      [] phase = "commit" -> 1
      [] phase = "connect" -> 2
      [] phase = "disconnect" -> 3

(* The blocks still to take off, or to put on. *)
BlocksLeft ==
    CASE phase = "disconnect" -> Height[cursor] - Height[fork]
      [] phase = "connect" -> Height[candidate] - Height[cursor]
      [] OTHER -> 0

(* The payments of the block being put on, and its coinbase. *)
PaymentsLeft == IF phase = "connect" THEN Len(Payments[Current]) + 1 - position ELSE 0

MeasureOK == Stage \in 0..3 /\ BlocksLeft \in Nat /\ PaymentsLeft \in Nat

(* Less is left: of blocks in a stage, of payments in a block. *)
Closer ==
    \/ Stage' < Stage
    \/ Stage' = Stage /\ BlocksLeft' < BlocksLeft
    \/ Stage' = Stage /\ BlocksLeft' = BlocksLeft /\ PaymentsLeft' < PaymentsLeft

LEMMA StageOf ==
    /\ phase = "idle" => Stage = 0 /\ BlocksLeft = 0 /\ PaymentsLeft = 0
    /\ phase = "commit" => Stage = 1 /\ BlocksLeft = 0 /\ PaymentsLeft = 0
    /\ phase = "connect" =>
          /\ Stage = 2 /\ BlocksLeft = Height[candidate] - Height[cursor]
          /\ PaymentsLeft = Len(Payments[Current]) + 1 - position
    /\ phase = "disconnect" =>
          Stage = 3 /\ BlocksLeft = Height[cursor] - Height[fork] /\ PaymentsLeft = 0
BY DEF Stage, BlocksLeft, PaymentsLeft

(* A proper ancestor is lower. *)
LEMMA AncestorsAreLower ==
    ASSUME NEW K, TreeOK(K), NEW b \in K, NEW a \in Ancestors[b], a # b
    PROVE  Height[a] \in Nat /\ Height[b] \in Nat /\ Height[a] < Height[b]
<1>1. a \in Block /\ b \in Block
  BY DEF TreeOK
<1>2. Height[a] < Height[b]
  BY DEF TreeOK
<1> QED
  BY <1>1, <1>2, TreeAssumption

(* Where a call in progress stands in the tree. *)
LEMMA Standing ==
    ASSUME IInv
    PROVE  /\ phase = "disconnect" =>
                 /\ Height[fork] \in Nat /\ Height[cursor] \in Nat
                 /\ Height[fork] < Height[cursor]
                 /\ cursor \in Block \ {Genesis}
           /\ phase = "connect" =>
                 /\ Height[cursor] \in Nat /\ Height[candidate] \in Nat
                 /\ Height[cursor] < Height[candidate]
                 /\ Len(Payments[Current]) \in Nat /\ position \in Nat
                 /\ position <= Len(Payments[Current]) + 1
<1>1. TreeOK(Known) /\ cursor \in Known /\ position \in Nat
  BY DEF IInv, ViewOK, BlocksOK, ConsistentAt, Known
<1>2. ASSUME phase = "disconnect"
      PROVE  /\ Height[fork] \in Nat /\ Height[cursor] \in Nat
             /\ Height[fork] < Height[cursor]
             /\ cursor \in Block \ {Genesis}
  <2>1. fork \in Ancestors[cursor] /\ fork # cursor
    BY <1>2 DEF IInv, DownOK
  <2>2. Height[fork] \in Nat /\ Height[cursor] \in Nat /\ Height[fork] < Height[cursor]
    BY <1>1, <2>1, AncestorsAreLower
  <2>3. cursor \in Block
    BY <1>1 DEF TreeOK
  <2>4. Height[Genesis] = 0
    BY TreeAssumption
  <2> QED
    BY <2>2, <2>3, <2>4
<1>3. ASSUME phase = "connect"
      PROVE  /\ Height[cursor] \in Nat /\ Height[candidate] \in Nat
             /\ Height[cursor] < Height[candidate]
             /\ Len(Payments[Current]) \in Nat
             /\ position <= Len(Payments[Current]) + 1
  <2>1. candidate \in Known /\ cursor \in Ancestors[candidate] /\ cursor # candidate
    BY <1>3 DEF IInv, BusyOK, UpOK
  <2>2. /\ Height[cursor] \in Nat /\ Height[candidate] \in Nat
        /\ Height[cursor] < Height[candidate]
    BY <1>1, <2>1, AncestorsAreLower
  <2>3. Current \in Block
    BY <1>3, CurrentFacts
  <2>4. Len(Payments[Current]) \in Nat
    BY <2>3, PaymentsType
  <2>5. position - 1 <= Len(Payments[Current])
    BY <1>3 DEF IInv, UpOK
  <2> QED
    BY <1>1, <2>2, <2>4, <2>5
<1> QED
  BY <1>1, <1>2, <1>3

LEMMA MeasureTyped == IInv => MeasureOK
<1> SUFFICES ASSUME IInv PROVE MeasureOK
  OBVIOUS
<1>1. phase \in Phases
  BY DEF IInv, ViewOK
<1>2. CASE phase \in {"idle", "commit"}
  <2>1. Stage \in {0, 1} /\ BlocksLeft = 0 /\ PaymentsLeft = 0
    BY <1>2, StageOf
  <2> QED
    BY <2>1 DEF MeasureOK
<1>3. CASE phase = "connect"
  <2>1. /\ Stage = 2 /\ BlocksLeft = Height[candidate] - Height[cursor]
        /\ PaymentsLeft = Len(Payments[Current]) + 1 - position
    BY <1>3, StageOf
  <2>2. /\ Height[cursor] \in Nat /\ Height[candidate] \in Nat
        /\ Height[cursor] < Height[candidate]
        /\ Len(Payments[Current]) \in Nat /\ position \in Nat
        /\ position <= Len(Payments[Current]) + 1
    BY <1>3, Standing
  <2>3. BlocksLeft \in Nat
    BY <2>1, <2>2
  <2>4. PaymentsLeft \in Nat
    <3> PICK l : l = Len(Payments[Current])
      OBVIOUS
    <3> QED
      BY <2>1, <2>2
  <2> QED
    BY <2>1, <2>3, <2>4 DEF MeasureOK
<1>4. CASE phase = "disconnect"
  <2>1. Stage = 3 /\ BlocksLeft = Height[cursor] - Height[fork] /\ PaymentsLeft = 0
    BY <1>4, StageOf
  <2>2. BlocksLeft \in Nat
    BY <1>4, <2>1, Standing
  <2> QED
    BY <2>1, <2>2 DEF MeasureOK
<1> QED
  BY <1>1, <1>2, <1>3, <1>4 DEF Phases

(* One payment on is one payment less. *)
LEMMA OneLess ==
    ASSUME NEW l \in Nat, NEW p \in Nat, NEW x, x = l + 1 - p,
           NEW y, y = l + 1 - (p + 1)
    PROVE  y < x
OBVIOUS

LEMMA CloserStep ==
    ASSUME IInv, IInv', [Next]_vars, vars' # vars, phase # "idle"
    PROVE  Closer
<1>phases. phase \in Phases /\ phase' \in Phases
  BY DEF IInv, ViewOK
<1>1. CASE phase' = "idle"
  <2>1. Stage' = 0
    BY <1>1, StageOf DEF Stage
  <2>2. Stage \in {1, 2, 3}
    BY <1>phases, StageOf DEF Phases
  <2> QED
    BY <2>1, <2>2 DEF Closer
<1>2. CASE Commit \/ Rollback \/ Crash
  <2>1. phase' = "idle"
    BY <1>2 DEF Commit, Rollback, Crash, Restore, Hangup
  <2> QED
    BY <1>1, <2>1
<1>3. CASE DisconnectTip
  <2>1. /\ phase = "disconnect" /\ cursor' = Parent[cursor]
        /\ fork' = fork
        /\ phase' \in {"connect", "disconnect"}
    BY <1>3 DEF DisconnectTip
  <2>2. /\ Height[fork] \in Nat /\ Height[cursor] \in Nat
        /\ Height[cursor] = Height[Parent[cursor]] + 1
        /\ Height[Parent[cursor]] \in Nat
    <3>1. cursor \in Block \ {Genesis} /\ Height[fork] \in Nat /\ Height[cursor] \in Nat
      BY <2>1, Standing
    <3> QED
      BY <3>1, TreeAssumption
  <2>3. CASE phase' = "connect"
    <3>1. Stage = 3 /\ Stage' = 2
      BY <2>1, <2>3, StageOf DEF Stage
    <3> QED
      BY <3>1 DEF Closer
  <2>4. CASE phase' = "disconnect"
    <3>1. Stage = 3 /\ Stage' = 3
      BY <2>1, <2>4, StageOf DEF Stage
    <3>2. BlocksLeft = Height[cursor] - Height[fork]
      BY <2>1, StageOf
    <3>3. BlocksLeft' = Height[Parent[cursor]] - Height[fork]
      BY <2>1, <2>4 DEF BlocksLeft
    <3> QED
      BY <2>2, <3>1, <3>2, <3>3 DEF Closer
  <2> QED
    BY <2>1, <2>3, <2>4
<1>4. CASE ConnectPayment
  <2>1. /\ phase = "connect" /\ phase' = "connect" /\ position' = position + 1
        /\ cursor' = cursor /\ candidate' = candidate /\ branch' = branch
    BY <1>4 DEF ConnectPayment
  <2>2. Current' = Current
    BY <2>1 DEF Current
  <2>3. /\ Stage = 2 /\ BlocksLeft = Height[candidate] - Height[cursor]
        /\ PaymentsLeft = Len(Payments[Current]) + 1 - position
    BY <2>1, StageOf
  <2>4. /\ Stage' = 2 /\ BlocksLeft' = Height[candidate] - Height[cursor]
        /\ PaymentsLeft' = Len(Payments[Current]) + 1 - (position + 1)
    BY <2>1, <2>2 DEF Stage, BlocksLeft, PaymentsLeft
  <2>5. Len(Payments[Current]) \in Nat /\ position \in Nat
    BY <2>1, Standing
  <2>6. Stage' = Stage /\ BlocksLeft' = BlocksLeft
    BY <2>3, <2>4
  <2>7. PaymentsLeft' < PaymentsLeft
    BY <2>3, <2>4, <2>5, OneLess
  <2> QED
    BY <2>6, <2>7 DEF Closer
<1>5. CASE ConnectBlock
  <2>1. /\ phase = "connect" /\ phase' \in {"connect", "commit"}
        /\ cursor' = Current /\ candidate' = candidate
    BY <1>5 DEF ConnectBlock
  <2>2. CASE phase' = "commit"
    <3>1. Stage = 2 /\ Stage' = 1
      BY <2>1, <2>2, StageOf DEF Stage
    <3> QED
      BY <3>1 DEF Closer
  <2>3. CASE phase' = "connect"
    <3>1. Stage = 2 /\ BlocksLeft = Height[candidate] - Height[cursor]
      BY <2>1, StageOf
    <3>2. Stage' = 2 /\ BlocksLeft' = Height[candidate] - Height[Current]
      BY <2>1, <2>3 DEF Stage, BlocksLeft
    <3>3. Current \in Block \ {Genesis} /\ Parent[Current] = cursor
      BY <2>1, CurrentFacts
    <3>4. Height[Current] = Height[cursor] + 1
      BY <3>3, TreeAssumption
    <3>5. Height[cursor] \in Nat /\ Height[candidate] \in Nat
      BY <2>1, Standing
    <3> QED
      BY <3>1, <3>2, <3>4, <3>5 DEF Closer
  <2> QED
    BY <2>1, <2>2, <2>3
<1>6. CASE Tick \/ \E b \in Block : \E d \in Copies[b] : Accept(b, d)
  <2>1. ASSUME NEW b \in Block, NEW d \in Copies[b], Accept(b, d) PROVE phase = "idle"
    BY <2>1 DEF Accept, AcceptKnown, AcceptBad, AcceptOrphan, AcceptInvalid,
                AcceptSidechain, AcceptHeavier, Attachable
  <2>2. ASSUME Tick PROVE phase = "idle"
    BY <2>2 DEF Tick
  <2> QED
    BY <1>6, <2>1, <2>2
<1> QED
  BY <1>2, <1>3, <1>4, <1>5, <1>6 DEF Next, Working

(* A call ends: what is left of it are numbers, and whatever it does next  *)
(* leaves fewer of them, in a branch of any depth and with any number of   *)
(* payments, so that the loops of _reorg_to come to an end (the part of    *)
(* Converges that is no matter of fairness).                               *)
THEOREM CallsEnd == Spec => []MeasureOK /\ [][phase # "idle" => Closer]_vars
<1>1. IInv => MeasureOK
  BY MeasureTyped
<1>2. IInv /\ IInv' /\ [Next]_vars => [phase # "idle" => Closer]_vars
  BY CloserStep
<1> QED
  BY <1>1, <1>2, Invariance, PTL DEF Spec

(***************************************************************************)
(* What the database keeps.                                                *)
(***************************************************************************)

(* Every block of the active chain, down to genesis, can be taken off with *)
(* what is on disk: its undo record and its outputs give the unspent rows  *)
(* of its parent.                                                          *)
DurableUndo ==
    \A b \in Ancestors[saved.tip] \ {Genesis} :
        /\ b \in DOMAIN saved.undo
        /\ {r \in LedgerAt[b] \cup saved.undo[b] : r.out \notin Keys(CreatedIn(b))}
              = LedgerAt[Parent[b]]

(* A restart can follow a branch that forks off anywhere: no reorganisation *)
(* is too deep for the undo records (storage.py, put_undo, get_undo;       *)
(* chainstate.py, _disconnect).                                            *)
THEOREM AnyDepthUndone == Spec => []DurableUndo
<1>1. IInv => DurableUndo
  <2> SUFFICES ASSUME IInv, NEW b \in Ancestors[saved.tip] \ {Genesis}
               PROVE  /\ b \in DOMAIN saved.undo
                      /\ {r \in LedgerAt[b] \cup saved.undo[b] : r.out \notin Keys(CreatedIn(b))}
                            = LedgerAt[Parent[b]]
    BY DEF DurableUndo
  <2>1. /\ TreeOK(DOMAIN saved.index)
        /\ saved.tip \in DOMAIN saved.index
        /\ b \in DOMAIN saved.undo /\ saved.undo[b] = UndoOf(b) /\ Sound(b)
    BY DEF IInv, DiskOK, BlocksOK, ConsistentAt
  <2>2. b \in Block \ {Genesis}
    BY <2>1 DEF TreeOK
  <2> QED
    BY <2>1, <2>2, UndoRestores
<1> QED
  BY <1>1, Invariance, PTL

(* The heights and the work in the index are those of the tree: what is    *)
(* compared when branches compete is the work from genesis on.             *)
IndexTellsTree ==
    \A b \in DOMAIN saved.index :
        /\ Ancestors[b] \subseteq DOMAIN saved.index
        /\ saved.index[b].height = Height[b]
        /\ saved.index[b].cumwork = CumWork(b)

(* The sums kept in block_index, each from that of the parent, never drift *)
(* from the work of the branch, whatever is refused, rolled back or stored *)
(* as a side chain (chainstate.py, accept_block).                          *)
THEOREM IndexIsTrue == Spec => []IndexTellsTree
<1>1. Init => WorkOK
  BY WorkInit
<1>2. IInv /\ WorkOK /\ [Next]_vars => WorkOK'
  BY WorkStep
<1>3. IInv /\ WorkOK => IndexTellsTree
  <2> SUFFICES ASSUME IInv, WorkOK, NEW b \in DOMAIN saved.index
               PROVE  /\ Ancestors[b] \subseteq DOMAIN saved.index
                      /\ saved.index[b].height = Height[b]
                      /\ saved.index[b].cumwork = CumWork(b)
    BY DEF IndexTellsTree
  <2>1. Ancestors[b] \subseteq DOMAIN saved.index /\ saved.index[b].height = Height[b]
    BY DEF IInv, DiskOK, BlocksOK, TreeOK
  <2>2. b \in Known /\ index[b].cumwork = saved.index[b].cumwork
    BY SavedIsKnown
  <2> QED
    BY <2>1, <2>2 DEF WorkOK
<1> QED
  BY <1>1, <1>2, <1>3, Invariance, PTL DEF Spec

=============================================================================
