-------------------------------- MODULE Merkle --------------------------------
(***************************************************************************)
(* The merkle tree of merkle.py, which binds a header to the transactions  *)
(* of its block, and the rules of check_block_structure that lean on it.   *)
(* Somebody writes a block one transaction after another, with repeats if  *)
(* he likes; the questions are which lists a node takes for which root.    *)
(***************************************************************************)
EXTENDS Integers, Sequences, SequencesExt

CONSTANTS
    Txid,
    MaxTxs          \* bound on the length of a block

VARIABLE
    txids           \* the transactions of the block so far

(* A hash that never collides: the pair it was made of.                    *)
PairHash(left, right) == <<left, right>>

Odd(row) == Len(row) % 2 = 1

(* The row ends in a matching pair where the last hash is to be doubled.   *)
Malleable(row) ==
    Odd(row) /\ Len(row) >= 3 /\ row[Len(row)] = row[Len(row) - 1]

Evened(row) == IF Odd(row) THEN Append(row, Last(row)) ELSE row

Paired(row) ==
    [i \in 1..(Len(row) \div 2) |-> PairHash(row[2 * i - 1], row[2 * i])]

(* The rows of the tree from the leaves up; the last has one hash, and     *)
(* rows above it repeat it.                                                *)
Rows(list) ==
    LET row[k \in 0..Len(list)] ==
            IF k = 0 THEN list
            ELSE IF Len(row[k - 1]) = 1 THEN row[k - 1]
            ELSE Paired(Evened(row[k - 1]))
    IN  row

Rejected(list) == list = <<>> \/ \E row \in Range(Rows(list)) : Malleable(row)

MerkleRoot(list) == Rows(list)[Len(list)][1]

Depth(list) == Cardinality({k \in DOMAIN Rows(list) : Len(Rows(list)[k]) > 1})

(* The siblings on the way from the i-th leaf to the root.                 *)
MerkleProof(list, i) ==
    LET at[k \in 0..Len(list)] ==           \* its place in row k, from 0
            IF k = 0 THEN i - 1 ELSE at[k - 1] \div 2
        isLeft(k) == at[k] % 2 = 1
        sibling(k) ==
            LET row == Evened(Rows(list)[k])
            IN  row[IF isLeft(k) THEN at[k] ELSE at[k] + 2]
    IN  [k \in 1..Depth(list) |-> [hash |-> sibling(k - 1), isLeft |-> isLeft(k - 1)]]

VerifyProof(txid, path, root) ==
    LET current[k \in 0..Len(path)] ==
            IF k = 0 THEN txid
            ELSE IF path[k].isLeft THEN PairHash(path[k].hash, current[k - 1])
            ELSE PairHash(current[k - 1], path[k].hash)
    IN  current[Len(path)] = root

(* What check_block_structure asks of the list for a header with this root. *)
FitsRepeating(list, root) ==   \* mutant
    ~Rejected(list) /\ MerkleRoot(list) = root
Fits(list, root) ==
    IsInjective(list) /\ ~Rejected(list) /\ MerkleRoot(list) = root

-------------------------------------------------------------------------------
Empty == txids = <<>>

AddTransaction ==
    /\ Len(txids) < MaxTxs
    /\ \E t \in Txid : txids' = Append(txids, t)

Writing == Empty /\ [][AddTransaction]_txids

-------------------------------------------------------------------------------
Lists == UNION {[1..n -> Txid] : n \in 1..MaxTxs}

(* A header commits to its transactions: no other list a node could be     *)
(* handed passes for the same root, so that a copy of a block with other   *)
(* transactions is never mistaken for it, whatever doubling makes of odd   *)
(* rows (consensus.py:235).  No list without repeats is refused.  The      *)
(* proof of a place convinces for the transaction there and no other.      *)
RootCommits ==
    IsInjective(txids) /\ txids # <<>> =>
        LET root == MerkleRoot(txids)
        IN  /\ Fits(txids, root)
            /\ \A list \in Lists : Fits(list, root) => list = txids
            /\ \A i \in DOMAIN txids : \A t \in Txid :
                  VerifyProof(t, MerkleProof(txids, i), root) <=> t = txids[i]

(* What the docstring of merkle_root says of the tree by itself: it        *)
(* refuses the list that doubling makes equal to a shorter one.            *)
TwinsRejected ==
    \A n \in 1..(Len(txids) - 1) :
        LET shorter == SubSeq(txids, 1, n)
        IN  ~Rejected(txids) /\ ~Rejected(shorter) =>
                MerkleRoot(txids) # MerkleRoot(shorter)
===============================================================================
