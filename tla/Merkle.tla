------------------------------- MODULE Merkle -------------------------------
(***************************************************************************)
(* vesper/merkle.mjs and the append-ordered tree of vesper/recorder.mjs:   *)
(* one tree, over the leaves in the order of (slot, signature) or in the   *)
(* order of recording.  A hash is the term it is the hash of, so that two  *)
(* hashes are equal when, and only when, what was hashed is.  An           *)
(* observation is its position in the account's history.                   *)
(***************************************************************************)
EXTENDS Integers, Sequences, FiniteSets, SequencesExt

LeafHash(o) == <<o>>
Parent(a, b) == <<a, b>>

IndexOf(observations, o) == Cardinality({p \in observations : p < o})

\* The observations, by (slot, signature).  (SetToSortSeq, but defined down to the
\* bottom: nothing can be proved about TLC's SortSeq.)
Sorted(observations) ==
  [k \in 1..Cardinality(observations) |->
     CHOOSE o \in observations : IndexOf(observations, o) = k - 1]

LeavesOf(observations) ==
  [i \in 1..Len(observations) |-> LeafHash(observations[i])]

\* Every observation once, in order.
CanonicalLeaves(observations) == LeavesOf(Sorted(observations))

\* One level up: a last node without a partner is its own.
PairedDropping(level) ==
  [k \in 1 .. Len(level) \div 2 |-> Parent(level[2*k - 1], level[2*k])]
Paired(level) ==
  [k \in 1 .. (Len(level) + 1) \div 2 |->
     Parent(level[2*k - 1], IF 2*k <= Len(level) THEN level[2*k] ELSE level[2*k - 1])]

LevelUp(level) == IF Len(level) > 1 THEN Paired(level) ELSE level

\* while (level.length > 1): never more levels than leaves.
RootOfLeaves(leaves) ==
  IF leaves = <<>> THEN <<>>
  ELSE Head(FoldLeft(LAMBDA level, leaf : LevelUp(level), leaves, leaves))

MerkleRoot(observations) == RootOfLeaves(CanonicalLeaves(observations))

\* The sibling of the node at idx, counted from 0.
SiblingOf(level, idx) ==
  IF idx % 2 = 1 THEN idx - 1 ELSE IF idx + 1 < Len(level) THEN idx + 1 ELSE idx

ClimbOnce(c) ==
  IF Len(c.level) <= 1 THEN c
  ELSE [level |-> Paired(c.level), idx |-> c.idx \div 2,
        proof |-> Append(c.proof, [sib |-> c.level[SiblingOf(c.level, c.idx) + 1],
                                   onRight |-> c.idx % 2 = 0])]

\* The siblings on the way from leaf `index`, counted from 0, to the root.
ProofForLeaves(leaves, index) ==
  FoldLeft(LAMBDA c, leaf : ClimbOnce(c),
           [level |-> leaves, idx |-> index, proof |-> <<>>], leaves).proof

InclusionProof(observations, index) == ProofForLeaves(CanonicalLeaves(observations), index)

HashedWith(acc, p) == IF p.onRight THEN Parent(acc, p.sib) ELSE Parent(p.sib, acc)

VerifyInclusion(root, leaf, proof) ==
  root = FoldLeft(LAMBDA acc, p : HashedWith(acc, p), leaf, proof)
=============================================================================
