--------------------------- MODULE RecorderProofs ---------------------------
(***************************************************************************)
(* Theorems about the recorder and fraud proofs, for a history, a record   *)
(* and a tree of any size.  The loops of merkle.mjs are folds: Turns names *)
(* the function a fold takes its value from, FoldExists shows there is     *)
(* one, and IsRun what it is turn by turn.  On the runs of the three loops *)
(* the tree is a matter of levels: a proof leads from its leaf, and from   *)
(* no other, to the root (OwnProof), and no proof whatever leads there     *)
(* from what is not a leaf (OnlyLeaves).  The inductive invariant says of  *)
(* the record, the claim and the verdict what these make of them.          *)
(***************************************************************************)
EXTENDS FraudProof, Sums, SequenceTheorems

-----------------------------------------------------------------------------
(* Folds over a sequence. *)

\* One turn of the loop of rootOf, of proofFor and of verifyInclusion.
Turn(loop, acc, e) ==
  CASE loop = "root" -> LevelUp(acc) [] loop = "proof" -> ClimbOnce(acc)
    [] OTHER -> HashedWith(acc, e)

Fold(loop, base, seq, g, s) ==
  IF s = {} THEN base ELSE Turn(loop, g[s \ {Max(s)}], seq[Max(s)])

Turns(loop, base, seq, n, g) == [s \in SUBSET (1..n) |-> Fold(loop, base, seq, g, s)]

\* The greatest member of a finite set of numbers is the one Max picks.
LEMMA MaxIsIn ==
  ASSUME NEW n \in Nat, NEW s \in SUBSET (1..n), s # {}
  PROVE  Max(s) \in s /\ \A x \in s : x <= Max(s)
<1> DEFINE Below == {n - x : x \in s}
<1>1. Below \subseteq Nat /\ Below # {}
  <2>1. \A x \in s : n - x \in Nat
    OBVIOUS
  <2>2. \E x \in s : TRUE
    OBVIOUS
  <2> QED
    BY <2>1, <2>2, Zenon
<1>2. PICK d \in Below : \A e \in Below : d <= e
  BY <1>1, SmallestNat
<1>3. PICK x \in s : d = n - x
  OBVIOUS
<1>4. \A y \in s : n - y \in Below
  OBVIOUS
<1> HIDE DEF Below
<1>5. \A y \in s : d <= n - y
  BY <1>2, <1>4
<1>6. \A y \in s : x >= y
  BY <1>3, <1>5
<1> QED
  BY <1>6 DEF Max

\* Every loop has a function a fold takes the value of: those that hold for the sets up
\* to some size extend to the next.
LEMMA FoldExists ==
  ASSUME NEW loop, NEW base, NEW seq, NEW n \in Nat
  PROVE  \E g : g = Turns(loop, base, seq, n, g)
<1> DEFINE D == 1..n
           Good(g, m) == \A s \in SUBSET D :
                           Cardinality(s) <= m => g[s] = Fold(loop, base, seq, g, s)
           Reach == {m \in Nat : \E g : Good(g, m)}
<1>1. IsFiniteSet(D)
  BY FS_Interval
<1>2. \A s \in SUBSET D : Cardinality(s) \in Nat /\ (Cardinality(s) = 0 <=> s = {})
  BY <1>1, FS_Subset, FS_CardinalityType, FS_EmptySet
<1>3. ASSUME NEW s \in SUBSET D, s # {}
      PROVE  /\ s \ {Max(s)} \in SUBSET D /\ Cardinality(s) \in Nat
             /\ Cardinality(s \ {Max(s)}) = Cardinality(s) - 1
  <2>1. IsFiniteSet(s) /\ Max(s) \in s
    BY <1>1, <1>3, FS_Subset, MaxIsIn
  <2> QED
    BY <2>1, FS_RemoveElement, FS_CardinalityType
<1>4. 0 \in Reach
  <2>1. Good([s \in SUBSET D |-> base], 0)
    BY <1>2 DEF Fold
  <2> HIDE DEF Good
  <2> QED
    BY <2>1
<1>5. \A m \in Nat : m \in Reach => m + 1 \in Reach
  <2> SUFFICES ASSUME NEW m \in Nat, m \in Reach
               PROVE  m + 1 \in Reach
    OBVIOUS
  <2>1. PICK g : Good(g, m)
    OBVIOUS
  <2> DEFINE h == [s \in SUBSET D |-> IF Cardinality(s) <= m THEN g[s]
                                      ELSE Fold(loop, base, seq, g, s)]
  <2>2. ASSUME NEW s \in SUBSET D, Cardinality(s) <= m + 1
        PROVE  h[s] = Fold(loop, base, seq, h, s)
    <3>1. h[s] = Fold(loop, base, seq, g, s)
      BY <2>1
    <3>2. CASE s = {}
      BY <3>1, <3>2 DEF Fold
    <3>3. CASE s # {}
      <4>1. /\ s \ {Max(s)} \in SUBSET D /\ Cardinality(s) \in Nat
            /\ Cardinality(s \ {Max(s)}) = Cardinality(s) - 1
        BY <1>3, <3>3
      <4>2. h[s \ {Max(s)}] = g[s \ {Max(s)}]
        BY <2>2, <4>1
      <4> QED
        BY <3>1, <3>3, <4>2 DEF Fold
    <3> QED
      BY <3>2, <3>3
  <2>3. Good(h, m + 1)
    BY <2>2
  <2> HIDE DEF Good, h
  <2> QED
    BY <2>3
<1>6. n \in Reach
  <2> HIDE DEF Reach
  <2> QED
    BY <1>4, <1>5, NatByInduction
<1>7. PICK g : Good(g, n)
  BY <1>6
<1>8. \A s \in SUBSET D : Cardinality(s) <= n
  <2>1. Cardinality(D) = n
    BY FS_Interval
  <2>2. \A s \in SUBSET D : Cardinality(s) <= Cardinality(D)
    BY <1>1, FS_Subset
  <2> HIDE DEF D
  <2> QED
    BY <2>1, <2>2
<1> DEFINE f == [s \in SUBSET D |-> g[s]]
<1>9. ASSUME NEW s \in SUBSET D
      PROVE  f[s] = Fold(loop, base, seq, f, s)
  <2>1. g[s] = Fold(loop, base, seq, g, s)
    BY <1>7, <1>8
  <2>2. s # {} => s \ {Max(s)} \in SUBSET D
    BY <1>3
  <2> QED
    BY <2>1, <2>2 DEF Fold
<1>10. f = Turns(loop, base, seq, n, f)
  BY <1>9 DEF Turns
<1> HIDE DEF f
<1> QED
  BY <1>10

\* What a loop has computed after each of its turns.
IsRun(loop, base, seq, n, a) ==
  /\ a[0] = base
  /\ \A k \in 1..n : a[k] = Turn(loop, a[k-1], seq[k])

\* A fold is the last of them.
LEMMA FoldRuns ==
  ASSUME NEW loop, NEW base, NEW seq, NEW n \in Nat, NEW g, g = Turns(loop, base, seq, n, g)
  PROVE  \E a : IsRun(loop, base, seq, n, a) /\ a[n] = g[1..n]
<1>1. \A s \in SUBSET (1..n) : g[s] = Fold(loop, base, seq, g, s)
  BY DEF Turns
<1>2. g[1..0] = base
  BY <1>1 DEF Fold
<1>3. ASSUME NEW k \in 1..n
      PROVE  g[1..k] = Turn(loop, g[1 .. k-1], seq[k])
  <2>1. 1..k \in SUBSET (1..n) /\ k \in 1..k
    OBVIOUS
  <2>2. Max(1..k) = k
    <3>1. Max(1..k) \in 1..k /\ k <= Max(1..k)
      BY <2>1, MaxIsIn
    <3> QED
      BY <3>1
  <2>3. (1..k) \ {k} = 1 .. k-1
    OBVIOUS
  <2> QED
    BY <1>1, <2>1, <2>2, <2>3, Zenon DEF Fold
<1> DEFINE a == [k \in 0..n |-> g[1..k]]
<1>4. a[0] = base /\ a[n] = g[1..n]
  BY <1>2
<1>5. \A k \in 1..n : a[k] = g[1..k] /\ a[k-1] = g[1 .. k-1]
  OBVIOUS
<1> HIDE DEF a
<1>6. \A k \in 1..n : a[k] = Turn(loop, a[k-1], seq[k])
  BY <1>3, <1>5
<1> QED
  BY <1>4, <1>6 DEF IsRun

\* The loop of rootOf, level by level.
LEMMA RootRuns ==
  ASSUME NEW leaves, NEW n \in Nat, DOMAIN leaves = 1..n
  PROVE  \E a : /\ IsRun("root", leaves, leaves, n, a)
                /\ leaves # <<>> => RootOfLeaves(leaves) = Head(a[n])
<1> DEFINE Mine(g) == [s \in SUBSET (1..n) |->
                         IF s = {} THEN leaves ELSE LevelUp(g[s \ {Max(s)}])]
           Iter == CHOOSE g : g = Mine(g)
<1>1. leaves # <<>> => RootOfLeaves(leaves) = Head(Iter[1..n])
  BY DEF RootOfLeaves, FoldLeft, MapThenFoldSet
<1>2. \A g : Mine(g) = Turns("root", leaves, leaves, n, g)
  BY DEF Turns, Fold, Turn
<1> HIDE DEF Mine
<1>3. \E g : g = Turns("root", leaves, leaves, n, g)
  BY FoldExists
<1>4. Iter = Mine(Iter)
  BY <1>2, <1>3
<1> HIDE DEF Iter
<1>5. Iter = Turns("root", leaves, leaves, n, Iter)
  BY <1>2, <1>4
<1> QED
  BY <1>1, <1>5, FoldRuns

Foot(leaves, index) == [level |-> leaves, idx |-> index, proof |-> <<>>]

\* That of proofFor, one sibling after the other.
LEMMA ProofRuns ==
  ASSUME NEW leaves, NEW index, NEW n \in Nat, DOMAIN leaves = 1..n
  PROVE  \E a : /\ IsRun("proof", Foot(leaves, index), leaves, n, a)
                /\ ProofForLeaves(leaves, index) = a[n].proof
<1> DEFINE Mine(g) == [s \in SUBSET (1..n) |->
                         IF s = {} THEN Foot(leaves, index) ELSE ClimbOnce(g[s \ {Max(s)}])]
           Iter == CHOOSE g : g = Mine(g)
<1>1. ProofForLeaves(leaves, index) = Iter[1..n].proof
  BY DEF ProofForLeaves, Foot, FoldLeft, MapThenFoldSet
<1>2. \A g : Mine(g) = Turns("proof", Foot(leaves, index), leaves, n, g)
  BY DEF Turns, Fold, Turn
<1> HIDE DEF Mine
<1>3. \E g : g = Turns("proof", Foot(leaves, index), leaves, n, g)
  BY FoldExists
<1>4. Iter = Mine(Iter)
  BY <1>2, <1>3
<1> HIDE DEF Iter
<1>5. Iter = Turns("proof", Foot(leaves, index), leaves, n, Iter)
  BY <1>2, <1>4
<1> QED
  BY <1>1, <1>5, FoldRuns

\* That of verifyInclusion, one hash after the other.
LEMMA HashRuns ==
  ASSUME NEW leaf, NEW proof, NEW n \in Nat, DOMAIN proof = 1..n
  PROVE  \E a : /\ IsRun("hash", leaf, proof, n, a)
                /\ \A root : VerifyInclusion(root, leaf, proof) <=> root = a[n]
<1> DEFINE Mine(g) == [s \in SUBSET (1..n) |->
                         IF s = {} THEN leaf ELSE HashedWith(g[s \ {Max(s)}], proof[Max(s)])]
           Iter == CHOOSE g : g = Mine(g)
<1>1. \A root : VerifyInclusion(root, leaf, proof) <=> root = Iter[1..n]
  BY DEF VerifyInclusion, FoldLeft, MapThenFoldSet
<1>2. \A g : Mine(g) = Turns("hash", leaf, proof, n, g)
  BY DEF Turns, Fold, Turn
<1> HIDE DEF Mine
<1>3. \E g : g = Turns("hash", leaf, proof, n, g)
  BY FoldExists
<1>4. Iter = Mine(Iter)
  BY <1>2, <1>3
<1> HIDE DEF Iter
<1>5. Iter = Turns("hash", leaf, proof, n, Iter)
  BY <1>2, <1>4
<1> QED
  BY <1>1, <1>5, FoldRuns

-----------------------------------------------------------------------------
(* The tree. *)

\* A level of the tree is a sequence with a node or more.
Size(level) == Len(level)
IsLevel(level) == level \in Seq(Range(level)) /\ level # <<>>

LEMMA Halves ==
  ASSUME NEW i \in Nat
  PROVE  i \div 2 \in Nat /\ i % 2 \in {0, 1} /\ i = 2 * (i \div 2) + (i % 2)
  OBVIOUS

LEMMA LevelSize ==
  ASSUME NEW level, IsLevel(level)
  PROVE  Size(level) \in Nat \ {0} /\ DOMAIN level = 1..Size(level)
<1>1. Len(level) \in Nat /\ DOMAIN level = 1..Len(level) /\ Len(level) # 0
  BY DEF IsLevel
<1> QED
  BY <1>1 DEF Size

LEMMA FunctionIsLevel ==
  ASSUME NEW level, NEW m \in Nat \ {0}, level = [k \in 1..m |-> level[k]]
  PROVE  IsLevel(level) /\ Size(level) = m
<1>1. DOMAIN level = 1..m
  OBVIOUS
<1>2. \A k \in 1..m : level[k] \in Range(level)
  BY <1>1 DEF Range
<1>3. level \in [1..m -> Range(level)]
  BY <1>2
<1>4. level \in Seq(Range(level)) /\ Len(level) = m
  BY <1>1, <1>3
<1> QED
  BY <1>4 DEF IsLevel, Size

\* The node beside node k of a level: the next one, or the last one itself.
Partner(level, k) == IF 2*k <= Size(level) THEN level[2*k] ELSE level[2*k - 1]

\* The level above has half the nodes, each the parent of two.
LEMMA PairedIsLevel ==
  ASSUME NEW level, IsLevel(level)
  PROVE  /\ IsLevel(Paired(level)) /\ Size(Paired(level)) = (Size(level) + 1) \div 2
         /\ \A k \in 1..Size(Paired(level)) :
              Paired(level)[k] = Parent(level[2*k - 1], Partner(level, k))
<1> DEFINE m == (Size(level) + 1) \div 2
           up == Paired(level)
<1>1. Size(level) \in Nat \ {0}
  BY LevelSize
<1>2. m \in Nat \ {0}
  BY <1>1, Halves
<1>3. up = [k \in 1..m |-> Parent(level[2*k - 1], Partner(level, k))]
  BY DEF Paired, Partner, Size
<1>4. up = [k \in 1..m |-> up[k]]
  BY <1>3
<1> HIDE DEF up, m
<1>5. IsLevel(up) /\ Size(up) = m
  BY <1>2, <1>4, FunctionIsLevel
<1>6. \A k \in 1..m : up[k] = Parent(level[2*k - 1], Partner(level, k))
  BY <1>3
<1> QED
  BY <1>5, <1>6 DEF up, m

\* One level up, or the root itself.
LEMMA LevelUpIsLevel ==
  ASSUME NEW level, IsLevel(level)
  PROVE  /\ IsLevel(LevelUp(level))
         /\ Size(level) = 1 => LevelUp(level) = level
         /\ Size(level) # 1 => LevelUp(level) = Paired(level)
<1>1. Size(level) \in Nat \ {0}
  BY LevelSize
<1>2. CASE Size(level) = 1
  <2>1. LevelUp(level) = level
    BY <1>2 DEF LevelUp, Size
  <2> QED
    BY <1>2, <2>1
<1>3. CASE Size(level) # 1
  <2>1. Size(level) > 1
    BY <1>1, <1>3
  <2>2. LevelUp(level) = Paired(level)
    BY <2>1 DEF LevelUp, Size
  <2> QED
    BY <1>3, <2>2, PairedIsLevel
<1> QED
  BY <1>2, <1>3

\* After as many levels as there are leaves one node is left.
LEMMA LevelsShrink ==
  ASSUME NEW leaves, IsLevel(leaves), NEW n, n = Size(leaves),
         NEW a, IsRun("root", leaves, leaves, n, a)
  PROVE  /\ \A k \in 0..n : IsLevel(a[k])
         /\ Size(a[n]) = 1
         /\ \A k \in 0 .. n-1 : a[k+1] = LevelUp(a[k])
<1> DEFINE Fits(k) == IsLevel(a[k]) /\ (Size(a[k]) = 1 \/ Size(a[k]) <= n - k)
           Reach == {k \in Nat : k <= n => Fits(k)}
<1>1. n \in Nat
  BY LevelSize
<1>2. \A k \in 0 .. n-1 : a[k+1] = LevelUp(a[k])
  <2>1. \A k \in 1..n : a[k] = LevelUp(a[k-1])
    BY DEF IsRun, Turn
  <2> QED
    BY <1>1, <2>1
<1>3. 0 \in Reach
  <2>1. Fits(0)
    BY <1>1 DEF IsRun
  <2> HIDE DEF Fits
  <2> QED
    BY <2>1
<1>4. \A k \in Nat : k \in Reach => k + 1 \in Reach
  <2> SUFFICES ASSUME NEW k \in Nat, k + 1 <= n, Fits(k)
               PROVE  Fits(k+1)
    BY <1>1
  <2>1. a[k+1] = LevelUp(a[k]) /\ IsLevel(a[k+1])
    BY <1>1, <1>2, LevelUpIsLevel
  <2>2. Size(a[k]) \in Nat \ {0}
    BY LevelSize
  <2>3. CASE Size(a[k]) # 1
    <3>1. Size(a[k+1]) = (Size(a[k]) + 1) \div 2
      BY <2>1, <2>3, LevelUpIsLevel, PairedIsLevel
    <3>2. Size(a[k]) <= n - k
      BY <2>3
    <3>3. (Size(a[k]) + 1) \div 2 <= Size(a[k]) - 1
      BY <2>2, <2>3
    <3> QED
      BY <1>1, <2>1, <2>2, <3>1, <3>2, <3>3
  <2>4. CASE Size(a[k]) = 1
    BY <2>1, <2>4, LevelUpIsLevel
  <2> QED
    BY <2>3, <2>4
<1>5. \A k \in 0..n : Fits(k)
  <2> HIDE DEF Fits
  <2>1. Nat \subseteq Reach
    BY <1>3, <1>4, NatByInduction
  <2> QED
    BY <1>1, <2>1
<1>6. Size(a[n]) = 1
  <2>1. Fits(n)
    BY <1>1, <1>5
  <2> QED
    BY <1>1, <2>1, LevelSize
<1> QED
  BY <1>2, <1>5, <1>6

\* Hashes of different things differ, and so do those of leaves and of pairs.
LEMMA HashesDiffer ==
  ASSUME NEW a, NEW b, NEW x, NEW y
  PROVE  /\ Parent(a, b) = Parent(x, y) <=> a = x /\ b = y
         /\ LeafHash(a) = LeafHash(x) <=> a = x
         /\ LeafHash(a) # Parent(x, y)
  BY DEF Parent, LeafHash

\* What ClimbOnce adds to the proof.
Sibling(level, i) == [sib |-> level[SiblingOf(level, i) + 1], onRight |-> i % 2 = 0]

\* Hashing with the sibling of a node gives the node above it, for that node only.
LEMMA SiblingGoesUp ==
  ASSUME NEW level, IsLevel(level), Size(level) # 1, NEW i \in 0 .. Size(level) - 1
  PROVE  /\ i \div 2 \in 0 .. Size(Paired(level)) - 1
         /\ \A x : HashedWith(x, Sibling(level, i)) = Paired(level)[(i \div 2) + 1]
                     <=> x = level[i + 1]
<1> DEFINE h == i \div 2
           k == h + 1
           e == Sibling(level, i)
<1>1. Size(level) \in Nat \ {0} /\ i \in Nat
  BY LevelSize
<1>2. h \in Nat /\ i % 2 \in {0, 1} /\ i = 2 * h + (i % 2)
  BY <1>1, Halves
<1> HIDE DEF h
<1>3. k \in 1..Size(Paired(level))
  <2>1. Size(Paired(level)) = (Size(level) + 1) \div 2
    BY PairedIsLevel
  <2>2. 2 * h + 1 <= Size(level)
    BY <1>1, <1>2
  <2>3. h + 1 <= (Size(level) + 1) \div 2
    BY <1>1, <1>2, <2>2
  <2> QED
    BY <1>2, <2>1, <2>3
<1>4. Paired(level)[k] = Parent(level[2*k - 1], Partner(level, k))
  BY <1>3, PairedIsLevel
<1>5. h \in 0 .. Size(Paired(level)) - 1
  <2>1. Size(Paired(level)) \in Nat
    BY PairedIsLevel, LevelSize
  <2> QED
    BY <1>2, <1>3, <2>1
<1>6. e.sib = level[SiblingOf(level, i) + 1] /\ e.onRight = (i % 2 = 0)
  BY DEF Sibling
<1>7. \A x : HashedWith(x, e) = Paired(level)[k] <=> x = level[i + 1]
  <2> HIDE DEF e
  <2>1. CASE i % 2 = 0
    <3>1. 2*k - 1 = i + 1 /\ 2*k = i + 2 /\ (2*k <= Size(level) <=> i + 1 < Size(level))
      BY <1>1, <1>2, <2>1
    <3>2. SiblingOf(level, i) = IF i + 1 < Size(level) THEN i + 1 ELSE i
      BY <2>1 DEF SiblingOf, Size
    <3>3. SiblingOf(level, i) + 1 = IF i + 1 < Size(level) THEN 2*k ELSE 2*k - 1
      BY <1>1, <3>1, <3>2
    <3>4. Partner(level, k) = level[SiblingOf(level, i) + 1]
      BY <3>1, <3>3 DEF Partner
    <3> HIDE DEF k
    <3>5. \A x : HashedWith(x, e) = Parent(x, Partner(level, k))
      BY <1>6, <2>1, <3>4 DEF HashedWith
    <3> QED
      BY <1>4, <3>1, <3>5, HashesDiffer
  <2>2. CASE i % 2 = 1
    <3>1. 2*k - 1 = i /\ 2*k = i + 1 /\ i + 1 <= Size(level)
      BY <1>1, <1>2, <2>2
    <3>2. SiblingOf(level, i) + 1 = i
      BY <1>1, <2>2 DEF SiblingOf
    <3>3. Partner(level, k) = level[i + 1]
      BY <3>1 DEF Partner
    <3> HIDE DEF k
    <3>4. \A x : HashedWith(x, e) = Parent(level[i], x)
      <4>1. e.sib = level[i] /\ ~e.onRight
        <5>1. ~(i % 2 = 0)
          BY <2>2
        <5> QED
          BY <1>6, <3>2, <5>1, Zenon
      <4> QED
        BY <4>1 DEF HashedWith
    <3> QED
      BY <1>4, <3>1, <3>3, <3>4, HashesDiffer
  <2> QED
    BY <1>2, <2>1, <2>2
<1> QED
  BY <1>5, <1>7 DEF h

\* A proof is a sequence, and grows at its end.
IsSeq(p) == p \in Seq(Range(p))

LEMMA SeqGrows ==
  ASSUME NEW p, IsSeq(p), NEW e
  PROVE  /\ Size(p) \in Nat /\ DOMAIN p = 1..Size(p)
         /\ IsSeq(Append(p, e)) /\ Size(Append(p, e)) = Size(p) + 1
         /\ Append(p, e)[Size(p) + 1] = e
         /\ \A i \in 1..Size(p) : Append(p, e)[i] = p[i]
<1> DEFINE Y == Range(p) \cup {e}
           q == Append(p, e)
<1>1. p \in Seq(Y) /\ e \in Y
  <2>1. p \in Seq(Range(p))
    BY DEF IsSeq
  <2> HIDE DEF q
  <2> QED
    BY <2>1
<1> HIDE DEF Y
<1>2. /\ q \in Seq(Y) /\ Len(q) = Len(p) + 1 /\ q[Len(p) + 1] = e
      /\ \A i \in 1..Len(p) : q[i] = p[i]
      /\ Len(p) \in Nat /\ DOMAIN p = 1..Len(p)
  BY <1>1
<1> HIDE DEF q
<1>3. DOMAIN q = 1..Len(q) /\ Len(q) \in Nat
  BY <1>2
<1>4. q \in [1..Len(q) -> Range(q)]
  <2>1. \A i \in 1..Len(q) : q[i] \in Range(q)
    BY <1>3 DEF Range
  <2> QED
    BY <1>2, <1>3, <2>1
<1>5. q \in Seq(Range(q))
  BY <1>3, <1>4
<1> QED
  BY <1>2, <1>5 DEF q, IsSeq, Size

\* Where proofFor is after k levels: at the node above the leaf.
OnTheWay(a, c, k) ==
  c[k].level = a[k] /\ c[k].idx \in 0 .. Size(a[k]) - 1 /\ IsSeq(c[k].proof)

\* What the next turn does: a sibling more, unless that is the root.
Rung(a, c, k) ==
  IF Size(a[k]) = 1 THEN a[k+1] = a[k] /\ c[k+1] = c[k]
  ELSE /\ a[k+1] = Paired(a[k])
       /\ c[k+1].idx = c[k].idx \div 2
       /\ c[k+1].proof = Append(c[k].proof, Sibling(a[k], c[k].idx))

LEMMA ClimbFits ==
  ASSUME NEW leaves, IsLevel(leaves), NEW n, n = Size(leaves), NEW index \in 0 .. n-1,
         NEW a, IsRun("root", leaves, leaves, n, a),
         NEW c, IsRun("proof", Foot(leaves, index), leaves, n, c)
  PROVE  /\ \A k \in 0..n : OnTheWay(a, c, k)
         /\ \A k \in 0 .. n-1 : Rung(a, c, k)
<1> DEFINE Reach == {k \in Nat : k <= n => OnTheWay(a, c, k)}
<1>1. n \in Nat
  BY LevelSize
<1>2. /\ \A k \in 0..n : IsLevel(a[k])
      /\ \A k \in 0 .. n-1 : a[k+1] = LevelUp(a[k])
  BY LevelsShrink
<1>3. \A k \in 0 .. n-1 : c[k+1] = ClimbOnce(c[k])
  <2>1. \A k \in 1..n : c[k] = ClimbOnce(c[k-1])
    BY DEF IsRun, Turn
  <2> QED
    BY <1>1, <2>1
<1>4. ASSUME NEW k \in 0 .. n-1, OnTheWay(a, c, k)
      PROVE  Rung(a, c, k) /\ OnTheWay(a, c, k+1)
  <2>1. a[k+1] = LevelUp(a[k]) /\ c[k+1] = ClimbOnce(c[k])
    BY <1>2, <1>3
  <2>2. IsLevel(a[k]) /\ Size(a[k]) \in Nat \ {0}
    BY <1>1, <1>2, LevelSize
  <2>3. c[k].level = a[k] /\ c[k].idx \in 0 .. Size(a[k]) - 1 /\ IsSeq(c[k].proof)
    BY <1>4 DEF OnTheWay
  <2>4. CASE Size(a[k]) = 1
    <3>1. a[k+1] = a[k]
      BY <2>1, <2>2, <2>4, LevelUpIsLevel
    <3>2. c[k+1] = c[k]
      BY <2>1, <2>3, <2>4 DEF ClimbOnce, Size
    <3> QED
      BY <1>4, <2>4, <3>1, <3>2 DEF Rung, OnTheWay
  <2>5. CASE Size(a[k]) # 1
    <3>1. a[k+1] = Paired(a[k])
      BY <2>1, <2>2, <2>5, LevelUpIsLevel
    <3>2. ~(Size(a[k]) <= 1)
      BY <2>2, <2>5
    <3>3. c[k+1] = [level |-> Paired(a[k]), idx |-> c[k].idx \div 2,
                    proof |-> Append(c[k].proof, Sibling(a[k], c[k].idx))]
      BY <2>1, <2>3, <3>2 DEF ClimbOnce, Size, Sibling
    <3>4. c[k].idx \div 2 \in 0 .. Size(Paired(a[k])) - 1
      BY <2>2, <2>3, <2>5, SiblingGoesUp
    <3>5. IsSeq(Append(c[k].proof, Sibling(a[k], c[k].idx)))
      BY <2>3, SeqGrows
    <3> QED
      BY <2>5, <3>1, <3>3, <3>4, <3>5 DEF Rung, OnTheWay
  <2> QED
    BY <2>4, <2>5
<1>5. 0 \in Reach
  <2>1. c[0] = Foot(leaves, index) /\ a[0] = leaves
    BY DEF IsRun
  <2>2. IsSeq(<<>>)
    BY DEF IsSeq
  <2>3. OnTheWay(a, c, 0)
    BY <2>1, <2>2 DEF OnTheWay, Foot
  <2> QED
    BY <2>3
<1>6. \A k \in Nat : k \in Reach => k + 1 \in Reach
  <2> SUFFICES ASSUME NEW k \in Nat, k + 1 <= n, OnTheWay(a, c, k)
               PROVE  OnTheWay(a, c, k+1)
    BY <1>1
  <2>1. k \in 0 .. n-1
    BY <1>1
  <2> QED
    BY <1>4, <2>1
<1>7. \A k \in 0..n : OnTheWay(a, c, k)
  <2>1. Nat \subseteq Reach
    <3> HIDE DEF Reach
    <3> QED
      BY <1>5, <1>6, NatByInduction
  <2> QED
    BY <1>1, <2>1
<1>8. \A k \in 0 .. n-1 : k \in 0..n
  BY <1>1
<1> QED
  BY <1>4, <1>7, <1>8

\* What a proof holds stays in its place as it grows.
LEMMA ProofGrows ==
  ASSUME NEW leaves, IsLevel(leaves), NEW n, n = Size(leaves), NEW index \in 0 .. n-1,
         NEW a, IsRun("root", leaves, leaves, n, a),
         NEW c, IsRun("proof", Foot(leaves, index), leaves, n, c),
         NEW j \in 0..n
  PROVE  /\ Size(c[j].proof) \in 0 .. Size(c[n].proof)
         /\ \A i \in 1..Size(c[j].proof) : c[n].proof[i] = c[j].proof[i]
<1> DEFINE Kept(k) == /\ Size(c[j].proof) <= Size(c[k].proof)
                      /\ \A i \in 1..Size(c[j].proof) : c[k].proof[i] = c[j].proof[i]
           Reach == {d \in Nat : j + d <= n => Kept(j + d)}
<1>1. n \in Nat /\ j \in Nat
  BY LevelSize
<1>2. \A k \in 0..n : Size(c[k].proof) \in Nat
  <2>1. \A k \in 0..n : IsSeq(c[k].proof)
    BY ClimbFits DEF OnTheWay
  <2> QED
    BY <2>1, SeqGrows
<1>3. 0 \in Reach
  <2>1. j + 0 = j
    BY <1>1
  <2>2. Kept(j)
    BY <1>2
  <2> HIDE DEF Kept
  <2> QED
    BY <2>1, <2>2
<1>4. \A d \in Nat : d \in Reach => d + 1 \in Reach
  <2> SUFFICES ASSUME NEW d \in Nat, j + (d + 1) <= n, Kept(j + d)
               PROVE  Kept(j + (d + 1))
    <3> HIDE DEF Kept
    <3> QED
      BY <1>1
  <2> DEFINE k == j + d
  <2>1. k \in 0 .. n-1 /\ k \in 0..n /\ j + (d + 1) = k + 1
    BY <1>1
  <2> HIDE DEF k
  <2>2. Rung(a, c, k) /\ IsSeq(c[k].proof)
    BY <2>1, ClimbFits DEF OnTheWay
  <2>3. Kept(k)
    BY DEF k
  <2>4. CASE c[k+1] = c[k]
    BY <2>1, <2>3, <2>4
  <2>5. CASE c[k+1].proof = Append(c[k].proof, Sibling(a[k], c[k].idx))
    <3>1. /\ Size(c[k+1].proof) = Size(c[k].proof) + 1 /\ Size(c[k].proof) \in Nat
          /\ \A i \in 1..Size(c[k].proof) : c[k+1].proof[i] = c[k].proof[i]
      <4> DEFINE e == Sibling(a[k], c[k].idx)
                 p == c[k].proof
                 q == c[k+1].proof
      <4>1. q = Append(p, e) /\ IsSeq(p)
        BY <2>2, <2>5
      <4> HIDE DEF e, p, q
      <4>2. /\ Size(q) = Size(p) + 1 /\ Size(p) \in Nat
            /\ \A i \in 1..Size(p) : q[i] = p[i]
        BY <4>1, SeqGrows
      <4> QED
        BY <4>2 DEF p, q
    <3>2. Size(c[j].proof) \in Nat
      BY <1>2
    <3>3. Size(c[j].proof) <= Size(c[k+1].proof)
      BY <2>3, <3>1, <3>2
    <3>4. \A i \in 1..Size(c[j].proof) : i \in 1..Size(c[k].proof)
      BY <2>3, <3>1, <3>2
    <3> QED
      BY <2>1, <2>3, <3>1, <3>3, <3>4
  <2> QED
    BY <2>2, <2>4, <2>5 DEF Rung
<1>5. Kept(n)
  <2>1. Nat \subseteq Reach
    <3> HIDE DEF Reach
    <3> QED
      BY <1>3, <1>4, NatByInduction
  <2>2. n - j \in Nat /\ j + (n - j) = n
    BY <1>1
  <2> HIDE DEF Kept
  <2>3. n - j \in Reach
    BY <2>1, <2>2
  <2> QED
    BY <1>1, <2>2, <2>3
<1>6. n \in 0..n
  BY <1>1
<1> QED
  BY <1>1, <1>2, <1>5, <1>6

\* The proof of a leaf leads from that leaf to the root, and from no other.
LEMMA OwnProof ==
  ASSUME NEW leaves, IsLevel(leaves), NEW index \in 0 .. Size(leaves) - 1, NEW leaf
  PROVE  VerifyInclusion(RootOfLeaves(leaves), leaf, ProofForLeaves(leaves, index))
           <=> leaf = leaves[index + 1]
<1> DEFINE n == Size(leaves)
<1>1. n \in Nat \ {0} /\ DOMAIN leaves = 1..n /\ leaves # <<>>
  BY LevelSize DEF IsLevel
<1> HIDE DEF n
<1>2. PICK a : IsRun("root", leaves, leaves, n, a) /\ RootOfLeaves(leaves) = Head(a[n])
  BY <1>1, RootRuns
<1>3. PICK c : /\ IsRun("proof", Foot(leaves, index), leaves, n, c)
               /\ ProofForLeaves(leaves, index) = c[n].proof
  BY <1>1, ProofRuns
<1>4. /\ \A k \in 0..n : OnTheWay(a, c, k)
      /\ \A k \in 0 .. n-1 : Rung(a, c, k)
  BY <1>2, <1>3, ClimbFits DEF n
<1>5. (\A k \in 0..n : IsLevel(a[k])) /\ Size(a[n]) = 1
  BY <1>2, LevelsShrink DEF n
<1>6. \A k \in 0..n : /\ Size(c[k].proof) \in 0 .. Size(c[n].proof)
                      /\ \A i \in 1..Size(c[k].proof) : c[n].proof[i] = c[k].proof[i]
  BY <1>2, <1>3, ProofGrows DEF n
<1> DEFINE p == c[n].proof
           m == Size(p)
<1>7. m \in Nat /\ DOMAIN p = 1..m
  <2>1. IsSeq(p)
    BY <1>1, <1>4 DEF OnTheWay
  <2> HIDE DEF p
  <2> QED
    BY <2>1, SeqGrows
<1> HIDE DEF m
<1>8. PICK h : /\ IsRun("hash", leaf, p, m, h)
               /\ \A root : VerifyInclusion(root, leaf, p) <=> root = h[m]
  <2> HIDE DEF p
  <2> QED
    BY <1>7, HashRuns
<1>9. h[0] = leaf /\ \A i \in 1..m : h[i] = HashedWith(h[i-1], p[i])
  BY <1>8 DEF IsRun, Turn
<1> DEFINE Meets(k) == h[Size(c[k].proof)] = a[k][c[k].idx + 1] <=> leaf = leaves[index + 1]
           Reach == {k \in Nat : k <= n => Meets(k)}
<1>10. 0 \in Reach
  <2>1. c[0] = Foot(leaves, index) /\ a[0] = leaves
    BY <1>2, <1>3 DEF IsRun
  <2>2. c[0].idx = index /\ Size(c[0].proof) = 0
    BY <2>1 DEF Foot, Size
  <2>3. Meets(0)
    BY <1>9, <2>1, <2>2
  <2> HIDE DEF Meets
  <2> QED
    BY <2>3
<1>11. \A k \in Nat : k \in Reach => k + 1 \in Reach
  <2> SUFFICES ASSUME NEW k \in Nat, k + 1 <= n, Meets(k)
               PROVE  Meets(k + 1)
    <3> HIDE DEF Meets
    <3> QED
      BY <1>1
  <2>1. k \in 0 .. n-1 /\ k \in 0..n /\ k + 1 \in 0..n
    BY <1>1
  <2>2. OnTheWay(a, c, k) /\ Rung(a, c, k) /\ IsLevel(a[k])
    BY <1>4, <1>5, <2>1
  <2>3. CASE Size(a[k]) = 1
    BY <2>2, <2>3 DEF Rung
  <2>4. CASE Size(a[k]) # 1
    <3> DEFINE s == Size(c[k].proof)
               e == Sibling(a[k], c[k].idx)
    <3>1. /\ a[k+1] = Paired(a[k]) /\ c[k+1].idx = c[k].idx \div 2
          /\ c[k+1].proof = Append(c[k].proof, e)
      BY <2>2, <2>4 DEF Rung
    <3>2. /\ s \in Nat /\ Size(c[k+1].proof) = s + 1 /\ c[k+1].proof[s + 1] = e
      <4> DEFINE q == c[k].proof
                 r == c[k+1].proof
      <4>1. r = Append(q, e) /\ IsSeq(q)
        BY <2>2, <3>1 DEF OnTheWay
      <4> HIDE DEF q, r, e
      <4>2. Size(q) \in Nat /\ Size(r) = Size(q) + 1 /\ r[Size(q) + 1] = e
        BY <4>1, SeqGrows
      <4> QED
        BY <4>2 DEF q, r
    <3>3. s + 1 \in 1..m /\ p[s + 1] = e
      <4> HIDE DEF s, e
      <4>1. s + 1 \in 0..m /\ \A i \in 1 .. s+1 : p[i] = c[k+1].proof[i]
        BY <1>6, <2>1, <3>2 DEF m
      <4> HIDE DEF p
      <4> QED
        BY <1>7, <3>2, <4>1
    <3>4. h[s + 1] = HashedWith(h[s], e)
      <4> HIDE DEF s, e, p
      <4> HIDE DEF Meets, Reach
      <4>1. ASSUME NEW t, t = s + 1
            PROVE  h[t] = HashedWith(h[s], e)
        <5>1. t \in 1..m /\ p[t] = e
          BY <3>3, <4>1
        <5>2. t - 1 = s
          BY <3>2, <4>1
        <5>3. h[t] = HashedWith(h[t-1], p[t])
          BY <1>9, <5>1
        <5> QED
          BY <5>1, <5>2, <5>3
      <4> QED
        BY <4>1
    <3>5. HashedWith(h[s], e) = Paired(a[k])[(c[k].idx \div 2) + 1]
            <=> h[s] = a[k][c[k].idx + 1]
      <4>1. c[k].idx \in 0 .. Size(a[k]) - 1
        BY <2>2 DEF OnTheWay
      <4> QED
        BY <2>2, <2>4, <4>1, SiblingGoesUp
    <3>6. h[Size(c[k+1].proof)] = a[k+1][c[k+1].idx + 1] <=> h[s] = a[k][c[k].idx + 1]
      <4> HIDE DEF s, e
      <4> QED
        BY <3>1, <3>2, <3>4, <3>5
    <3> HIDE DEF e
    <3> QED
      BY <3>6
  <2> QED
    BY <2>3, <2>4
<1>12. Meets(n)
  <2> HIDE DEF Meets
  <2>1. Nat \subseteq Reach
    <3> HIDE DEF Reach
    <3> QED
      BY <1>10, <1>11, NatByInduction
  <2> QED
    BY <1>1, <2>1
<1>13. RootOfLeaves(leaves) = a[n][c[n].idx + 1]
  <2>1. c[n].idx = 0
    <3>1. c[n].idx \in 0 .. Size(a[n]) - 1
      BY <1>1, <1>4 DEF OnTheWay
    <3> QED
      BY <1>5, <3>1
  <2>2. IsLevel(a[n])
    BY <1>1, <1>5
  <2> QED
    BY <1>2, <2>1, <2>2 DEF IsLevel
<1>14. VerifyInclusion(RootOfLeaves(leaves), leaf, p) <=> RootOfLeaves(leaves) = h[m]
  BY <1>8
<1> QED
  BY <1>3, <1>12, <1>13, <1>14 DEF m

\* A root proves no leaf that is not under it, whatever the proof.
LEMMA OnlyLeaves ==
  ASSUME NEW leaves, IsLevel(leaves), \A x \in Range(leaves) : \E y : x = LeafHash(y),
         NEW o, NEW proof, NEW m \in Nat, DOMAIN proof = 1..m,
         VerifyInclusion(RootOfLeaves(leaves), LeafHash(o), proof)
  PROVE  LeafHash(o) \in Range(leaves)
<1> DEFINE n == Size(leaves)
<1>1. n \in Nat \ {0} /\ DOMAIN leaves = 1..n /\ leaves # <<>>
  BY LevelSize DEF IsLevel
<1> HIDE DEF n
<1>2. PICK a : IsRun("root", leaves, leaves, n, a) /\ RootOfLeaves(leaves) = Head(a[n])
  BY <1>1, RootRuns
<1>3. /\ \A k \in 0..n : IsLevel(a[k])
      /\ Size(a[n]) = 1 /\ a[0] = leaves
      /\ \A k \in 0 .. n-1 : a[k+1] = LevelUp(a[k])
  BY <1>2, LevelsShrink DEF n, IsRun
<1> DEFINE Nodes == UNION {Range(a[k]) : k \in 0..n}
           Known(x) == x \in Range(leaves) \/ \E u, v \in Nodes : x = Parent(u, v)
           Reach == {k \in Nat : k <= n => \A x \in Range(a[k]) : Known(x)}
<1>4. 0 \in Reach
  BY <1>3
<1>5. \A k \in Nat : k \in Reach => k + 1 \in Reach
  <2> SUFFICES ASSUME NEW k \in Nat, k + 1 <= n, \A x \in Range(a[k]) : Known(x)
               PROVE  \A x \in Range(a[k+1]) : Known(x)
    <3> HIDE DEF Known
    <3> QED
      BY <1>1
  <2>1. k \in 0 .. n-1 /\ k \in 0..n
    BY <1>1
  <2>2. IsLevel(a[k]) /\ a[k+1] = LevelUp(a[k])
    BY <1>3, <2>1
  <2>3. CASE Size(a[k]) = 1
    <3>1. a[k+1] = a[k]
      BY <2>2, <2>3, LevelUpIsLevel
    <3> HIDE DEF Known
    <3> QED
      BY <3>1
  <2>4. CASE Size(a[k]) # 1
    <3> DEFINE level == a[k]
               up == a[k+1]
    <3>1. up = Paired(level) /\ IsLevel(level)
      BY <2>2, <2>4, LevelUpIsLevel
    <3>2. Range(level) \subseteq Nodes
      BY <2>1
    <3> HIDE DEF level, up, Nodes
    <3>3. ASSUME NEW x \in Range(up)
          PROVE  Known(x)
      <4>1. /\ IsLevel(up) /\ Size(up) = (Size(level) + 1) \div 2
            /\ \A i \in 1..Size(up) : up[i] = Parent(level[2*i - 1], Partner(level, i))
        BY <3>1, PairedIsLevel
      <4>2. PICK i \in 1..Size(up) : x = Parent(level[2*i - 1], Partner(level, i))
        <5>1. DOMAIN up = 1..Size(up)
          BY <4>1, LevelSize
        <5>2. PICK i \in DOMAIN up : x = up[i]
          BY <3>3 DEF Range
        <5> QED
          BY <4>1, <5>1, <5>2
      <4>3. Size(level) \in Nat \ {0} /\ DOMAIN level = 1..Size(level)
        BY <3>1, LevelSize
      <4>4. \A j \in 1..Size(level) : level[j] \in Nodes
        BY <3>2, <4>3 DEF Range
      <4>5. 2*i - 1 \in 1..Size(level) /\ (2*i <= Size(level) => 2*i \in 1..Size(level))
        BY <4>1, <4>3
      <4>6. level[2*i - 1] \in Nodes /\ Partner(level, i) \in Nodes
        BY <4>4, <4>5 DEF Partner
      <4> QED
        BY <4>2, <4>6
    <3> QED
      BY <3>3 DEF up
  <2> QED
    BY <2>3, <2>4
<1>6. \A x \in Nodes : Known(x)
  <2> HIDE DEF Known
  <2>1. Nat \subseteq Reach
    <3> HIDE DEF Reach
    <3> QED
      BY <1>4, <1>5, NatByInduction
  <2>2. \A k \in 0..n : \A x \in Range(a[k]) : Known(x)
    BY <1>1, <2>1
  <2> QED
    BY <2>2
<1>7. RootOfLeaves(leaves) \in Nodes
  <2>1. IsLevel(a[n]) /\ n \in 0..n
    BY <1>1, <1>3
  <2>2. Head(a[n]) = a[n][1] /\ 1 \in DOMAIN a[n]
    BY <1>3, <2>1, LevelSize DEF IsLevel
  <2> QED
    BY <1>2, <2>1, <2>2 DEF Range
<1>8. PICK h : IsRun("hash", LeafHash(o), proof, m, h) /\ RootOfLeaves(leaves) = h[m]
  BY HashRuns
<1>9. h[0] = LeafHash(o) /\ \A i \in 1..m : h[i] = HashedWith(h[i-1], proof[i])
  BY <1>8 DEF IsRun, Turn
<1> HIDE DEF Nodes
<1>10. ASSUME NEW i \in 1..m, h[i] \in Nodes
       PROVE  h[i-1] \in Nodes
  <2>1. PICK s : h[i] = Parent(h[i-1], s) \/ h[i] = Parent(s, h[i-1])
    <3>1. h[i] = HashedWith(h[i-1], proof[i])
      BY <1>9
    <3>2. \/ HashedWith(h[i-1], proof[i]) = Parent(h[i-1], proof[i].sib)
          \/ HashedWith(h[i-1], proof[i]) = Parent(proof[i].sib, h[i-1])
      BY DEF HashedWith
    <3> QED
      BY <3>1, <3>2
  <2>2. \A x : x \in Range(leaves) => h[i] # x
    BY <2>1, HashesDiffer
  <2>3. PICK u \in Nodes, v \in Nodes : h[i] = Parent(u, v)
    BY <1>6, <1>10, <2>2
  <2> QED
    BY <2>1, <2>3, HashesDiffer
<1> DEFINE Down == {d \in Nat : d <= m => h[m - d] \in Nodes}
<1>11. m \in Down
  <2>1. 0 \in Down
    <3>1. m - 0 = m
      OBVIOUS
    <3> QED
      BY <1>7, <1>8, <3>1
  <2>2. \A d \in Nat : d \in Down => d + 1 \in Down
    <3> SUFFICES ASSUME NEW d \in Nat, d + 1 <= m, h[m - d] \in Nodes
                 PROVE  h[m - (d + 1)] \in Nodes
      OBVIOUS
    <3>1. m - d \in 1..m /\ m - (d + 1) = (m - d) - 1
      OBVIOUS
    <3>2. h[(m - d) - 1] \in Nodes
      BY <1>10, <3>1
    <3> QED
      BY <3>1, <3>2, Zenon
  <2>3. Nat \subseteq Down
    <3> HIDE DEF Down
    <3> QED
      BY <2>1, <2>2, NatByInduction
  <2> HIDE DEF Down
  <2> QED
    BY <2>3
<1>12. LeafHash(o) \in Nodes
  <2>1. h[m - m] \in Nodes
    BY <1>11
  <2>2. m - m = 0
    OBVIOUS
  <2> QED
    BY <1>9, <2>1, <2>2
<1> QED
  BY <1>6, <1>12, HashesDiffer

-----------------------------------------------------------------------------
(* Observations in order. *)

\* The place of an observation is how many come before it; no two share one, so every
\* place is taken.
LEMMA SortedIsIt ==
  ASSUME NEW S \in SUBSET Nat, IsFiniteSet(S)
  PROVE  /\ Sorted(S) \in Seq(S) /\ Len(Sorted(S)) = Cardinality(S) /\ Range(Sorted(S)) = S
         /\ \A o \in S : /\ IndexOf(S, o) \in 0 .. Cardinality(S) - 1
                         /\ Sorted(S)[IndexOf(S, o) + 1] = o
<1> DEFINE n == Cardinality(S)
           Before(o) == {p \in S : p < o}
<1>1. n \in Nat
  BY FS_CardinalityType
<1> HIDE DEF n
<1>2. \A o \in S : IsFiniteSet(Before(o)) /\ Cardinality(Before(o)) \in Nat
  BY FS_Subset, FS_CardinalityType
<1>3. \A o \in S : IndexOf(S, o) = Cardinality(Before(o))
  BY DEF IndexOf
<1>4. ASSUME NEW o \in S
      PROVE  IndexOf(S, o) \in 0 .. n-1
  <2>1. IsFiniteSet(S \ {o}) /\ Cardinality(S \ {o}) = n - 1
    BY FS_RemoveElement DEF n
  <2>2. Before(o) \in SUBSET (S \ {o})
    OBVIOUS
  <2>3. Cardinality(Before(o)) <= n - 1
    BY <2>1, <2>2, FS_Subset
  <2> HIDE DEF Before
  <2> QED
    BY <1>1, <1>2, <1>3, <2>3
<1>5. ASSUME NEW o \in S, NEW p \in S, o < p
      PROVE  IndexOf(S, o) # IndexOf(S, p)
  <2>1. Before(o) \in SUBSET Before(p)
    <3>1. \A q \in S : q < o => q < p
      <4>1. \A q \in S : q \in Nat
        OBVIOUS
      <4> QED
        BY <1>5, <4>1
    <3> QED
      BY <3>1
  <2>2. o \in Before(p) /\ o \notin Before(o)
    BY <1>5
  <2>3. IsFiniteSet(Before(p))
    BY <1>2
  <2>4. Before(o) # Before(p)
    BY <2>2
  <2> HIDE DEF Before
  <2>5. Cardinality(Before(p)) # Cardinality(Before(o))
    BY <2>1, <2>3, <2>4, FS_Subset
  <2> QED
    BY <1>3, <2>5
<1>6. \A o, p \in S : IndexOf(S, o) = IndexOf(S, p) => o = p
  <2>1. \A o, p \in S : o < p \/ p < o \/ o = p
    OBVIOUS
  <2> QED
    BY <1>5, <2>1
<1> DEFINE f == [o \in S |-> IndexOf(S, o) + 1]
<1>7. f \in Injection(S, 1..n)
  <2>1. \A o \in S : IndexOf(S, o) + 1 \in 1..n
    BY <1>1, <1>4
  <2>2. \A o, p \in S : IndexOf(S, o) + 1 = IndexOf(S, p) + 1 => o = p
    BY <1>4, <1>6
  <2> QED
    BY <2>1, <2>2 DEF Injection, IsInjective
<1>8. f \in Surjection(S, 1..n)
  <2> HIDE DEF f
  <2>1. IsFiniteSet(1..n) /\ Cardinality(1..n) = n
    BY <1>1, FS_Interval
  <2> QED
    BY <1>7, <2>1, FS_Injection DEF n
<1>9. \A k \in 1..n : \E o \in S : IndexOf(S, o) = k - 1
  <2>1. \A k \in 1..n : \E o \in S : f[o] = k
    <3> HIDE DEF f
    <3> QED
      BY <1>8 DEF Surjection
  <2>2. \A o \in S : f[o] = IndexOf(S, o) + 1 /\ IndexOf(S, o) \in Nat
    BY <1>4
  <2> HIDE DEF f
  <2> QED
    BY <2>1, <2>2
<1> DEFINE s == Sorted(S)
<1>10. s = [k \in 1..n |-> CHOOSE o \in S : IndexOf(S, o) = k - 1]
  BY DEF Sorted, n
<1> HIDE DEF s
<1>11. \A k \in 1..n : s[k] \in S /\ IndexOf(S, s[k]) = k - 1
  BY <1>9, <1>10
<1>12. s \in [1..n -> S]
  BY <1>10, <1>11
<1>13. s \in Seq(S) /\ Len(s) = n /\ DOMAIN s = 1..n
  BY <1>1, <1>12
<1>14. ASSUME NEW o \in S
       PROVE  IndexOf(S, o) + 1 \in 1..n /\ s[IndexOf(S, o) + 1] = o
  <2> DEFINE k == IndexOf(S, o) + 1
  <2>1. k \in 1..n /\ k - 1 = IndexOf(S, o)
    BY <1>1, <1>4
  <2> HIDE DEF k
  <2>2. s[k] \in S /\ IndexOf(S, s[k]) = k - 1
    BY <1>11, <2>1
  <2>3. s[k] = o
    BY <1>6, <2>1, <2>2
  <2> QED
    BY <2>1, <2>3 DEF k
<1>15. Range(s) = S
  <2>1. \A o \in S : o \in Range(s)
    BY <1>13, <1>14 DEF Range
  <2>2. \A o \in Range(s) : o \in S
    BY <1>11, <1>13 DEF Range
  <2> QED
    BY <2>1, <2>2
<1> QED
  BY <1>4, <1>13, <1>14, <1>15 DEF s, n

\* The tree over a sequence of observations.
LEMMA LeavesAreLevel ==
  ASSUME NEW S, NEW observations \in Seq(S), observations # <<>>
  PROVE  /\ IsLevel(LeavesOf(observations))
         /\ Size(LeavesOf(observations)) = Len(observations)
         /\ \A i \in 1..Len(observations) :
              LeavesOf(observations)[i] = LeafHash(observations[i])
         /\ \A x \in Range(LeavesOf(observations)) :
              \E o \in Range(observations) : x = LeafHash(o)
<1> DEFINE n == Len(observations)
           leaves == LeavesOf(observations)
<1>1. n \in Nat \ {0} /\ DOMAIN observations = 1..n
  OBVIOUS
<1>2. leaves = [i \in 1..n |-> LeafHash(observations[i])]
  BY DEF LeavesOf
<1>3. leaves = [i \in 1..n |-> leaves[i]]
  BY <1>2
<1> HIDE DEF leaves, n
<1>4. IsLevel(leaves) /\ Size(leaves) = n
  BY <1>1, <1>3, FunctionIsLevel
<1>5. \A i \in 1..n : leaves[i] = LeafHash(observations[i])
  BY <1>2
<1>6. \A x \in Range(leaves) : \E o \in Range(observations) : x = LeafHash(o)
  BY <1>1, <1>2 DEF Range
<1> QED
  BY <1>4, <1>5, <1>6 DEF leaves, n

\* The proof for a place leads to the observation recorded there only.
LEMMA PlaceIsProven ==
  ASSUME NEW S, NEW observations \in Seq(S), NEW i \in 1..Len(observations), NEW o
  PROVE  VerifyInclusion(RootOf(observations), LeafHash(o),
                         ProofForLeaves(LeavesOf(observations), i - 1))
           <=> o = observations[i]
<1> DEFINE leaves == LeavesOf(observations)
           j == i - 1
<1>1. observations # <<>> /\ i - 1 + 1 = i
  OBVIOUS
<1>2. /\ IsLevel(leaves) /\ Size(leaves) = Len(observations)
      /\ leaves[i] = LeafHash(observations[i])
  BY <1>1, LeavesAreLevel
<1>3. j \in 0 .. Size(leaves) - 1 /\ j + 1 = i
  BY <1>2
<1> HIDE DEF leaves, j
<1>4. VerifyInclusion(RootOfLeaves(leaves), LeafHash(o), ProofForLeaves(leaves, j))
        <=> LeafHash(o) = leaves[j + 1]
  BY <1>2, <1>3, OwnProof
<1> QED
  BY <1>2, <1>3, <1>4, HashesDiffer DEF RootOf, leaves, j

\* Of a set: each of its members is proven by its root, and nothing else is.
LEMMA MembersAreProven ==
  ASSUME NEW S \in SUBSET Nat, IsFiniteSet(S), NEW o \in S
  PROVE  VerifyInclusion(MerkleRoot(S), LeafHash(o), InclusionProof(S, IndexOf(S, o)))
<1> DEFINE k == IndexOf(S, o)
           i == k + 1
<1>1. Sorted(S) \in Seq(S) /\ Len(Sorted(S)) = Cardinality(S)
  BY SortedIsIt
<1>2. k \in 0 .. Cardinality(S) - 1 /\ Sorted(S)[i] = o
  BY SortedIsIt
<1>3. Cardinality(S) \in Nat
  BY FS_CardinalityType
<1> HIDE DEF k
<1>4. i \in 1..Len(Sorted(S)) /\ i - 1 = k
  BY <1>1, <1>2, <1>3
<1> HIDE DEF i
<1>5. VerifyInclusion(RootOf(Sorted(S)), LeafHash(o), ProofForLeaves(LeavesOf(Sorted(S)), k))
  BY <1>1, <1>2, <1>4, PlaceIsProven
<1> QED
  BY <1>5 DEF k, RootOf, MerkleRoot, InclusionProof, CanonicalLeaves

LEMMA NothingElseIsProven ==
  ASSUME NEW S \in SUBSET Nat, IsFiniteSet(S), S # {}, NEW o, NEW proof, NEW m \in Nat,
         DOMAIN proof = 1..m, VerifyInclusion(MerkleRoot(S), LeafHash(o), proof)
  PROVE  o \in S
<1> DEFINE s == Sorted(S)
<1>1. s \in Seq(S) /\ Range(s) = S
  BY SortedIsIt
<1>2. s # <<>>
  BY <1>1 DEF Range
<1> HIDE DEF s
<1>3. /\ IsLevel(LeavesOf(s))
      /\ \A x \in Range(LeavesOf(s)) : \E y \in Range(s) : x = LeafHash(y)
  BY <1>1, <1>2, LeavesAreLevel
<1>4. VerifyInclusion(RootOfLeaves(LeavesOf(s)), LeafHash(o), proof)
  BY DEF s, MerkleRoot, CanonicalLeaves
<1>5. LeafHash(o) \in Range(LeavesOf(s))
  BY <1>3, <1>4, OnlyLeaves
<1> QED
  BY <1>1, <1>3, <1>5, HashesDiffer

\* The proof of a place is a sequence.
LEMMA ProofIsSeq ==
  ASSUME NEW leaves, IsLevel(leaves), NEW index \in 0 .. Size(leaves) - 1
  PROVE  \E m \in Nat : DOMAIN ProofForLeaves(leaves, index) = 1..m
<1> DEFINE n == Size(leaves)
<1>1. n \in Nat \ {0} /\ DOMAIN leaves = 1..n
  BY LevelSize
<1> HIDE DEF n
<1>2. PICK a : IsRun("root", leaves, leaves, n, a)
  BY <1>1, RootRuns
<1>3. PICK c : /\ IsRun("proof", Foot(leaves, index), leaves, n, c)
               /\ ProofForLeaves(leaves, index) = c[n].proof
  BY <1>1, ProofRuns
<1>4. \A k \in 0..n : OnTheWay(a, c, k)
  BY <1>2, <1>3, ClimbFits DEF n
<1>5. IsSeq(c[n].proof)
  BY <1>1, <1>4 DEF OnTheWay
<1> QED
  BY <1>3, <1>5, SeqGrows

\* So a set whose root is another's has nothing that the other lacks.
LEMMA RootsTell ==
  ASSUME NEW S \in SUBSET Nat, IsFiniteSet(S), NEW T \in SUBSET Nat, IsFiniteSet(T), T # {},
         MerkleRoot(S) = MerkleRoot(T), NEW o \in S
  PROVE  o \in T
<1> DEFINE leaves == CanonicalLeaves(S)
           k == IndexOf(S, o)
<1>1. VerifyInclusion(MerkleRoot(S), LeafHash(o), InclusionProof(S, k))
  BY MembersAreProven
<1>2. k \in 0 .. Cardinality(S) - 1 /\ Sorted(S) \in Seq(S) /\ Len(Sorted(S)) = Cardinality(S)
  BY SortedIsIt
<1>3. Sorted(S) # <<>>
  BY <1>2
<1>4. IsLevel(leaves) /\ Size(leaves) = Cardinality(S)
  BY <1>2, <1>3, LeavesAreLevel DEF CanonicalLeaves
<1> HIDE DEF k, leaves
<1>5. PICK m \in Nat : DOMAIN InclusionProof(S, k) = 1..m
  BY <1>2, <1>4, ProofIsSeq DEF InclusionProof, leaves
<1> QED
  BY <1>1, <1>5, NothingElseIsProven

-----------------------------------------------------------------------------
(* The history and what is fetched of it. *)

InOrder(L) == \A i, j \in 1..Len(L) : i <= j => L[i].time <= L[j].time

\* What is not older than something recent is recent.
LEMMA NotOlder ==
  ASSUME NEW a \in Nat, NEW b \in Nat, NEW lo \in Int, a <= b, a >= lo
  PROVE  b >= lo
  OBVIOUS

\* A set of naturals below a bound has a greatest element.
LEMMA LargestNat ==
  ASSUME NEW n \in Nat, NEW S, S \subseteq 0..n, S # {}
  PROVE  \E x \in S : \A y \in S : y <= x
<1> DEFINE Below == {n - x : x \in S}
<1>1. Below \subseteq Nat /\ Below # {}
  <2>1. \A x \in S : n - x \in Nat
    OBVIOUS
  <2>2. \E x \in S : TRUE
    OBVIOUS
  <2> QED
    BY <2>1, <2>2, Zenon
<1>2. PICK d \in Below : \A e \in Below : d <= e
  BY <1>1, SmallestNat
<1>3. PICK x \in S : d = n - x
  OBVIOUS
<1>4. \A y \in S : n - y \in Below
  OBVIOUS
<1>5. S \subseteq Nat
  OBVIOUS
<1> HIDE DEF Below
<1>6. \A y \in S : d <= n - y
  BY <1>2, <1>4
<1> QED
  BY <1>3, <1>5, <1>6

\* Pages are read until one goes back past lo, so they reach every signature that is
\* not older than lo and not beyond the last page allowed.
LEMMA PagesReach ==
  ASSUME NEW L \in Seq(Transaction), InOrder(L), NEW h \in 0..Len(L), NEW lo \in Int,
         NEW i \in 1..h, i > h - Pages * PageSize, L[i].time >= lo
  PROVE  i \in Reached(L, h, lo)
<1> USE PagingAssumption
<1> DEFINE Q == {q \in 1..Pages : i > h - q * PageSize}
<1>1. Pages \in Q
  OBVIOUS
<1>2. Q \subseteq Nat
  OBVIOUS
<1>3. PICK q \in Q : \A r \in Q : q <= r
  BY <1>1, <1>2, SmallestNat
<1>4. ASSUME NEW p \in 1 .. q-1 PROVE More(L, h, lo, p)
  <2>1. p \in 1..Pages /\ p \notin Q /\ p \in Nat
    BY <1>3
  <2>2. p * PageSize \in Nat /\ p * PageSize >= 1
    BY <2>1
  <2> DEFINE d == p * PageSize
  <2>3. ~(i > h - d)
    BY <2>1
  <2> HIDE DEF d
  <2>4. d \in Nat /\ d >= 1
    BY <2>2 DEF d
  <2>5. Len(L) \in Nat /\ h - d >= 1 /\ h - d + 1 \in 1..Len(L) /\ i <= h - d + 1 /\ i \in 1..Len(L)
    BY <2>3, <2>4
  <2>6. L[i].time <= L[h - d + 1].time /\ L[i].time \in Nat /\ L[h - d + 1].time \in Nat
    <3>1. L[i] \in Transaction /\ L[h - d + 1] \in Transaction
      BY <2>5, ElementOfSeq
    <3> QED
      BY <2>5, <3>1, Zenon DEF InOrder, Transaction
  <2>7. L[h - d + 1].time >= lo
    BY <2>6, NotOlder, Zenon
  <2> QED
    BY <2>5, <2>7 DEF More, Bottom, d
<1> QED
  BY <1>3, <1>4 DEF Reached


-----------------------------------------------------------------------------
(* The inductive invariant. *)

LogInOrder ==
  /\ log \in Seq(Transaction) /\ now \in Nat
  /\ InOrder(log)
  /\ \A i \in 1..Len(log) : log[i].time <= now

Happened == {i \in 1..Len(log) : log[i].ok}

\* What is recorded and what a call has read of it happened, and the root is its root.
RecordHolds ==
  /\ file.observations \in Seq(Happened) /\ file.root = RootOf(file.observations)
  /\ run \in [Runs -> [at : {"ready", "fetching", "done"}, read : Seq(Happened)]]

\* An honest claim has all of its window that its node had and the pages reached.
ClaimHolds ==
  claim # NoClaim =>
    /\ claim.from \in Nat /\ claim.to \in Nat /\ claim.head \in 0..Len(log)
    /\ claim.obs \in SUBSET (1..Len(log)) /\ claim.obs # {}
    /\ claim.head > 0 =>
         \A i \in 1..claim.head :
           log[i].ok /\ InWindow(i) /\ i > claim.head - Pages * PageSize => i \in claim.obs

\* The claim lacks a closed-market update of its window.
Lacks(i) == i \in Happened /\ IsClosed(i) /\ InWindow(i) /\ i \notin claim.obs

VerdictHolds ==
  accused # NoProof =>
    /\ claim # NoClaim
    /\ accused.proven => Lacks(accused.witness)
    /\ accused.source = "claim" /\ ~accused.proven /\ claim.root = MerkleRoot(claim.obs)
         => Omitted(accused.canonical) = {}

IInv == LogInOrder /\ RecordHolds /\ ClaimHolds /\ VerdictHolds

LEMMA TimesType ==
  ASSUME LogInOrder
  PROVE  Len(log) \in Nat /\ \A i \in 1..Len(log) : log[i].time \in 0..now
<1>1. \A i \in 1..Len(log) : log[i] \in Transaction
  BY DEF LogInOrder
<1>2. \A i \in 1..Len(log) : log[i].time \in Nat
  BY <1>1, Zenon DEF Transaction
<1> QED
  BY <1>2 DEF LogInOrder

\* What is fetched happened, in the window asked for.
LEMMA FetchType ==
  ASSUME LogInOrder, NEW h \in Heads, NEW lo, NEW hi
  PROVE  LET obs == FetchObservations(log, h, lo, hi)
         IN /\ h \in 0..Len(log) /\ 1..h \subseteq 1..Len(log)
            /\ obs = Between(log, Reached(log, h, lo), lo, hi)
            /\ Reached(log, h, lo) \subseteq 1..h
            /\ obs \in SUBSET Happened /\ obs \in SUBSET Nat /\ IsFiniteSet(obs)
<1> DEFINE obs == FetchObservations(log, h, lo, hi)
<1>1. h \in 0..Len(log) /\ Len(log) \in Nat
  BY TimesType DEF Heads
<1>2. 1..h \subseteq 1..Len(log) /\ Reached(log, h, lo) \subseteq 1..h
  BY <1>1 DEF Reached
<1>3. obs = Between(log, Reached(log, h, lo), lo, hi)
  BY DEF FetchObservations
<1> HIDE DEF obs
<1>4. obs \in SUBSET Happened /\ obs \in SUBSET (1..Len(log))
  BY <1>2, <1>3 DEF Between, Happened
<1>5. IsFiniteSet(obs)
  <2>1. IsFiniteSet(1..Len(log))
    BY <1>1, FS_Interval
  <2> QED
    BY <1>4, <2>1, FS_Subset
<1> QED
  BY <1>1, <1>2, <1>3, <1>4, <1>5 DEF obs

\* What the recorder appends happened.
LEMMA FreshType ==
  ASSUME LogInOrder, NEW h \in Heads, NEW seen
  PROVE  Fresh(seen, h) \in Seq(Happened)
<1> DEFINE obs == FetchObservations(log, h, now - HoursBack, now)
           S == {i \in obs : i \notin Range(seen) /\ IsClosed(i)}
<1>1. obs \in SUBSET Happened /\ obs \in SUBSET Nat /\ IsFiniteSet(obs)
  BY FetchType
<1> HIDE DEF obs
<1>2. S \in SUBSET obs
  OBVIOUS
<1>3. Fresh(seen, h) = Sorted(S)
  BY DEF Fresh, obs
<1> HIDE DEF S
<1>4. S \in SUBSET Nat /\ IsFiniteSet(S) /\ S \in SUBSET Happened
  BY <1>1, <1>2, FS_Subset
<1>5. Sorted(S) \in Seq(S)
  BY <1>4, SortedIsIt
<1> QED
  BY <1>3, <1>4, <1>5, SeqMonotonic

LEMMA InitIInv == Init => IInv
<1> SUFFICES ASSUME Init PROVE IInv
  OBVIOUS
<1>1. LogInOrder
  BY DEF Init, RecorderInit, LogInOrder, InOrder
<1>2. LeavesOf(<<>>) = <<>>
  BY DEF LeavesOf
<1>3. RecordHolds
  BY <1>2 DEF Init, RecorderInit, RecordHolds, RootOf, RootOfLeaves
<1> QED
  BY <1>1, <1>3 DEF Init, IInv, ClaimHolds, VerdictHolds

\* An update is the last of the history, and whatever was recorded or claimed before it
\* stays as true.
LEMMA UpdateIInv == IInv /\ accused = NoProof /\ Update /\ UNCHANGED <<claim, accused>> => IInv'
<1> SUFFICES ASSUME IInv, accused = NoProof, Update, UNCHANGED <<claim, accused>>
             PROVE  IInv'
  OBVIOUS
<1>1. PICK tx \in Transaction : tx.time = now /\ log' = Append(log, tx)
  <2>1. PICK ok \in BOOLEAN : log' = Append(log, [time |-> now, ok |-> ok])
    BY DEF Update
  <2>2. [time |-> now, ok |-> ok] \in Transaction
    BY Zenon DEF IInv, LogInOrder, Transaction
  <2> QED
    BY <2>1, <2>2
<1>2. /\ Len(log) \in Nat /\ Len(log') = Len(log) + 1 /\ log'[Len(log) + 1] = tx
      /\ \A i \in 1..Len(log) : log'[i] = log[i]
      /\ log' \in Seq(Transaction)
  BY <1>1 DEF IInv, LogInOrder
<1>3. LogInOrder'
  <2>1. \A i \in 1..Len(log') : log'[i].time <= now
    BY <1>1, <1>2 DEF IInv, LogInOrder
  <2>2. InOrder(log')
    <3> SUFFICES ASSUME NEW i \in 1..Len(log'), NEW j \in 1..Len(log'), i <= j
                 PROVE  log'[i].time <= log'[j].time
      BY DEF InOrder
    <3>1. CASE j = Len(log) + 1
      BY <1>1, <1>2, <2>1, <3>1
    <3>2. CASE j # Len(log) + 1
      BY <1>2, <3>2 DEF IInv, LogInOrder, InOrder
    <3> QED
      BY <3>1, <3>2
  <2> QED
    BY <1>2, <2>1, <2>2 DEF IInv, LogInOrder, Update
<1>4. 1..Len(log) \subseteq 1..Len(log')
  BY <1>2
<1>5. Happened \subseteq Happened'
  BY <1>2, <1>4 DEF Happened
<1>6. RecordHolds'
  <2>1. Seq(Happened) \subseteq Seq(Happened')
    BY <1>5, SeqMonotonic
  <2> QED
    BY <2>1 DEF Update, IInv, RecordHolds
<1>7. ClaimHolds'
  <2> SUFFICES ASSUME claim # NoClaim
               PROVE  ClaimHolds'
    BY DEF ClaimHolds
  <2>1. /\ claim.from \in Nat /\ claim.to \in Nat /\ claim.head \in 0..Len(log)
        /\ claim.obs \in SUBSET (1..Len(log)) /\ claim.obs # {}
    BY DEF IInv, ClaimHolds
  <2>2. claim.head \in 0..Len(log') /\ 1..claim.head \subseteq 1..Len(log)
    BY <1>2, <2>1
  <2>3. \A i \in 1..claim.head : log'[i] = log[i] /\ (InWindow(i)' <=> InWindow(i))
    BY <1>2, <2>2 DEF InWindow
  <2> QED
    BY <1>4, <2>1, <2>2, <2>3 DEF IInv, ClaimHolds
<1>8. VerdictHolds'
  BY DEF VerdictHolds
<1> QED
  BY <1>3, <1>6, <1>7, <1>8 DEF IInv

\* Time passing changes nothing that was said.
LEMMA TickIInv == IInv /\ Tick /\ UNCHANGED <<claim, accused>> => IInv'
<1> SUFFICES ASSUME IInv, Tick, UNCHANGED <<claim, accused>> PROVE IInv'
  OBVIOUS
<1>1. log' = log /\ file' = file /\ run' = run /\ now' = now + 1
  BY DEF Tick
<1>2. LogInOrder'
  <2>1. \A i \in 1..Len(log) : log[i].time <= now'
    BY <1>1, TimesType DEF IInv, LogInOrder
  <2> QED
    BY <1>1, <2>1 DEF IInv, LogInOrder
<1>3. Happened' = Happened
  BY <1>1 DEF Happened
<1>4. \A i : /\ InWindow(i)' <=> InWindow(i)
             /\ Lacks(i)' <=> Lacks(i)
  BY <1>1, <1>3 DEF InWindow, Lacks, IsClosed
<1>5. \A S : Omitted(S)' = Omitted(S)
  BY <1>1 DEF InWindow, Omitted, IsClosed
<1>6. RecordHolds' /\ ClaimHolds' /\ VerdictHolds'
  BY <1>1, <1>3, <1>4, <1>5 DEF IInv, RecordHolds, ClaimHolds, VerdictHolds
<1> QED
  BY <1>2, <1>6 DEF IInv

\* Steps of the recorder leave the history, the claim and the verdict alone.
LEMMA RecorderKeeps ==
  ASSUME IInv, UNCHANGED <<log, now, claim, accused>>, RecordHolds'
  PROVE  IInv'
<1>1. LogInOrder'
  BY DEF IInv, LogInOrder
<1>2. Happened' = Happened
  BY DEF Happened
<1>3. \A i : /\ InWindow(i)' <=> InWindow(i)
             /\ Lacks(i)' <=> Lacks(i)
  BY <1>2 DEF InWindow, Lacks, IsClosed
<1>4. \A S : Omitted(S)' = Omitted(S)
  BY DEF InWindow, Omitted, IsClosed
<1>5. ClaimHolds' /\ VerdictHolds'
  BY <1>3, <1>4 DEF IInv, ClaimHolds, VerdictHolds
<1> QED
  BY <1>1, <1>5 DEF IInv

\* What a call reads was recorded.
LEMMA LoadIInv ==
  ASSUME IInv, NEW r \in Runs, Load(r), UNCHANGED <<claim, accused>>
  PROVE  IInv'
<1>1. Happened' = Happened
  BY DEF Load, Happened
<1>2. RecordHolds'
  <2>1. file' = file /\ file.observations \in Seq(Happened)
    BY DEF Load, IInv, RecordHolds
  <2>2. [at |-> "fetching", read |-> file.observations]
          \in [at : {"ready", "fetching", "done"}, read : Seq(Happened)]
    BY <2>1
  <2>3. run' \in [Runs -> [at : {"ready", "fetching", "done"}, read : Seq(Happened)]]
    BY <2>2, Zenon DEF Load, IInv, RecordHolds
  <2> QED
    BY <1>1, <2>1, <2>3 DEF IInv, RecordHolds
<1> QED
  BY <1>2, RecorderKeeps DEF Load

\* A call that is over has read what it had read.
LEMMA DoneType ==
  ASSUME RecordHolds, NEW r \in Runs, run' = [run EXCEPT ![r].at = "done"]
  PROVE  run' \in [Runs -> [at : {"ready", "fetching", "done"}, read : Seq(Happened)]]
<1>1. run[r] \in [at : {"ready", "fetching", "done"}, read : Seq(Happened)]
  BY DEF RecordHolds
<1>2. [run[r] EXCEPT !.at = "done"]
        \in [at : {"ready", "fetching", "done"}, read : Seq(Happened)]
  BY <1>1
<1> QED
  BY <1>2 DEF RecordHolds

LEMMA RecordIInv ==
  ASSUME IInv, NEW r \in Runs, Record(r), UNCHANGED <<claim, accused>>
  PROVE  IInv'
<1>1. Happened' = Happened
  BY DEF Record, Happened
<1>2. PICK h \in Heads : Save(Recorded(run[r].read, h))
  BY DEF Record
<1>3. run[r].read \in Seq(Happened) /\ Fresh(run[r].read, h) \in Seq(Happened)
  BY FreshType DEF IInv, RecordHolds
<1>4. Recorded(run[r].read, h) \in Seq(Happened)
  BY <1>3, ConcatProperties DEF Recorded, Appended
<1>5. file'.observations = Recorded(run[r].read, h) /\ file'.root = RootOf(Recorded(run[r].read, h))
  BY <1>2 DEF Save
<1>6. run' \in [Runs -> [at : {"ready", "fetching", "done"}, read : Seq(Happened)]]
  BY DoneType DEF Record, IInv
<1>7. RecordHolds'
  BY <1>1, <1>4, <1>5, <1>6 DEF RecordHolds
<1> QED
  BY <1>7, RecorderKeeps DEF Record

LEMMA FailsIInv ==
  ASSUME IInv, NEW r \in Runs, Fails(r), UNCHANGED <<claim, accused>>
  PROVE  IInv'
<1>1. Happened' = Happened
  BY DEF Fails, Happened
<1>2. run' \in [Runs -> [at : {"ready", "fetching", "done"}, read : Seq(Happened)]]
  BY DoneType DEF Fails, IInv
<1>3. RecordHolds'
  BY <1>1, <1>2 DEF Fails, IInv, RecordHolds
<1> QED
  BY <1>3, RecorderKeeps DEF Fails

LEMMA RecorderIInv ==
  ASSUME IInv, accused = NoProof, RecorderNext, UNCHANGED <<claim, accused>>
  PROVE  IInv'
<1>1. CASE Update
  BY <1>1, UpdateIInv
<1>2. CASE Tick
  BY <1>2, TickIInv
<1>3. CASE \E r \in Runs : Load(r) \/ Record(r) \/ Fails(r)
  BY <1>3, LoadIInv, RecordIInv, FailsIInv
<1> QED
  BY <1>1, <1>2, <1>3 DEF RecorderNext

-----------------------------------------------------------------------------
(* Claims and proofs. *)

\* A claim made on the history as it is.
LEMMA ClaimIInv ==
  ASSUME IInv, claim = NoClaim, UNCHANGED <<log, now, file, run, accused>>, ClaimHolds'
  PROVE  IInv'
<1>1. LogInOrder'
  BY DEF IInv, LogInOrder
<1>2. Happened' = Happened
  BY DEF Happened
<1>3. RecordHolds'
  BY <1>2 DEF IInv, RecordHolds
<1>4. VerdictHolds'
  BY DEF IInv, VerdictHolds
<1> QED
  BY <1>1, <1>3, <1>4 DEF IInv

\* The window of an honest claim is pinned within the one it fetched.
LEMMA WindowIsPinned ==
  ASSUME NEW n \in Nat, NEW times, times \subseteq 0..n, times # {}
  PROVE  Min(times) \in times /\ Max(times) \in times
<1>1. \E t \in times : \A u \in times : t <= u
  <2>1. times \subseteq Nat
    OBVIOUS
  <2> QED
    BY <2>1, SmallestNat
<1>2. \E t \in times : \A u \in times : t >= u
  BY LargestNat
<1> QED
  BY <1>1, <1>2 DEF Min, Max

LEMMA EmitIInv == IInv /\ Emit => IInv'
<1> SUFFICES ASSUME IInv, Emit PROVE IInv'
  OBVIOUS
<1> DEFINE lo == now - Trailing
           Obs(h) == FetchObservations(log, h, lo, now)
<1>1. PICK h \in Heads :
        /\ Obs(h) # {}
        /\ claim' = [from |-> Min(TimesOf(log, Obs(h))), to |-> Max(TimesOf(log, Obs(h))),
                     obs |-> Obs(h), root |-> MerkleRoot(Obs(h)), head |-> h]
  BY DEF Emit
<1> DEFINE obs == Obs(h)
           times == TimesOf(log, obs)
           from == Min(times)
           to == Max(times)
<1>2. lo \in Int /\ now \in Nat
  BY TrailingAssumption DEF IInv, LogInOrder
<1>3. /\ h \in 0..Len(log) /\ 1..h \subseteq 1..Len(log)
      /\ obs = Between(log, Reached(log, h, lo), lo, now)
      /\ Reached(log, h, lo) \subseteq 1..h
      /\ obs \in SUBSET Happened
      /\ \A i \in 1..Len(log) : log[i].time \in 0..now
  BY FetchType, TimesType DEF IInv
<1>4. obs \in SUBSET (1..h) /\ obs \in SUBSET (1..Len(log))
  <2> HIDE DEF obs, lo
  <2> QED
    BY <1>3 DEF Between
<1>5. /\ times \subseteq 0..now /\ times # {}
      /\ \A t \in times : lo <= t
  <2> HIDE DEF lo
  <2>1. \A i \in obs : log[i].time \in 0..now /\ lo <= log[i].time
    BY <1>3, <1>4 DEF Between
  <2> HIDE DEF obs
  <2> QED
    BY <1>1, <2>1 DEF obs, TimesOf
<1>6. from \in times /\ to \in times
  <2> HIDE DEF times
  <2> QED
    BY <1>2, <1>5, WindowIsPinned
<1>7. from \in Nat /\ to \in Nat /\ lo <= from /\ to <= now
  <2> HIDE DEF from, to, times, lo
  <2> QED
    BY <1>5, <1>6
<1>8. /\ claim'.from = from /\ claim'.to = to /\ claim'.obs = obs /\ claim'.head = h
  BY <1>1
<1> HIDE DEF from, to, times, lo, Obs, obs
<1>9. obs # {}
  BY <1>1 DEF obs
<1>10. ASSUME NEW i \in 1..h, log[i].ok, from <= log[i].time, log[i].time <= to,
              i > h - Pages * PageSize
       PROVE  i \in obs
  <2>1. log[i].time \in 0..now
    BY <1>3
  <2>2. log[i].time >= lo /\ log[i].time <= now
    BY <1>2, <1>7, <1>10, <2>1
  <2>3. i \in Reached(log, h, lo)
    BY <1>2, <1>3, <1>10, <2>2, PagesReach DEF IInv, LogInOrder
  <2> QED
    BY <1>2, <1>3, <1>10, <2>1, <2>2, <2>3 DEF Between
<1>11. ClaimHolds'
  <2>1. UNCHANGED log
    BY DEF Emit
  <2> QED
    BY <1>3, <1>4, <1>7, <1>8, <1>9, <1>10, <2>1 DEF ClaimHolds, InWindow
<1> QED
  BY <1>11, ClaimIInv DEF Emit

\* Any other claim promises nothing.
LEMMA EmitOtherIInv == IInv /\ EmitOther => IInv'
<1> SUFFICES ASSUME IInv, EmitOther PROVE IInv'
  OBVIOUS
<1>1. PICK from \in 0..now, to \in 0..now, obs \in SUBSET (1..Len(log)) :
        /\ obs # {}
        /\ \E root : claim' = [from |-> from, to |-> to, obs |-> obs,
                              root |-> root, head |-> 0]
  BY DEF EmitOther
<1>2. /\ claim'.from \in Nat /\ claim'.to \in Nat /\ claim'.obs \in SUBSET (1..Len(log))
      /\ claim'.obs # {} /\ claim'.head = 0 /\ log' = log /\ Len(log) \in Nat
  BY <1>1, TimesType DEF EmitOther, IInv
<1>3. ClaimHolds'
  BY <1>2 DEF ClaimHolds
<1> QED
  BY <1>3, ClaimIInv DEF EmitOther

\* A verdict on the claim as it is.
LEMMA VerdictIInv ==
  ASSUME IInv, claim # NoClaim, UNCHANGED <<log, now, file, run, claim>>,
         VerdictHolds'
  PROVE  IInv'
<1>1. LogInOrder'
  BY DEF IInv, LogInOrder
<1>2. Happened' = Happened
  BY DEF Happened
<1>3. RecordHolds'
  BY <1>2 DEF IInv, RecordHolds
<1>4. \A i : InWindow(i)' <=> InWindow(i)
  BY DEF InWindow
<1>5. ClaimHolds'
  BY <1>4 DEF IInv, ClaimHolds
<1> QED
  BY <1>1, <1>3, <1>5 DEF IInv

\* Offered a proof, the verdict is what verifyFraudProof finds.
LEMMA OfferIInv ==
  ASSUME IInv, claim # NoClaim, NEW proof, NEW canonical, NEW source,
         Offer(proof, canonical, source),
         VerifyFraudProof(proof) => proof.witness \in Happened,
         source = "claim" /\ claim.root = MerkleRoot(claim.obs) => VerifyFraudProof(proof)
  PROVE  IInv'
<1>1. /\ accused'.witness = proof.witness /\ accused'.source = source
      /\ accused'.proven = VerifyFraudProof(proof)
      /\ UNCHANGED <<log, now, file, run, claim>>
  BY DEF Offer
<1>2. VerifyFraudProof(proof) => Lacks(proof.witness)
  BY DEF VerifyFraudProof, Checks, Lacks
<1>3. Lacks(accused.witness)' <=> Lacks(proof.witness)
  BY <1>1 DEF Lacks, Happened, InWindow, IsClosed
<1>4. accused'.proven => Lacks(accused.witness)'
  BY <1>1, <1>2, <1>3, Zenon
<1>5. accused'.source = "claim" /\ claim'.root = MerkleRoot(claim'.obs) => accused'.proven
  BY <1>1, Zenon
<1>6. VerdictHolds'
  <2>1. claim' # NoClaim
    BY <1>1
  <2> QED
    BY <1>4, <1>5, <2>1, Zenon DEF VerdictHolds
<1> QED
  BY <1>1, <1>6, VerdictIInv

\* An omission, offered against a claim whose root is that of its observations, is
\* found proven: the root of a set with the witness is not the root of one without.
LEMMA AccuseIInv == IInv /\ Accuse => IInv'
<1> SUFFICES ASSUME IInv, Accuse PROVE IInv'
  OBVIOUS
<1>1. PICK h \in Heads, w \in {<<claim.from, claim.to>>, <<now - Trailing, now>>} :
        /\ Omitted(FetchObservations(log, h, w[1], w[2])) # {}
        /\ Offer(ProveOmission(FetchObservations(log, h, w[1], w[2])),
                 FetchObservations(log, h, w[1], w[2]), "claim")
  BY DEF Accuse
<1> DEFINE canonical == FetchObservations(log, h, w[1], w[2])
           witness == Min(Omitted(canonical))
           proof == ProveOmission(canonical)
<1>2. canonical \in SUBSET Happened /\ canonical \in SUBSET Nat /\ IsFiniteSet(canonical)
  BY FetchType DEF IInv
<1>3. Omitted(canonical) # {} /\ Offer(proof, canonical, "claim") /\ claim # NoClaim
  BY <1>1 DEF Accuse
<1> HIDE DEF canonical
<1>4. witness \in Omitted(canonical)
  <2>1. Omitted(canonical) \subseteq Nat
    BY <1>2 DEF Omitted
  <2>2. \E x \in Omitted(canonical) : \A y \in Omitted(canonical) : x <= y
    BY <1>3, <2>1, SmallestNat
  <2> QED
    BY <2>2 DEF Min
<1> HIDE DEF witness
<1>5. /\ witness \in canonical /\ witness \notin claim.obs
      /\ InWindow(witness) /\ IsClosed(witness)
  BY <1>4 DEF Omitted
<1>6. /\ proof.witness = witness /\ proof.claim_root = claim.root
      /\ proof.canonical_root = MerkleRoot(canonical)
      /\ proof.inclusion = InclusionProof(canonical, IndexOf(canonical, witness))
  BY DEF ProveOmission, witness
<1> HIDE DEF proof
<1>7. VerifyInclusion(proof.canonical_root, LeafHash(proof.witness), proof.inclusion)
  BY <1>2, <1>5, <1>6, MembersAreProven
<1>8. ASSUME claim.root = MerkleRoot(claim.obs)
      PROVE  MerkleRoot(canonical) # claim.root
  <2>1. claim.obs \in SUBSET (1..Len(log)) /\ claim.obs # {} /\ Len(log) \in Nat
    BY <1>3, TimesType DEF IInv, ClaimHolds
  <2>2. IsFiniteSet(1..Len(log))
    BY <2>1, FS_Interval
  <2>3. IsFiniteSet(claim.obs) /\ claim.obs \in SUBSET Nat
    BY <2>1, <2>2, FS_Subset
  <2> SUFFICES ASSUME MerkleRoot(canonical) = MerkleRoot(claim.obs)
               PROVE  FALSE
    BY <1>8
  <2>4. witness \in claim.obs
    BY <1>2, <1>5, <2>1, <2>3, RootsTell
  <2> QED
    BY <1>5, <2>4
<1>9. claim.root = MerkleRoot(claim.obs) => VerifyFraudProof(proof)
  BY <1>5, <1>6, <1>7, <1>8 DEF VerifyFraudProof, Checks
<1>10. proof.witness \in Happened
  BY <1>2, <1>5, <1>6
<1> QED
  BY <1>3, <1>9, <1>10, OfferIInv

\* No proof is offered when nothing was omitted.
LEMMA FindNothingIInv == IInv /\ FindNothing => IInv'
<1> SUFFICES ASSUME IInv, FindNothing PROVE IInv'
  OBVIOUS
<1>1. PICK canonical : /\ Omitted(canonical) = {}
                       /\ accused' = [witness |-> 0, canonical |-> canonical,
                                      source |-> "claim", proven |-> FALSE]
  BY DEF FindNothing
<1>2. claim # NoClaim /\ UNCHANGED <<log, now, file, run, claim>>
  BY DEF FindNothing
<1>3. Omitted(accused.canonical)' = {}
  BY <1>1, <1>2 DEF Omitted, InWindow, IsClosed
<1>4. VerdictHolds'
  BY <1>1, <1>2, <1>3 DEF VerdictHolds
<1> QED
  BY <1>2, <1>4, VerdictIInv

\* Anchored to the recorder's root, only what it recorded is included.
LEMMA AnchoredIInv == IInv /\ AccuseAnchored => IInv'
<1> SUFFICES ASSUME IInv, AccuseAnchored PROVE IInv'
  OBVIOUS
<1> DEFINE Proof(i, witness) ==
             [witness |-> witness, claim_root |-> claim.root, canonical_root |-> file.root,
              inclusion |-> ProofForLeaves(LeavesOf(file.observations), i - 1)]
<1>1. PICK i \in 1..Len(file.observations), witness \in 1..Len(log) :
        Offer(Proof(i, witness), Range(file.observations), "record")
  BY DEF AccuseAnchored
<1> DEFINE proof == Proof(i, witness)
<1>2. file.observations \in Seq(Happened) /\ file.root = RootOf(file.observations)
  BY DEF IInv, RecordHolds
<1>3. /\ proof.witness = witness /\ proof.canonical_root = file.root
      /\ proof.inclusion = ProofForLeaves(LeavesOf(file.observations), i - 1)
  OBVIOUS
<1>4. Offer(proof, Range(file.observations), "record") /\ claim # NoClaim
  BY <1>1 DEF AccuseAnchored
<1> HIDE DEF proof
<1>5. ASSUME VerifyFraudProof(proof)
      PROVE  proof.witness \in Happened
  <2>1. VerifyInclusion(proof.canonical_root, LeafHash(proof.witness), proof.inclusion)
    BY <1>5 DEF VerifyFraudProof, Checks
  <2>2. VerifyInclusion(RootOf(file.observations), LeafHash(witness),
                        ProofForLeaves(LeavesOf(file.observations), i - 1))
    BY <1>2, <1>3, <2>1
  <2>3. witness = file.observations[i]
    BY <1>2, <2>2, PlaceIsProven
  <2>4. file.observations[i] \in Happened
    BY <1>2, ElementOfSeq
  <2> QED
    BY <1>3, <2>3, <2>4
<1> QED
  BY <1>4, <1>5, OfferIInv

LEMMA NextIInv == IInv /\ [Next]_vars => IInv'
<1> SUFFICES ASSUME IInv, [Next]_vars PROVE IInv'
  OBVIOUS
<1>1. CASE accused = NoProof /\ RecorderNext /\ UNCHANGED <<claim, accused>>
  BY <1>1, RecorderIInv
<1>2. CASE Emit
  BY <1>2, EmitIInv
<1>3. CASE EmitOther
  BY <1>3, EmitOtherIInv
<1>4. CASE Accuse
  BY <1>4, AccuseIInv
<1>5. CASE FindNothing
  BY <1>5, FindNothingIInv
<1>6. CASE AccuseAnchored
  BY <1>6, AnchoredIInv
<1>7. CASE UNCHANGED vars
  <2>1. UNCHANGED <<log, now, file, run, claim, accused>>
    BY <1>7 DEF vars
  <2>2. RecordHolds'
    BY <2>1 DEF IInv, RecordHolds, Happened
  <2> QED
    BY <2>1, <2>2, RecorderKeeps
<1> QED
  BY <1>1, <1>2, <1>3, <1>4, <1>5, <1>6, <1>7 DEF Next

LEMMA SpecIInv == Spec => []IInv
<1> QED
  BY InitIInv, NextIInv, PTL DEF Spec

-----------------------------------------------------------------------------
(* The theorems. *)

\* The record proves itself (`recorder.mjs prove`), however long it is: the proof of
\* each place leads to the root written with it from the observation at that place, and
\* from no other update of the account.
THEOREM RecordProvesItself == Spec => []RootProvesTheLog
<1>1. IInv => RootProvesTheLog
  <2> SUFFICES ASSUME IInv, NEW i \in 1..Len(file.observations), NEW o \in 1..Len(log)
               PROVE  VerifyInclusion(file.root, LeafHash(o),
                                      ProofForLeaves(LeavesOf(file.observations), i - 1))
                        <=> o = file.observations[i]
    BY DEF RootProvesTheLog
  <2>1. file.observations \in Seq(Happened) /\ file.root = RootOf(file.observations)
    BY DEF IInv, RecordHolds
  <2> QED
    BY <2>1, PlaceIsProven
<1> QED
  BY <1>1, SpecIInv, PTL

\* A sequence is a prefix of what is appended to it.
LEMMA PrefixOfConcat ==
  ASSUME NEW S, NEW s \in Seq(S), NEW t \in Seq(S)
  PROVE  IsPrefix(s, s \o t)
<1>1. s \o t \in Seq(S) /\ Len(s \o t) = Len(s) + Len(t) /\ Len(s) \in Nat /\ Len(t) \in Nat
  BY ConcatProperties
<1>2. Len(s) <= Len(s \o t)
  BY <1>1
<1>3. CASE Len(s) = 0
  <2>1. SubSeq(s, 1, 0) = <<>> /\ SubSeq(s \o t, 1, 0) = <<>>
    BY SubSeqEmpty
  <2> QED
    BY <1>2, <1>3, <2>1 DEF IsPrefix
<1>4. CASE Len(s) # 0
  <2>1. 1 \in 1..Len(s) /\ Len(s) \in 1..Len(s)
    BY <1>1, <1>4
  <2>2. SubSeq(s \o t, 1, Len(s)) = SubSeq(s, 1, Len(s))
    BY <2>1, SubSeqOfConcat1
  <2> QED
    BY <1>2, <2>2 DEF IsPrefix
<1> QED
  BY <1>3, <1>4

\* The log is append-only as long as calls do not overlap: what it held stays in its
\* place, and the write of a call that had read an older log keeps at least that one.
THEOREM RecordIsAppendOnly == Spec => LogOnlyGrows
<1> DEFINE Keeps == \/ IsPrefix(file.observations, file.observations')
                    \/ \E r \in Runs : /\ run[r].at = "fetching" /\ run'[r].at = "done"
                                       /\ run[r].read # file.observations
                                       /\ IsPrefix(run[r].read, file'.observations)
<1>1. IInv /\ [Next]_vars => [Keeps]_file
  <2> SUFFICES ASSUME IInv, [Next]_vars, file' # file
               PROVE  Keeps
    OBVIOUS
  <2>1. PICK r \in Runs : Record(r)
    BY DEF Next, RecorderNext, Update, Tick, Load, Fails, Emit, EmitOther, Accuse, FindNothing,
           AccuseAnchored, Offer, vars
  <2>2. PICK h \in Heads : Save(Recorded(run[r].read, h))
    BY <2>1 DEF Record
  <2>3. run[r].read \in Seq(Happened) /\ Fresh(run[r].read, h) \in Seq(Happened)
    BY FreshType DEF IInv, RecordHolds
  <2>4. IsPrefix(run[r].read, file'.observations)
    BY <2>2, <2>3, PrefixOfConcat DEF Save, Recorded, Appended
  <2>5. run[r].at = "fetching" /\ run'[r].at = "done"
    BY <2>1 DEF Record, IInv, RecordHolds
  <2>6. CASE run[r].read = file.observations
    BY <2>4, <2>6
  <2>7. CASE run[r].read # file.observations
    BY <2>4, <2>5, <2>7
  <2> QED
    BY <2>6, <2>7
<1> QED
  BY <1>1, SpecIInv, PTL DEF Spec, LogOnlyGrows

\* An honest claim whose node could see its window lacks nothing.
LEMMA SawAllLacksNothing ==
  ASSUME IInv, claim # NoClaim, NEW w, Lacks(w)
  PROVE  ~SawAll
<1> SUFFICES ASSUME SawAll PROVE FALSE
  OBVIOUS
<1>1. /\ w \in 1..Len(log) /\ log[w].ok /\ InWindow(w) /\ w \notin claim.obs
      /\ claim.from <= log[w].time /\ log[w].time <= claim.to
  BY DEF Lacks, Happened, InWindow
<1>2. /\ claim.to \in Nat /\ claim.head \in 0..Len(log) /\ Len(log) \in Nat
      /\ claim.from \in Nat /\ log[w].time \in Nat
  BY <1>1, TimesType DEF IInv, ClaimHolds
<1>3. w \in 1..claim.head
  <2>1. ~(log[w].time > claim.to)
    BY <1>1, <1>2
  <2>2. ~(w > claim.head)
    BY <1>1, <2>1 DEF SawAll
  <2> QED
    BY <1>1, <1>2, <2>2
<1>4. w > claim.head - Pages * PageSize
  <2>1. log[w].time >= claim.from
    BY <1>1, <1>2
  <2> QED
    BY <1>3, <2>1 DEF SawAll
<1>5. w \in claim.obs
  BY <1>1, <1>3, <1>4 DEF IInv, ClaimHolds, SawAll
<1> QED
  BY <1>1, <1>5

\* verifyFraudProof convicts only of what happened: its witness is an update of the
\* account, of the claim's window and a closed market, that the claim does not have -
\* whatever was embedded under whatever root, and whichever canonical set or record the
\* proof is anchored to.  An honest claim whose node could see its window is safe.
THEOREM ProofsAreTrue == Spec => []ProvenIsOmitted
<1>1. IInv => ProvenIsOmitted
  <2> SUFFICES ASSUME IInv, Proven
               PROVE  /\ accused.witness \in Between(log, 1..Len(log), claim.from, claim.to)
                      /\ IsClosed(accused.witness)
                      /\ accused.witness \notin claim.obs
                      /\ ~SawAll
    BY DEF ProvenIsOmitted
  <2>1. Lacks(accused.witness) /\ claim # NoClaim
    BY DEF IInv, VerdictHolds, Proven
  <2> QED
    BY <2>1, SawAllLacksNothing DEF Lacks, Happened, InWindow, Between
<1> QED
  BY <1>1, SpecIInv, PTL

\* And it misses none: if the challenger's canonical set has a closed-market update of
\* the window that the claim left out, the proof it offers holds, unless the claim's
\* root is not the root of its observations.
THEOREM OmissionsAreProven == Spec => []OmissionIsProven
<1>1. IInv => OmissionIsProven
  <2> SUFFICES ASSUME IInv, accused # NoProof, accused.source = "claim", ~accused.proven,
                      claim.root = MerkleRoot(claim.obs)
               PROVE  \A i \in accused.canonical : IsClosed(i) /\ InWindow(i) => i \in claim.obs
    BY DEF OmissionIsProven
  <2>1. Omitted(accused.canonical) = {}
    BY DEF IInv, VerdictHolds
  <2> QED
    BY <2>1 DEF Omitted
<1> QED
  BY <1>1, SpecIInv, PTL
=============================================================================
