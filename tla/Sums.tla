-------------------------------- MODULE Sums --------------------------------
(***************************************************************************)
(* Induction without a predicate for a parameter, and sums: the folds that *)
(* add up a function over a finite set do so in the order CHOOSE picks the *)
(* members in.  TakeOut shows that the order is of no matter, and the rest *)
(* follows: a sum depends on its summands alone, grows by what is added    *)
(* to the set, and changes by what changes in one place.  At the end, the  *)
(* loops whose turns are a function have runs.                             *)
(***************************************************************************)
EXTENDS Integers, FiniteSets, Functions, FiniteSetTheorems, WellFoundedInduction, TLAPS

-----------------------------------------------------------------------------
(* Induction. *)

\* Every set of naturals that is not empty has a least member.
LEMMA SmallestNat ==
  ASSUME NEW S, S \subseteq Nat, S # {}
  PROVE  \E x \in S : \A y \in S : x <= y
<1> DEFINE R == OpToRel(<, Nat)
<1>1. IsWellFoundedOn(R, Nat)
  BY NatLessThanWellFounded
<1>2. PICK x \in S : \A y \in S : ~(<<y, x>> \in R)
  <2> HIDE DEF R
  <2> QED
    BY <1>1, WFMin
<1>3. \A y \in S : <<y, x>> \in R <=> y < x
  BY SMT DEF OpToRel
<1> HIDE DEF R
<1>4. \A y \in S : ~(y < x)
  BY <1>2, <1>3, Zenon
<1> QED
  BY <1>4

\* Induction, for a set instead of a predicate: the least number outside is neither
\* zero nor a successor.
LEMMA NatByInduction ==
  ASSUME NEW S, 0 \in S, \A n \in Nat : n \in S => n + 1 \in S
  PROVE  Nat \subseteq S
<1> SUFFICES ASSUME Nat \ S # {}
             PROVE  FALSE
  OBVIOUS
<1>1. PICK x \in Nat \ S : \A y \in Nat \ S : x <= y
  <2>1. Nat \ S \subseteq Nat
    OBVIOUS
  <2> QED
    BY <2>1, SmallestNat, Zenon
<1>2. x # 0 /\ x - 1 \in Nat
  BY <1>1
<1>3. x - 1 \in S
  BY <1>1, <1>2
<1> QED
  BY <1>1, <1>2, <1>3

\* SumFunction adds the members of a set one by one, in the order CHOOSE picks them:
\* Adds is the function it takes the value of.
AnyOf(s) == CHOOSE x \in s : TRUE
Adds(w, D) ==
  CHOOSE g : g = [s \in SUBSET D |-> IF s = {} THEN 0 ELSE w[AnyOf(s)] + g[s \ {AnyOf(s)}]]

\* That is what its definition says.
LEMMA SumIsIter == ASSUME NEW w PROVE SumFunction(w) = Adds(w, DOMAIN w)[DOMAIN w]
  BY DEF SumFunction, SumFunctionOnSet, FoldFunctionOnSet, MapThenFoldSet, Adds, AnyOf

\* The equation a sum is defined by, at s.
Adding(w, g, s) == IF s = {} THEN 0 ELSE w[AnyOf(s)] + g[s \ {AnyOf(s)}]

\* The member picked is one.
LEMMA AnyIsIn == ASSUME NEW s, s # {} PROVE AnyOf(s) \in s
  BY DEF AnyOf

\* Without it the set is smaller.
LEMMA OneLess ==
  ASSUME NEW D, IsFiniteSet(D), NEW s \in SUBSET D, s # {}
  PROVE  /\ s \ {AnyOf(s)} \in SUBSET D
         /\ Cardinality(s) \in Nat /\ Cardinality(s \ {AnyOf(s)}) = Cardinality(s) - 1
<1>1. IsFiniteSet(s) /\ AnyOf(s) \in s
  BY FS_Subset, AnyIsIn
<1> QED
  BY <1>1, FS_RemoveElement, FS_CardinalityType

\* A function with these equations exists, as the set is finite: those that hold up to
\* some size extend to the next.
LEMMA IterIsDefined ==
  ASSUME NEW D, IsFiniteSet(D), NEW w
  PROVE  \A s \in SUBSET D : Adds(w, D)[s] = Adding(w, Adds(w, D), s)
<1> DEFINE Good(g, n) == \A s \in SUBSET D : Cardinality(s) <= n => g[s] = Adding(w, g, s)
           Reach == {n \in Nat : \E g : Good(g, n)}
<1>1. \A s \in SUBSET D : Cardinality(s) \in Nat /\ (Cardinality(s) = 0 <=> s = {})
  BY FS_Subset, FS_CardinalityType, FS_EmptySet
<1>2. 0 \in Reach
  <2>1. Good([s \in SUBSET D |-> 0], 0)
    BY <1>1 DEF Adding
  <2> HIDE DEF Good
  <2> QED
    BY <2>1
<1>3. \A n \in Nat : n \in Reach => n + 1 \in Reach
  <2> SUFFICES ASSUME NEW n \in Nat, n \in Reach
               PROVE  n + 1 \in Reach
    OBVIOUS
  <2>1. PICK g : Good(g, n)
    OBVIOUS
  <2> DEFINE h == [s \in SUBSET D |-> IF Cardinality(s) <= n THEN g[s] ELSE Adding(w, g, s)]
  <2>2. ASSUME NEW s \in SUBSET D, Cardinality(s) <= n + 1
        PROVE  h[s] = Adding(w, h, s)
    <3>1. CASE s = {}
      BY <1>1, <2>1, <3>1 DEF Adding
    <3>2. CASE s # {}
      <4>1. /\ s \ {AnyOf(s)} \in SUBSET D
            /\ Cardinality(s) \in Nat /\ Cardinality(s \ {AnyOf(s)}) = Cardinality(s) - 1
        BY <3>2, OneLess
      <4>2. h[s \ {AnyOf(s)}] = g[s \ {AnyOf(s)}]
        BY <2>2, <4>1
      <4>3. h[s] = Adding(w, g, s)
        BY <2>1
      <4> QED
        BY <3>2, <4>2, <4>3 DEF Adding
    <3> QED
      BY <3>1, <3>2
  <2>3. Good(h, n + 1)
    BY <2>2
  <2> HIDE DEF Good, h
  <2> QED
    BY <2>3
<1>4. Cardinality(D) \in Reach
  <2> HIDE DEF Reach
  <2> QED
    BY <1>2, <1>3, NatByInduction, FS_CardinalityType
<1>5. PICK g : Good(g, Cardinality(D))
  BY <1>4
<1> DEFINE f == [s \in SUBSET D |-> g[s]]
<1>6. f = [s \in SUBSET D |-> Adding(w, f, s)]
  <2>1. ASSUME NEW s \in SUBSET D
        PROVE  f[s] = Adding(w, f, s)
    <3>1. g[s] = Adding(w, g, s)
      BY <1>5, FS_Subset
    <3>2. s # {} => s \ {AnyOf(s)} \in SUBSET D
      BY OneLess
    <3> QED
      BY <3>1, <3>2 DEF Adding
  <2> QED
    BY <2>1
<1>7. Adds(w, D) = [s \in SUBSET D |-> Adding(w, Adds(w, D), s)]
  <2>1. \E h : h = [s \in SUBSET D |-> Adding(w, h, s)]
    <3> HIDE DEF f
    <3> QED
      BY <1>6
  <2>2. Adds(w, D) = CHOOSE h : h = [s \in SUBSET D |-> Adding(w, h, s)]
    BY DEF Adds, Adding
  <2> QED
    BY <2>1, <2>2
<1> QED
  BY <1>7

\* The sum of w over D.
Over(w, D) == Adds(w, D)[D]

-----------------------------------------------------------------------------
(* What sums come to. *)

\* Sizes of the parts of a finite set.
LEMMA PartSizes ==
  ASSUME NEW D, IsFiniteSet(D)
  PROVE  \A s \in SUBSET D : Cardinality(s) \in Nat /\ (Cardinality(s) = 0 <=> s = {})
  BY FS_Subset, FS_CardinalityType, FS_EmptySet

\* Sums of integers are integers, and any member may be added last.
LEMMA TakeOut ==
  ASSUME NEW D, IsFiniteSet(D), NEW w, \A e \in D : w[e] \in Int
  PROVE  \A s \in SUBSET D :
           /\ Adds(w, D)[s] \in Int
           /\ \A d \in s : Adds(w, D)[s] = w[d] + Adds(w, D)[s \ {d}]
<1> DEFINE F == Adds(w, D)
           Fits(s) == F[s] \in Int /\ \A d \in s : F[s] = w[d] + F[s \ {d}]
           Reach == {n \in Nat : \A s \in SUBSET D : Cardinality(s) <= n => Fits(s)}
<1>1. \A s \in SUBSET D : Cardinality(s) \in Nat /\ (Cardinality(s) = 0 <=> s = {})
  BY PartSizes
<1>2. \A s \in SUBSET D : F[s] = Adding(w, F, s)
  BY IterIsDefined
<1> HIDE DEF F
<1>3. F[{}] = 0
  BY <1>2, Zenon DEF Adding
<1>4. 0 \in Reach
  <2>1. Fits({})
    BY <1>3
  <2> HIDE DEF Fits
  <2> QED
    BY <1>1, <2>1
<1>5. \A n \in Nat : n \in Reach => n + 1 \in Reach
  <2> SUFFICES ASSUME NEW n \in Nat, n \in Reach,
                      NEW s \in SUBSET D, Cardinality(s) <= n + 1
               PROVE  Fits(s)
    <3> HIDE DEF Fits
    <3> QED
      OBVIOUS
  <2>1. CASE s = {}
    BY <1>3, <2>1
  <2>2. CASE s # {}
    <3> DEFINE a == AnyOf(s)
    <3>1. a \in s /\ s \ {a} \in SUBSET D /\ Cardinality(s) \in Nat
      BY <1>1, <2>2, AnyIsIn
    <3>2. F[s] = w[a] + F[s \ {a}]
      BY <1>2, <2>2 DEF Adding
    <3> HIDE DEF a
    <3>3. ASSUME NEW d \in s
          PROVE  Fits(s \ {d})
      <4>1. Cardinality(s \ {d}) = Cardinality(s) - 1
        BY FS_Subset, FS_RemoveElement
      <4>2. s \ {d} \in SUBSET D /\ Cardinality(s \ {d}) <= n
        BY <3>1, <4>1, <1>1
      <4> HIDE DEF Fits
      <4> QED
        BY <4>2
    <3>4. F[s] \in Int
      <4>1. F[s \ {a}] \in Int /\ w[a] \in Int
        BY <3>1, <3>3
      <4> QED
        BY <3>2, <4>1
    <3>5. ASSUME NEW d \in s
          PROVE  F[s] = w[d] + F[s \ {d}]
      <4>1. CASE d = a
        BY <3>2, <4>1
      <4>2. CASE d # a
        <5>1. (s \ {a}) \ {d} = (s \ {d}) \ {a}
          OBVIOUS
        <5>2. F[s \ {a}] = w[d] + F[(s \ {a}) \ {d}]
          BY <3>1, <3>3, <4>2
        <5>3. F[s \ {d}] = w[a] + F[(s \ {d}) \ {a}] /\ F[s \ {d}] \in Int
          BY <3>1, <3>3, <4>2
        <5>4. a \in s \ {d} /\ Fits((s \ {d}))
          BY <3>1, <3>3, <4>2
        <5>5. w[a] \in Int /\ w[d] \in Int
          BY <3>1
        <5>6. F[(s \ {d}) \ {a}] \in Int
          <6>1. Cardinality((s \ {d}) \ {a}) = Cardinality(s) - 2
            <7>1. Cardinality(s \ {d}) = Cardinality(s) - 1 /\ IsFiniteSet(s \ {d})
              BY FS_Subset, FS_RemoveElement
            <7>2. Cardinality((s \ {d}) \ {a}) = Cardinality(s \ {d}) - 1
              BY <7>1, <5>4, FS_RemoveElement
            <7> QED
              BY <7>1, <7>2, <3>1
          <6>2. (s \ {d}) \ {a} \in SUBSET D /\ Cardinality((s \ {d}) \ {a}) <= n
            BY <6>1, <3>1
          <6> QED
            BY <6>2
        <5> DEFINE rest == F[(s \ {d}) \ {a}]
        <5>7. F[s \ {a}] = w[d] + rest /\ F[s \ {d}] = w[a] + rest /\ rest \in Int
          BY <5>1, <5>2, <5>3, <5>6
        <5> HIDE DEF rest
        <5> QED
          BY <3>2, <5>5, <5>7
      <4> QED
        BY <4>1, <4>2
    <3> QED
      BY <3>4, <3>5
  <2> QED
    BY <2>1, <2>2
<1>6. \A s \in SUBSET D : Fits(s)
  <2> HIDE DEF Fits
  <2>1. \A n \in Nat : n \in Reach
    <3> HIDE DEF Reach
    <3> QED
      BY <1>4, <1>5, NatByInduction
  <2> QED
    BY <1>1, <2>1
<1> QED
  BY <1>6 DEF F

\* A sum over a part depends on the summands of that part alone.
LEMMA SameSummands ==
  ASSUME NEW D, IsFiniteSet(D), NEW E, IsFiniteSet(E), NEW w, NEW x,
         NEW t \in SUBSET D, t \subseteq E, \A e \in t : w[e] = x[e]
  PROVE  Adds(w, D)[t] = Adds(x, E)[t]
<1> DEFINE F == Adds(w, D)
           G == Adds(x, E)
           Reach == {n \in Nat : \A s \in SUBSET t : Cardinality(s) <= n => F[s] = G[s]}
<1>1. \A s \in SUBSET t : Cardinality(s) \in Nat /\ (Cardinality(s) = 0 <=> s = {})
  BY PartSizes, FS_Subset
<1>2. \A s \in SUBSET t : F[s] = Adding(w, F, s) /\ G[s] = Adding(x, G, s)
  BY IterIsDefined
<1> HIDE DEF F, G
<1>3. 0 \in Reach
  <2>1. F[{}] = 0 /\ G[{}] = 0
    BY <1>2, Zenon DEF Adding
  <2> QED
    BY <1>1, <2>1
<1>4. \A n \in Nat : n \in Reach => n + 1 \in Reach
  <2> SUFFICES ASSUME NEW n \in Nat, n \in Reach,
                      NEW s \in SUBSET t, Cardinality(s) <= n + 1
               PROVE  F[s] = G[s]
    OBVIOUS
  <2>1. CASE s = {}
    BY <1>2, <2>1 DEF Adding
  <2>2. CASE s # {}
    <3>1. IsFiniteSet(t)
      BY FS_Subset
    <3>2. /\ s \ {AnyOf(s)} \in SUBSET t
          /\ Cardinality(s) \in Nat /\ Cardinality(s \ {AnyOf(s)}) = Cardinality(s) - 1
      BY <2>2, <3>1, OneLess
    <3>3. AnyOf(s) \in s
      BY <2>2, AnyIsIn
    <3>4. F[s \ {AnyOf(s)}] = G[s \ {AnyOf(s)}]
      BY <3>2
    <3>5. F[s] = w[AnyOf(s)] + F[s \ {AnyOf(s)}] /\ G[s] = x[AnyOf(s)] + G[s \ {AnyOf(s)}]
      BY <1>2, <2>2 DEF Adding
    <3> QED
      BY <3>3, <3>4, <3>5
  <2> QED
    BY <2>1, <2>2
<1>5. F[t] = G[t]
  <2> HIDE DEF Reach
  <2>1. Cardinality(t) \in Reach
    BY <1>1, <1>3, <1>4, NatByInduction
  <2> QED
    BY <1>1, <2>1 DEF Reach
<1> QED
  BY <1>5 DEF F, G

LEMMA OverSame ==
  ASSUME NEW D, IsFiniteSet(D), NEW w, NEW x, \A e \in D : w[e] = x[e]
  PROVE  Over(w, D) = Over(x, D)
  BY SameSummands DEF Over

LEMMA OverNothing == ASSUME NEW w PROVE Over(w, {}) = 0
  BY IterIsDefined, FS_EmptySet, Zenon DEF Over, Adding

LEMMA OverIsInt ==
  ASSUME NEW D, IsFiniteSet(D), NEW w, \A e \in D : w[e] \in Int
  PROVE  Over(w, D) \in Int
  BY TakeOut DEF Over

\* One more summand.
LEMMA OverMore ==
  ASSUME NEW D, IsFiniteSet(D), NEW w, NEW d, d \notin D, \A e \in D \cup {d} : w[e] \in Int
  PROVE  Over(w, D \cup {d}) = Over(w, D) + w[d]
<1> DEFINE E == D \cup {d}
<1>1. /\ IsFiniteSet(E) /\ d \in E /\ E \ {d} = D /\ D \subseteq E
      /\ \A e \in E : w[e] \in Int
  BY FS_AddElement
<1> HIDE DEF E
<1>2. Over(w, E) = w[d] + Adds(w, E)[D] /\ Adds(w, E)[D] \in Int
  <2>1. \A s \in SUBSET E : /\ Adds(w, E)[s] \in Int
                           /\ \A c \in s : Adds(w, E)[s] = w[c] + Adds(w, E)[s \ {c}]
    BY <1>1, TakeOut
  <2>2. E \in SUBSET E /\ D \in SUBSET E
    BY <1>1
  <2>3. Adds(w, E)[E] = w[d] + Adds(w, E)[E \ {d}] /\ Adds(w, E)[D] \in Int
    BY <1>1, <2>1, <2>2
  <2> QED
    BY <1>1, <2>3 DEF Over
<1>3. Adds(w, E)[D] = Over(w, D)
  BY <1>1, SameSummands DEF Over
<1>4. w[d] \in Int
  BY <1>1
<1> QED
  BY <1>2, <1>3, <1>4 DEF E

\* One more summand, in a row of them.
LEMMA OverNext ==
  ASSUME NEW n \in Nat, NEW w, \A i \in 1 .. n + 1 : w[i] \in Int
  PROVE  Over(w, 1 .. n + 1) = Over(w, 1 .. n) + w[n + 1]
<1> DEFINE D == 1 .. n
           d == n + 1
<1>1. D \cup {d} = 1 .. n + 1 /\ d \notin D
  OBVIOUS
<1>2. IsFiniteSet(D)
  BY FS_Interval
<1>3. \A e \in D \cup {d} : w[e] \in Int
  BY <1>1
<1> HIDE DEF D, d
<1>4. Over(w, D \cup {d}) = Over(w, D) + w[d]
  BY <1>1, <1>2, <1>3, OverMore
<1> QED
  BY <1>1, <1>4 DEF D, d

\* A summand that changes changes the sum by as much.
LEMMA OverChanged ==
  ASSUME NEW D, IsFiniteSet(D), NEW w, NEW x, NEW d \in D,
         \A e \in D : w[e] \in Int /\ x[e] \in Int, \A e \in D \ {d} : x[e] = w[e]
  PROVE  Over(x, D) = Over(w, D) - w[d] + x[d]
<1>1. IsFiniteSet(D \ {d}) /\ (D \ {d}) \cup {d} = D /\ d \notin D \ {d}
  BY FS_Subset
<1>2. Over(w, D) = Over(w, D \ {d}) + w[d] /\ Over(x, D) = Over(x, D \ {d}) + x[d]
  <2>1. \A e \in (D \ {d}) \cup {d} : w[e] \in Int /\ x[e] \in Int
    OBVIOUS
  <2>2. /\ Over(w, (D \ {d}) \cup {d}) = Over(w, D \ {d}) + w[d]
        /\ Over(x, (D \ {d}) \cup {d}) = Over(x, D \ {d}) + x[d]
    BY <1>1, <2>1, OverMore
  <2> QED
    BY <1>1, <2>2
<1>3. Over(w, D \ {d}) = Over(x, D \ {d}) /\ Over(w, D \ {d}) \in Int
  BY <1>1, OverSame, OverIsInt
<1> QED
  BY <1>2, <1>3

\* Nothing adds up to nothing.
LEMMA OverZeros ==
  ASSUME NEW D, IsFiniteSet(D), NEW w, \A e \in D : w[e] = 0
  PROVE  Over(w, D) = 0
<1> DEFINE Reach == {n \in Nat : \A s \in SUBSET D : Cardinality(s) <= n => Over(w, s) = 0}
<1>1. \A s \in SUBSET D : Cardinality(s) \in Nat /\ (Cardinality(s) = 0 <=> s = {})
  BY PartSizes
<1>2. 0 \in Reach
  BY <1>1, OverNothing
<1>3. \A n \in Nat : n \in Reach => n + 1 \in Reach
  <2> SUFFICES ASSUME NEW n \in Nat, n \in Reach,
                      NEW s \in SUBSET D, Cardinality(s) <= n + 1
               PROVE  Over(w, s) = 0
    OBVIOUS
  <2>1. CASE s = {}
    BY <2>1, OverNothing
  <2>2. CASE s # {}
    <3>1. PICK d \in s : TRUE
      BY <2>2
    <3>2. /\ IsFiniteSet(s) /\ IsFiniteSet(s \ {d}) /\ Cardinality(s) \in Nat
          /\ Cardinality(s \ {d}) = Cardinality(s) - 1
      BY <1>1, FS_Subset, FS_RemoveElement
    <3>3. Over(w, s \ {d}) = 0
      BY <3>2
    <3>4. (s \ {d}) \cup {d} = s
      OBVIOUS
    <3>5. Over(w, s) = Over(w, s \ {d}) + w[d]
      <4> DEFINE t == s \ {d}
      <4>1. IsFiniteSet(t) /\ t \cup {d} = s /\ d \notin t /\ \A e \in t \cup {d} : w[e] \in Int
        BY <3>2, <3>4
      <4> HIDE DEF t
      <4>2. Over(w, t \cup {d}) = Over(w, t) + w[d]
        BY <4>1, OverMore
      <4> QED
        BY <4>1, <4>2 DEF t
    <3> QED
      BY <3>3, <3>5
  <2> QED
    BY <2>1, <2>2
<1>4. Cardinality(D) \in Reach
  <2> HIDE DEF Reach
  <2> QED
    BY <1>2, <1>3, NatByInduction, FS_CardinalityType
<1> QED
  BY <1>1, <1>4

\* Greater summands, greater sum.
LEMMA OverGrows ==
  ASSUME NEW D, IsFiniteSet(D), NEW w, NEW x,
         \A e \in D : w[e] \in Int /\ x[e] \in Int /\ w[e] <= x[e]
  PROVE  Over(w, D) \in Int /\ Over(x, D) \in Int /\ Over(w, D) <= Over(x, D)
<1> DEFINE Reach == {n \in Nat : \A s \in SUBSET D :
                                   Cardinality(s) <= n => Over(w, s) <= Over(x, s)}
<1>1. \A s \in SUBSET D : Cardinality(s) \in Nat /\ (Cardinality(s) = 0 <=> s = {})
  BY PartSizes
<1>2. \A s \in SUBSET D : Over(w, s) \in Int /\ Over(x, s) \in Int
  BY FS_Subset, OverIsInt
<1>3. 0 \in Reach
  BY <1>1, OverNothing
<1>4. \A n \in Nat : n \in Reach => n + 1 \in Reach
  <2> SUFFICES ASSUME NEW n \in Nat, n \in Reach,
                      NEW s \in SUBSET D, Cardinality(s) <= n + 1
               PROVE  Over(w, s) <= Over(x, s)
    OBVIOUS
  <2>1. CASE s = {}
    BY <2>1, OverNothing
  <2>2. CASE s # {}
    <3>1. PICK d \in s : TRUE
      BY <2>2
    <3> DEFINE t == s \ {d}
    <3>2. /\ IsFiniteSet(s) /\ IsFiniteSet(t) /\ Cardinality(s) \in Nat
          /\ Cardinality(t) = Cardinality(s) - 1
      BY <1>1, FS_Subset, FS_RemoveElement
    <3>3. t \in SUBSET D /\ Cardinality(t) <= n /\ t \cup {d} = s /\ d \notin t
      BY <3>2
    <3> HIDE DEF t
    <3>4. Over(w, t) <= Over(x, t)
      BY <3>3
    <3>5. (\A e \in t \cup {d} : w[e] \in Int) /\ (\A e \in t \cup {d} : x[e] \in Int)
      BY <3>3
    <3>6. Over(w, t \cup {d}) = Over(w, t) + w[d]
      BY <3>2, <3>3, <3>5, OverMore
    <3>9. Over(x, t \cup {d}) = Over(x, t) + x[d]
      BY <3>2, <3>3, <3>5, OverMore
    <3>7. w[d] \in Int /\ x[d] \in Int /\ w[d] <= x[d]
      OBVIOUS
    <3>8. Over(w, t) \in Int /\ Over(x, t) \in Int
      BY <1>2, <3>3
    <3>10. Over(w, s) = Over(w, t) + w[d] /\ Over(x, s) = Over(x, t) + x[d]
      BY <3>3, <3>6, <3>9
    <3> QED
      BY <3>4, <3>7, <3>8, <3>10
  <2> QED
    BY <2>1, <2>2
<1>5. Cardinality(D) \in Reach
  <2> HIDE DEF Reach
  <2> QED
    BY <1>1, <1>3, <1>4, NatByInduction
<1> QED
  BY <1>1, <1>2, <1>5

\* The sum of a whole function, as Functions adds it up.
LEMMA SumChanged ==
  ASSUME NEW D, IsFiniteSet(D), NEW w \in [D -> Int], NEW x \in [D -> Int], NEW d \in D,
         \A e \in D \ {d} : x[e] = w[e]
  PROVE  /\ SumFunction(w) \in Int
         /\ SumFunction(x) = SumFunction(w) - w[d] + x[d]
<1>1. DOMAIN w = D /\ DOMAIN x = D
  OBVIOUS
<1>2. Over(w, D) \in Int /\ Over(x, D) = Over(w, D) - w[d] + x[d]
  BY OverIsInt, OverChanged
<1> QED
  BY <1>1, <1>2, SumIsIter DEF Over

LEMMA SumOfZeros ==
  ASSUME NEW D, IsFiniteSet(D)
  PROVE  SumFunction([d \in D |-> 0]) = 0
  BY OverZeros, SumIsIter DEF Over

\* One more summand, where the provers are told which.
Integral(w, D) == \A e \in D : w[e] \in Int

LEMMA OverAdded ==
  ASSUME NEW D, IsFiniteSet(D), NEW w, NEW d, d \notin D, Integral(w, D \cup {d})
  PROVE  Over(w, D \cup {d}) = Over(w, D) + w[d]
  BY OverMore DEF Integral

\* A finite set is reached from nothing by adding its members, one at a time.
LEMMA SetByInduction ==
  ASSUME NEW D, IsFiniteSet(D), NEW P, {} \in P,
         \A s \in SUBSET D : \A d \in D \ s : s \in P => s \cup {d} \in P
  PROVE  D \in P
<1> DEFINE Reach == {n \in Nat : \A s \in SUBSET D : Cardinality(s) <= n => s \in P}
<1>1. \A s \in SUBSET D : Cardinality(s) \in Nat /\ (Cardinality(s) = 0 <=> s = {})
  BY PartSizes
<1>2. 0 \in Reach
  BY <1>1
<1>3. \A n \in Nat : n \in Reach => n + 1 \in Reach
  <2> SUFFICES ASSUME NEW n \in Nat, n \in Reach,
                      NEW s \in SUBSET D, Cardinality(s) <= n + 1
               PROVE  s \in P
    OBVIOUS
  <2>1. CASE s = {}
    BY <2>1
  <2>2. CASE s # {}
    <3>1. PICK d \in s : TRUE
      BY <2>2
    <3> DEFINE t == s \ {d}
    <3>2. Cardinality(s) \in Nat /\ Cardinality(t) = Cardinality(s) - 1
      BY <1>1, FS_Subset, FS_RemoveElement
    <3>3. t \in SUBSET D /\ Cardinality(t) <= n /\ t \cup {d} = s /\ d \in D \ t
      BY <3>2
    <3> HIDE DEF t
    <3>4. t \in P
      BY <3>3
    <3> QED
      BY <3>3, <3>4
  <2> QED
    BY <2>1, <2>2
<1>4. Cardinality(D) \in Reach
  <2> HIDE DEF Reach
  <2> QED
    BY <1>1, <1>2, <1>3, NatByInduction
<1> QED
  BY <1>1, <1>4

\* One summand.
LEMMA OverOne ==
  ASSUME NEW w, NEW d, w[d] \in Int
  PROVE  Over(w, {d}) = w[d]
<1> DEFINE D == {}
<1>1. IsFiniteSet(D) /\ d \notin D /\ D \cup {d} = {d} /\ Over(w, D) = 0
  BY FS_EmptySet, OverNothing
<1> HIDE DEF D
<1>2. Over(w, D \cup {d}) = Over(w, D) + w[d]
  BY <1>1, OverMore
<1>3. Over(w, {d}) = Over(w, D) + w[d]
  BY <1>1, <1>2, Zenon
<1> QED
  BY <1>1, <1>3

\* Two sets apart.
LEMMA OverUnion ==
  ASSUME NEW A, IsFiniteSet(A), NEW B, IsFiniteSet(B), A \cap B = {}, NEW w,
         \A e \in A \cup B : w[e] \in Int
  PROVE  Over(w, A \cup B) = Over(w, A) + Over(w, B)
<1> DEFINE P == {s \in SUBSET B : Over(w, A \cup s) = Over(w, A) + Over(w, s)}
<1>1. {} \in P
  <2>1. A \cup {} = A /\ Over(w, A) \in Int /\ Over(w, {}) = 0
    BY OverIsInt, OverNothing
  <2> QED
    BY <2>1
<1>2. \A s \in SUBSET B : \A d \in B \ s : s \in P => s \cup {d} \in P
  <2> SUFFICES ASSUME NEW s \in SUBSET B, NEW d \in B \ s, s \in P
               PROVE  Over(w, A \cup (s \cup {d})) = Over(w, A) + Over(w, s \cup {d})
    OBVIOUS
  <2> DEFINE t == A \cup s
  <2>1. IsFiniteSet(s)
    BY FS_Subset
  <2>2. IsFiniteSet(t)
    BY <2>1, FS_Union
  <2>3. d \notin t /\ A \cup (s \cup {d}) = t \cup {d} /\ Over(w, t) = Over(w, A) + Over(w, s)
    OBVIOUS
  <2>4. (\A e \in t \cup {d} : w[e] \in Int) /\ (\A e \in s \cup {d} : w[e] \in Int)
    OBVIOUS
  <2> HIDE DEF t, P
  <2>5. Over(w, t \cup {d}) = Over(w, t) + w[d]
    BY <2>2, <2>3, <2>4, OverMore
  <2>6. Over(w, s \cup {d}) = Over(w, s) + w[d]
    BY <2>1, <2>4, OverMore
  <2>7. w[d] \in Int /\ Over(w, A) \in Int /\ Over(w, s) \in Int
    <3>1. Over(w, s) \in Int
      BY <2>1, <2>4, OverIsInt
    <3>2. Over(w, A) \in Int
      BY OverIsInt
    <3> QED
      BY <2>4, <3>1, <3>2
  <2>8. Over(w, A \cup (s \cup {d})) = Over(w, t) + w[d]
    BY <2>3, <2>5, Zenon
  <2> QED
    BY <2>3, <2>6, <2>7, <2>8
<1>3. B \in P
  <2> HIDE DEF P
  <2> QED
    BY <1>1, <1>2, SetByInduction
<1> QED
  BY <1>3

\* The sum of the sums over the parts is the sum over the whole.
SumsParts(x, F, w, g, R) == \A f \in F : x[f] = Over(w, {r \in R : g[r] = f})

LEMMA OverParts ==
  ASSUME NEW R, IsFiniteSet(R), NEW F, IsFiniteSet(F), NEW g, NEW w, NEW x,
         \A r \in R : g[r] \in F /\ w[r] \in Int, SumsParts(x, F, w, g, R)
  PROVE  Over(x, F) = Over(w, R)
<1> DEFINE Part(s) == {r \in R : g[r] \in s}
           P == {s \in SUBSET F : Over(x, s) = Over(w, Part(s))}
<1>1. {} \in P
  <2>1. Part({}) = {} /\ Over(x, {}) = 0 /\ Over(w, {}) = 0
    BY OverNothing
  <2> QED
    BY <2>1
<1>2. \A s \in SUBSET F : \A d \in F \ s : s \in P => s \cup {d} \in P
  <2> SUFFICES ASSUME NEW s \in SUBSET F, NEW d \in F \ s, s \in P
               PROVE  Over(x, s \cup {d}) = Over(w, Part(s \cup {d}))
    OBVIOUS
  <2> DEFINE A == Part(s)
             B == {r \in R : g[r] = d}
  <2>1. Over(x, s) = Over(w, A) /\ x[d] = Over(w, B)
    BY DEF SumsParts
  <2>2. Part(s \cup {d}) = A \cup B /\ A \cap B = {} /\ \A e \in A \cup B : w[e] \in Int
    OBVIOUS
  <2>3. IsFiniteSet(A) /\ IsFiniteSet(B) /\ IsFiniteSet(s)
    BY FS_Subset
  <2>4. \A f \in s \cup {d} : x[f] \in Int
    <3> SUFFICES ASSUME NEW f \in F
                 PROVE  x[f] \in Int
      OBVIOUS
    <3> DEFINE C == {r \in R : g[r] = f}
    <3>1. IsFiniteSet(C) /\ (\A e \in C : w[e] \in Int) /\ x[f] = Over(w, C)
      BY FS_Subset DEF SumsParts
    <3> HIDE DEF C
    <3> QED
      BY <3>1, OverIsInt
  <2> HIDE DEF A, B, P, Part
  <2>5. Over(w, A \cup B) = Over(w, A) + Over(w, B)
    BY <2>2, <2>3, OverUnion
  <2>6. Over(x, s \cup {d}) = Over(x, s) + x[d]
    <3>1. d \notin s
      OBVIOUS
    <3> QED
      BY <2>3, <2>4, <3>1, OverMore
  <2>7. Over(w, Part(s \cup {d})) = Over(w, A) + Over(w, B)
    BY <2>2, <2>5, Zenon
  <2> QED
    BY <2>1, <2>6, <2>7
<1>3. F \in P
  <2> HIDE DEF P
  <2> QED
    BY <1>1, <1>2, SetByInduction
<1>4. Part(F) = R
  OBVIOUS
<1> QED
  BY <1>3, <1>4

\* Summands that correspond one to one.
Renames(g, R, F, w, x) ==
  /\ \A r \in R : g[r] \in F /\ w[r] \in Int /\ x[g[r]] = w[r]
  /\ \A f \in F : \E r \in R : g[r] = f
  /\ \A r, q \in R : g[r] = g[q] => r = q

LEMMA OverRenamed ==
  ASSUME NEW R, IsFiniteSet(R), NEW F, IsFiniteSet(F), NEW g, NEW w, NEW x,
         Renames(g, R, F, w, x)
  PROVE  Over(x, F) = Over(w, R)
<1> USE DEF Renames
<1>1. ASSUME NEW f \in F
      PROVE  x[f] = Over(w, {r \in R : g[r] = f})
  <2>1. PICK r \in R : g[r] = f
    OBVIOUS
  <2>2. {q \in R : g[q] = f} = {r}
    BY <2>1
  <2>3. Over(w, {r}) = w[r]
    BY OverOne
  <2> QED
    BY <2>1, <2>2, <2>3
<1>2. \A r \in R : g[r] \in F /\ w[r] \in Int
  OBVIOUS
<1>3. SumsParts(x, F, w, g, R)
  BY <1>1 DEF SumsParts
<1> QED
  BY <1>2, <1>3, OverParts

\* Summands that are zero do not count.
LEMMA OverRest ==
  ASSUME NEW D, IsFiniteSet(D), NEW E \in SUBSET D, NEW w, \A e \in D : w[e] \in Int,
         \A e \in D \ E : w[e] = 0
  PROVE  Over(w, D) = Over(w, E)
<1> DEFINE F == D \ E
<1>1. /\ IsFiniteSet(E) /\ IsFiniteSet(F) /\ E \cap F = {} /\ E \cup F = D
      /\ \A e \in E \cup F : w[e] \in Int
  BY FS_Subset
<1>2. Over(w, F) = 0
  <2>1. \A e \in F : w[e] = 0
    OBVIOUS
  <2> HIDE DEF F
  <2> QED
    BY <1>1, <2>1, OverZeros
<1>3. Over(w, E) \in Int
  <2>1. \A e \in E : w[e] \in Int
    OBVIOUS
  <2> QED
    BY <1>1, <2>1, OverIsInt
<1> HIDE DEF F
<1>4. Over(w, E \cup F) = Over(w, E) + Over(w, F)
  BY <1>1, OverUnion
<1>5. Over(w, D) = Over(w, E) + Over(w, F)
  BY <1>1, <1>4, Zenon
<1> QED
  BY <1>2, <1>3, <1>5

\* What is given rather than taken.
LEMMA OverNegative ==
  ASSUME NEW D, IsFiniteSet(D), NEW w, NEW x, \A e \in D : w[e] \in Int /\ x[e] = -w[e]
  PROVE  Over(w, D) \in Int /\ Over(x, D) = -Over(w, D)
<1> DEFINE P == {s \in SUBSET D : Over(x, s) = -Over(w, s)}
<1>1. {} \in P
  <2>1. Over(x, {}) = 0 /\ Over(w, {}) = 0
    BY OverNothing
  <2> QED
    BY <2>1
<1>2. \A s \in SUBSET D : \A d \in D \ s : s \in P => s \cup {d} \in P
  <2> SUFFICES ASSUME NEW s \in SUBSET D, NEW d \in D \ s, s \in P
               PROVE  Over(x, s \cup {d}) = -Over(w, s \cup {d})
    OBVIOUS
  <2>1. Over(x, s) = -Over(w, s)
    OBVIOUS
  <2>8. IsFiniteSet(s)
    BY FS_Subset
  <2>2. Integral(w, s \cup {d})
    BY DEF Integral
  <2>7. Integral(x, s \cup {d})
    BY DEF Integral
  <2>3. x[d] = -w[d] /\ w[d] \in Int
    OBVIOUS
  <2>9. d \notin s
    OBVIOUS
  <2> HIDE DEF P
  <2>4. Over(w, s \cup {d}) = Over(w, s) + w[d]
    BY <2>2, <2>8, <2>9, OverAdded
  <2>5. Over(x, s \cup {d}) = Over(x, s) + x[d]
    BY <2>7, <2>8, <2>9, OverAdded
  <2>6. Over(w, s) \in Int
    <3>1. \A e \in s : w[e] \in Int
      OBVIOUS
    <3> QED
      BY <2>8, <3>1, OverIsInt
  <2> QED
    BY <2>1, <2>3, <2>4, <2>5, <2>6
<1>3. D \in P
  <2> HIDE DEF P
  <2> QED
    BY <1>1, <1>2, SetByInduction
<1> QED
  BY <1>3, OverIsInt

-----------------------------------------------------------------------------
(* Loops. *)

\* A loop of n turns, and a run of it.
IsLoop(n, A, base, turn) == base \in A /\ turn \in [1..n -> [A -> A]]
IsRunOf(f, n, A, base, turn) ==
  /\ f \in [0..n -> A] /\ f[0] = base
  /\ \A k \in 1..n : f[k] = turn[k][f[k-1]]

\* A run of a loop exists: what begins at base and takes a turn at each number.
LEMMA RunExists ==
  ASSUME NEW n \in Nat, NEW A, NEW base, NEW turn, IsLoop(n, A, base, turn)
  PROVE  \E f : IsRunOf(f, n, A, base, turn)
<1> USE DEF IsLoop
<1> DEFINE Good(f, m) == f[0] = base /\ \A k \in 1..m : f[k] = turn[k][f[k-1]]
           Reach == {m \in Nat : m <= n => \E f \in [0..m -> A] : Good(f, m)}
<1>1. 0 \in Reach
  <2>1. [k \in 0..0 |-> base] \in [0..0 -> A] /\ Good([k \in 0..0 |-> base], 0)
    OBVIOUS
  <2> HIDE DEF Good
  <2> QED
    BY <2>1
<1>2. \A m \in Nat : m \in Reach => m + 1 \in Reach
  <2> SUFFICES ASSUME NEW m \in Nat, m \in Reach, m + 1 <= n
               PROVE  \E f \in [0..m + 1 -> A] : Good(f, m + 1)
    <3> HIDE DEF Good
    <3> QED
      OBVIOUS
  <2>1. PICK f \in [0..m -> A] : Good(f, m)
    OBVIOUS
  <2> DEFINE h == [k \in 0..m + 1 |-> IF k <= m THEN f[k] ELSE turn[m + 1][f[m]]]
  <2>2. turn[m + 1][f[m]] \in A
    <3>1. m + 1 \in 1..n /\ f[m] \in A
      OBVIOUS
    <3> QED
      BY <3>1
  <2>3. h \in [0..m + 1 -> A]
    BY <2>2
  <2>4. \A k \in 0..m : h[k] = f[k]
    OBVIOUS
  <2>5. Good(h, m + 1)
    <3>1. h[0] = base
      BY <2>1, <2>4
    <3>2. ASSUME NEW k \in 1..m + 1
          PROVE  h[k] = turn[k][h[k-1]]
      <4>1. k - 1 \in 0..m /\ h[k-1] = f[k-1]
        OBVIOUS
      <4>2. CASE k <= m
        BY <2>1, <2>4, <4>1, <4>2
      <4>3. CASE k = m + 1
        BY <4>1, <4>3
      <4> QED
        BY <4>2, <4>3
    <3> QED
      BY <3>1, <3>2
  <2> HIDE DEF Good, h
  <2> QED
    BY <2>3, <2>5
<1>3. n \in Reach
  <2> HIDE DEF Reach
  <2> QED
    BY <1>1, <1>2, NatByInduction
<1> QED
  BY <1>3 DEF IsRunOf
=============================================================================
