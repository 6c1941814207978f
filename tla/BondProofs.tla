----------------------------- MODULE BondProofs -----------------------------
(***************************************************************************)
(* Theorems about the bond ledger, for any finite sets of claims and nodes *)
(* and any stakes, windows and clock bound.  The inductive invariant is    *)
(* TypeOK with AwaitedIsBonded: what Settle assumes about the entry it     *)
(* read before the await.  The two promises about sums of money also need  *)
(* what a sum is (Sums).                                                   *)
(***************************************************************************)
EXTENDS Bond, Sums

-----------------------------------------------------------------------------
(* Types, and the entries that awaited calls are against. *)

IInv == TypeOK /\ AwaitedIsBonded

\* The treasury's share of a lost stake is a natural number, and at most the stake.
LEMMA CutType == \A a \in Nat : Cut(a) \in Nat /\ Cut(a) <= a
  BY DEF Cut

\* The ledger starts empty and nobody waits.
LEMMA InitIInv == Init => IInv
  BY StakeAssumption, WindowAssumption, ModeAssumption
  DEF Init, IInv, TypeOK, AwaitedIsBonded

\* postClaim keeps the invariant.
LEMMA PostClaimIInv ==
  ASSUME IInv, NEW c \in Claims, NEW n \in Nodes, NEW s \in Stakes, NEW w \in WindowSecs,
         NEW v \in Bodies, PostClaim(c, n, s, w, v)
  PROVE  IInv'
<1> USE StakeAssumption, WindowAssumption, ModeAssumption
<1>1. [state |-> "POSTED", node |-> n, bond |-> s, closes |-> now + w, vouched |-> v]
        \in Entry
  BY DEF IInv, TypeOK, Entry, States
<1>2. TypeOK'
  <2>1. bonds' \in [Claims -> Entry \cup {None}]
    BY <1>1 DEF IInv, TypeOK, PostClaim
  <2>2. balances' \in [Nodes -> Int]
    BY DEF IInv, TypeOK, PostClaim, Credited
  <2> QED
    BY <2>1, <2>2 DEF IInv, TypeOK, PostClaim
<1>3. AwaitedIsBonded'
  <2> SUFFICES ASSUME NEW m \in Nodes, calls[m] # None
               PROVE  /\ bonds'[calls[m].claim] # None
                      /\ ~Overlap => /\ bonds'[calls[m].claim].state = "POSTED"
                                     /\ \A k \in Nodes \ {m} : calls[k] = None
    BY DEF AwaitedIsBonded, PostClaim
  <2>1. calls[m].claim # c
    BY DEF IInv, AwaitedIsBonded, PostClaim
  <2>2. calls[m].claim \in Claims
    BY DEF IInv, TypeOK, Call
  <2> QED
    BY <2>1, <2>2 DEF IInv, TypeOK, AwaitedIsBonded, PostClaim
<1> QED
  BY <1>2, <1>3 DEF IInv

\* challenge() up to the await keeps it: the entry is POSTED, and a call that
\* may not overlap starts only when no other is waiting.
LEMMA ChallengeIInv ==
  ASSUME IInv, NEW c \in Claims, NEW n \in Nodes, NEW s \in Stakes,
         NEW v \in Bodies, Challenge(c, n, s, v)
  PROVE  IInv'
<1> USE StakeAssumption, WindowAssumption, ModeAssumption
<1>1. TypeOK'
  <2>1. calls' \in [Nodes -> Call \cup {None}]
    BY DEF IInv, TypeOK, Challenge, Call
  <2>2. balances' \in [Nodes -> Int]
    BY DEF IInv, TypeOK, Challenge, Credited
  <2> QED
    BY <2>1, <2>2 DEF IInv, TypeOK, Challenge
<1>2. AwaitedIsBonded'
  <2> SUFFICES ASSUME NEW m \in Nodes, calls'[m] # None
               PROVE  /\ bonds[calls'[m].claim] # None
                      /\ ~Overlap => /\ bonds[calls'[m].claim].state = "POSTED"
                                     /\ \A k \in Nodes \ {m} : calls'[k] = None
    BY DEF AwaitedIsBonded, Challenge
  <2>1. CASE m = n
    BY <2>1 DEF IInv, TypeOK, Challenge, MayStart, IsPosted
  <2>2. CASE m # n
    <3>1. calls[m] # None /\ calls'[m] = calls[m]
      BY <2>2 DEF IInv, TypeOK, Challenge
    <3>2. Overlap
      BY <3>1 DEF Challenge, MayStart
    <3> QED
      BY <3>1, <3>2 DEF IInv, AwaitedIsBonded
  <2> QED
    BY <2>1, <2>2
<1> QED
  BY <1>1, <1>2 DEF IInv

\* The ruling settles an entry that is there, and leaves the caller idle.
LEMMA SettleIInv ==
  ASSUME IInv, NEW n \in Nodes, Settle(n)
  PROVE  IInv'
<1> USE StakeAssumption, WindowAssumption, ModeAssumption
<1> DEFINE c == calls[n].claim
           b == bonds[c]
           stake == calls[n].stake
<1>1. c \in Claims /\ stake \in Stakes
  BY DEF IInv, TypeOK, Settle, Call
<1>2. b \in Entry
  BY <1>1 DEF IInv, TypeOK, AwaitedIsBonded, Settle
<1>3. b.node \in Nodes /\ b.bond \in Nat /\ stake \in Nat
  BY <1>1, <1>2 DEF Entry
<1>4. Cut(b.bond) \in Nat /\ Cut(stake) \in Nat
  BY <1>3, CutType
<1>5. \A st \in States : [b EXCEPT !.state = st] \in Entry
  BY <1>2 DEF Entry
<1>6. \E st \in States :
        bonds' = [bonds EXCEPT ![c] = [b EXCEPT !.state = st]]
  BY <1>1 DEF Settle, States
<1>7. TypeOK'
  <2>1. bonds' \in [Claims -> Entry \cup {None}]
    BY <1>1, <1>5, <1>6 DEF IInv, TypeOK
  <2>2. balances' \in [Nodes -> Int] /\ treasury' \in Nat
    <3>1. CASE calls[n].body \in FalseBodies
      BY <3>1, <1>3, <1>4 DEF IInv, TypeOK, Settle, Payout, Credited
    <3>2. CASE calls[n].body \notin FalseBodies
      BY <3>2, <1>3, <1>4 DEF IInv, TypeOK, Settle, Payout, Credited
    <3> QED
      BY <3>1, <3>2
  <2>3. calls' \in [Nodes -> Call \cup {None}]
    BY DEF IInv, TypeOK, Settle
  <2>4. swapped' \in [Nodes -> Nat]
    <3>1. swapped \in [Nodes -> Nat] /\ swapped[b.node] \in Nat
      BY <1>3 DEF IInv, TypeOK
    <3>2. PICK x \in Nat : swapped' = swapped \/ swapped' = [swapped EXCEPT ![b.node] = x]
      <4>1. CASE calls[n].body \in FalseBodies
        <5>1. swapped[b.node] + (IF b.state = "POSTED" /\ calls[n].body # b.vouched
                                THEN b.bond ELSE 0) \in Nat
          BY <1>3, <3>1
        <5> QED
          BY <4>1, <5>1 DEF Settle
      <4>2. CASE calls[n].body \notin FalseBodies
        BY <4>2 DEF Settle
      <4> QED
        BY <4>1, <4>2
    <3> QED
      BY <3>1, <3>2
  <2> QED
    BY <2>1, <2>2, <2>3, <2>4 DEF IInv, TypeOK, Settle
<1>8. AwaitedIsBonded'
  <2> SUFFICES ASSUME NEW m \in Nodes, calls'[m] # None
               PROVE  /\ bonds'[calls'[m].claim] # None
                      /\ ~Overlap => /\ bonds'[calls'[m].claim].state = "POSTED"
                                     /\ \A k \in Nodes \ {m} : calls'[k] = None
    BY DEF AwaitedIsBonded
  <2>1. m # n /\ calls'[m] = calls[m] /\ calls[m] # None /\ calls[n] # None
    BY DEF IInv, TypeOK, Settle
  <2>2. Overlap
    BY <2>1 DEF IInv, AwaitedIsBonded
  <2>3. calls[m].claim \in Claims /\ bonds[calls[m].claim] # None
    BY <2>1 DEF IInv, TypeOK, AwaitedIsBonded, Call
  <2>4. PICK st \in States :
          bonds' = [bonds EXCEPT ![c] = [b EXCEPT !.state = st]]
    BY <1>6
  <2>5. [b EXCEPT !.state = st] # None
    BY <1>5, NoneAssumption
  <2>6. bonds'[calls[m].claim] # None
    BY <2>3, <2>4, <2>5 DEF IInv, TypeOK
  <2> QED
    BY <2>1, <2>2, <2>6
<1> QED
  BY <1>7, <1>8 DEF IInv

\* A throwing judge only takes the call away.
LEMMA ThrowIInv ==
  ASSUME IInv, NEW n \in Nodes, AdjudicateThrows(n)
  PROVE  IInv'
<1> USE StakeAssumption, WindowAssumption, ModeAssumption
<1>1. calls[n].stake \in Nat
  BY DEF IInv, TypeOK, AdjudicateThrows, Call
<1>2. TypeOK'
  BY <1>1 DEF IInv, TypeOK, AdjudicateThrows
<1>3. AwaitedIsBonded'
  BY DEF IInv, TypeOK, AwaitedIsBonded, AdjudicateThrows
<1> QED
  BY <1>2, <1>3 DEF IInv

\* finalize() settles only what no call that may not overlap is waiting for.
LEMMA FinalizeIInv ==
  ASSUME IInv, NEW c \in Claims, Finalize(c)
  PROVE  IInv'
<1> USE StakeAssumption, WindowAssumption, ModeAssumption
<1> DEFINE b == bonds[c]
<1>1. b \in Entry
  BY DEF IInv, TypeOK, Finalize, IsPosted
<1>2. b.node \in Nodes /\ b.bond \in Nat
  BY <1>1 DEF Entry
<1>3. [b EXCEPT !.state = "FINALIZED"] \in Entry
  BY <1>1 DEF Entry, States
<1>4. bonds' = [bonds EXCEPT ![c] = [b EXCEPT !.state = "FINALIZED"]]
  BY DEF Finalize
<1>5. TypeOK'
  <2>1. bonds' \in [Claims -> Entry \cup {None}]
    BY <1>3, <1>4 DEF IInv, TypeOK
  <2>2. balances' \in [Nodes -> Int]
    BY <1>2 DEF IInv, TypeOK, Finalize, Credited
  <2> QED
    BY <2>1, <2>2 DEF IInv, TypeOK, Finalize
<1>6. AwaitedIsBonded'
  <2> SUFFICES ASSUME NEW m \in Nodes, calls[m] # None
               PROVE  /\ bonds'[calls[m].claim] # None
                      /\ Overlap
    BY DEF AwaitedIsBonded, Finalize
  <2>1. calls[m].claim \in Claims /\ bonds[calls[m].claim] # None
    BY DEF IInv, TypeOK, AwaitedIsBonded, Call
  <2>2. bonds'[calls[m].claim] # None
    BY <2>1, <1>3, <1>4, NoneAssumption DEF IInv, TypeOK
  <2> QED
    BY <2>2 DEF Finalize, MayStart
<1> QED
  BY <1>5, <1>6 DEF IInv

\* Every operation keeps the invariant.
LEMMA NextIInv == IInv /\ [Next]_vars => IInv'
<1> SUFFICES ASSUME IInv, [Next]_vars PROVE IInv'
  OBVIOUS
<1>1. CASE Tick
  BY <1>1, WindowAssumption DEF IInv, TypeOK, AwaitedIsBonded, Tick
<1>2. CASE UNCHANGED vars
  BY <1>2 DEF IInv, TypeOK, AwaitedIsBonded, vars
<1> QED
  BY <1>1, <1>2, PostClaimIInv, ChallengeIInv, SettleIInv, ThrowIInv, FinalizeIInv
  DEF Next

\* In every mode a pending challenge has an entry to settle; when operations do not
\* overlap that entry is still POSTED, and the call is alone.
THEOREM LedgerInvariant == Spec => [](TypeOK /\ AwaitedIsBonded)
<1>1. Init => IInv
  BY InitIInv
<1>2. IInv /\ [Next]_vars => IInv'
  BY NextIInv
<1>3. IInv => TypeOK /\ AwaitedIsBonded
  BY DEF IInv
<1> QED
  BY <1>1, <1>2, <1>3, PTL DEF Spec

\* The ledger is well typed in every mode.
THEOREM LedgerIsTyped == Spec => []TypeOK
  BY LedgerInvariant, PTL

-----------------------------------------------------------------------------
(* Settled for good. *)

\* With calls that do not overlap, no operation touches an entry that has left
\* POSTED: the state checks before the await suffice.
THEOREM SerialSettlesOnce ==
  ASSUME ~Overlap
  PROVE  Spec => SettledForGood
<1> DEFINE Kept ==
      \A c \in Claims :
        bonds[c] # None /\ bonds[c].state # "POSTED" => bonds'[c] = bonds[c]
<1>1. IInv /\ [Next]_vars => [Kept]_vars
  <2> SUFFICES ASSUME IInv, Next,
                      NEW d \in Claims, bonds[d] # None, bonds[d].state # "POSTED"
               PROVE  bonds'[d] = bonds[d]
    OBVIOUS
  <2>1. ASSUME NEW c \in Claims, NEW n \in Nodes, NEW s \in Stakes,
               NEW w \in WindowSecs,
         NEW v \in Bodies, PostClaim(c, n, s, w, v)
        PROVE  bonds'[d] = bonds[d]
    BY <2>1 DEF IInv, TypeOK, PostClaim
  <2>2. ASSUME NEW n \in Nodes, Settle(n)
        PROVE  bonds'[d] = bonds[d]
    <3>1. calls[n].claim # d
      BY <2>2 DEF IInv, AwaitedIsBonded, Settle
    <3> QED
      BY <2>2, <3>1 DEF IInv, TypeOK, Settle
  <2>3. ASSUME NEW c \in Claims, Finalize(c)
        PROVE  bonds'[d] = bonds[d]
    BY <2>3 DEF IInv, TypeOK, Finalize, IsPosted
  <2>4. ASSUME \/ \E c \in Claims, n \in Nodes, s \in Stakes, v \in Bodies :
                    Challenge(c, n, s, v)
               \/ \E n \in Nodes : AdjudicateThrows(n)
               \/ Tick
        PROVE  bonds'[d] = bonds[d]
    BY <2>4 DEF Challenge, AdjudicateThrows, Tick
  <2> QED
    BY <2>1, <2>2, <2>3, <2>4 DEF Next
<1>2. IInv /\ [Next]_vars => IInv'
  BY NextIInv
<1>3. Init => IInv
  BY InitIInv
<1>4. Spec => [][Kept]_vars
  BY <1>1, <1>2, <1>3, PTL DEF Spec
<1> QED
  BY <1>4 DEF SettledForGood

-----------------------------------------------------------------------------
(* The ledger implements the escrow. *)

pots == [c \in Claims |-> Pot(c)]

\* A call that does not overlap another is the only one against its claim.
LEMMA SoleChallenger ==
  ASSUME ~Overlap, IInv, NEW n \in Nodes, calls[n] # None
  PROVE  /\ Against(calls[n].claim) = {n}
         /\ (CHOOSE m \in Nodes : m \in Against(calls[n].claim)) = n
         /\ \A d \in Claims : d # calls[n].claim => Against(d) = {}
<1>1. \A m \in Nodes : calls[m] # None => m = n
  BY DEF IInv, AwaitedIsBonded
<1>2. Against(calls[n].claim) = {n} /\ \A d \in Claims : d # calls[n].claim => Against(d) = {}
  BY <1>1 DEF Against
<1> QED
  BY <1>2

\* Posting puts a stake in an empty pot.
LEMMA PostClaimRefines ==
  ASSUME ~Overlap, IInv, NEW c \in Claims, NEW n \in Nodes, NEW s \in Stakes,
         NEW w \in WindowSecs,
         NEW v \in Bodies, PostClaim(c, n, s, w, v)
  PROVE  E!Stake(c, n, s)
<1>1. \A m \in Nodes : calls[m] = None /\ calls'[m] = None
  BY DEF PostClaim, MayStart
<1>2. \A d \in Claims : Against(d) = {} /\ Against(d)' = {}
  BY <1>1 DEF Against
<1>3. bonds' = [bonds EXCEPT ![c] = [state |-> "POSTED", node |-> n, bond |-> s,
                                    closes |-> now + w, vouched |-> v]]
  BY DEF PostClaim
<1>4. bonds'[c] # None
  <2>1. [state |-> "POSTED", node |-> n, bond |-> s, closes |-> now + w, vouched |-> v]
        \in Entry
    BY StakeAssumption, WindowAssumption DEF IInv, TypeOK, Entry, States
  <2> QED
    BY <2>1, <1>3, NoneAssumption DEF IInv, TypeOK
<1>5. Pot(c) = E!NoPot
  BY DEF Pot, PostClaim, E!NoPot
<1>6. Pot(c)' = E!Bonded(n, s)
  BY <1>2, <1>3, <1>4 DEF Pot, E!Bonded, IInv, TypeOK
<1>7. \A d \in Claims : d # c => Pot(d)' = Pot(d)
  BY <1>2, <1>3 DEF Pot, IInv, TypeOK
<1>8. pots' = [pots EXCEPT ![c] = E!Bonded(n, s)] /\ pots[c] = E!NoPot
  BY <1>5, <1>6, <1>7 DEF pots
<1>9. balances' = [balances EXCEPT ![n] = @ - s] /\ treasury' = treasury
  BY StakeAssumption DEF PostClaim, Credited, IInv, TypeOK
<1> QED
  BY <1>8, <1>9 DEF E!Stake, pots

\* A challenge puts its stake in the pot of an uncontested claim.
LEMMA ChallengeRefines ==
  ASSUME ~Overlap, IInv, NEW c \in Claims, NEW n \in Nodes, NEW s \in Stakes,
         NEW v \in Bodies, Challenge(c, n, s, v)
  PROVE  E!Contest(c, n, s, v)
<1>1. calls' = [calls EXCEPT ![n] = [claim |-> c, stake |-> s, body |-> v]] /\ bonds' = bonds
  BY DEF Challenge
<1>2. \A m \in Nodes : calls[m] = None
  BY DEF Challenge, MayStart
<1>3. [claim |-> c, stake |-> s, body |-> v] # None
  BY NoneAssumption DEF Call
<1>4. \A d \in Claims : Against(d) = {}
  BY <1>2 DEF Against
<1>5. Against(c)' = {n} /\ \A d \in Claims : d # c => Against(d)' = {}
  BY <1>1, <1>2, <1>3 DEF Against, IInv, TypeOK
<1>6. (CHOOSE m \in Nodes : m \in Against(c)') = n
  BY <1>5
<1>7. Pot(c) = E!Bonded(bonds[c].node, bonds[c].bond)
  BY <1>4 DEF Pot, E!Bonded, Challenge, IsPosted
<1>8. Pot(c)' = E!Contested(bonds[c].node, bonds[c].bond, n, s, v)
  <2>1. calls'[n].stake = s /\ calls'[n].body = v
    BY <1>1 DEF IInv, TypeOK
  <2> QED
    BY <1>1, <1>5, <1>6, <2>1 DEF Pot, E!Contested, Challenge, IsPosted
<1>9. \A d \in Claims : d # c => Pot(d)' = Pot(d)
  BY <1>1, <1>4, <1>5 DEF Pot
<1>10. pots[c] = E!Bonded(bonds[c].node, bonds[c].bond)
  BY <1>7 DEF pots
<1>11. /\ pots[c].stage = "bonded" /\ pots[c].by = bonds[c].node
       /\ pots[c].put = bonds[c].bond
  BY <1>10 DEF E!Bonded
<1>12. pots' = [pots EXCEPT ![c] = E!Contested(pots[c].by, pots[c].put, n, s, v)]
  BY <1>8, <1>9, <1>11 DEF pots
<1>13. balances' = [balances EXCEPT ![n] = @ - s] /\ treasury' = treasury
  BY StakeAssumption DEF Challenge, Credited, IInv, TypeOK
<1> QED
  BY <1>11, <1>12, <1>13 DEF E!Contest, pots

\* A ruling pays the pot out, once, to the side the body handed in decides for.
LEMMA SettleRefines ==
  ASSUME ~Overlap, IInv, NEW n \in Nodes, Settle(n), NEW c, c = calls[n].claim
  PROVE  E!Award(c)
<1> DEFINE b == bonds[c]
           s == calls[n].stake
           final == IF calls[n].body \in FalseBodies THEN "SLASHED" ELSE "CHALLENGE_FAILED"
<1>1. c \in Claims /\ s \in Nat /\ calls[n] # None
  BY StakeAssumption DEF Settle, IInv, TypeOK, Call
<1>2. b \in Entry /\ b # None /\ b.state = "POSTED"
  BY <1>1 DEF IInv, TypeOK, AwaitedIsBonded
<1>3. b.node \in Nodes /\ b.bond \in Nat
  BY <1>2, StakeAssumption DEF Entry
<1>4. Cut(b.bond) \in Nat /\ Cut(s) \in Nat
  BY <1>1, <1>3, CutType
<1>5. bonds' = [bonds EXCEPT ![c] = [b EXCEPT !.state = final]]
  BY DEF Settle
<1>6. \A m \in Nodes : calls'[m] = None
  BY <1>1 DEF Settle, IInv, TypeOK, AwaitedIsBonded
<1>7. \A d \in Claims : Against(d)' = {}
  BY <1>6 DEF Against
<1>8. Pot(c) = E!Contested(b.node, b.bond, n, s, calls[n].body)
  BY <1>1, <1>2, SoleChallenger DEF Pot, E!Contested
<1>9. Pot(c)' = E!Settled
  <2>1. [b EXCEPT !.state = final] \in Entry
    BY <1>2 DEF Entry, States
  <2>2. bonds'[c] = [b EXCEPT !.state = final] /\ bonds'[c] # None
    BY <1>1, <1>5, <2>1, NoneAssumption DEF IInv, TypeOK
  <2>3. bonds'[c].state = final
    BY <2>2, <1>2 DEF Entry
  <2> QED
    BY <2>2, <2>3 DEF Pot, E!Settled
<1>10. \A d \in Claims : d # c => Pot(d)' = Pot(d)
  <2> SUFFICES ASSUME NEW d \in Claims, d # c PROVE Pot(d)' = Pot(d)
    OBVIOUS
  <2>1. Against(d) = {} /\ Against(d)' = {}
    BY <1>1, <1>7, SoleChallenger
  <2>2. bonds'[d] = bonds[d]
    BY <1>5 DEF IInv, TypeOK
  <2> QED
    BY <2>1, <2>2 DEF Pot
<1>11. pots[c] = E!Contested(b.node, b.bond, n, s, calls[n].body)
  BY <1>1, <1>8 DEF pots
<1>12. pots' = [pots EXCEPT ![c] = E!Settled]
  BY <1>9, <1>10 DEF pots
<1>13. /\ pots[c].stage = "contested" /\ pots[c].by = b.node /\ pots[c].put = b.bond
       /\ pots[c].rival = n /\ pots[c].against = s
       /\ pots[c].body = calls[n].body
  BY <1>11 DEF E!Contested
<1>14. CASE calls[n].body \in FalseBodies
  <2>1. balances' = [balances EXCEPT ![n] = @ + b.bond + s - Cut(b.bond)]
    BY <1>14, <1>1, <1>3, <1>4 DEF Settle, Payout, Credited, IInv, TypeOK
  <2>2. treasury' = treasury + Cut(b.bond)
    BY <1>14 DEF Settle
  <2> QED
    BY <1>12, <1>13, <1>14, <2>1, <2>2 DEF E!Award, pots
<1>15. CASE calls[n].body \notin FalseBodies
  <2>1. balances' = [balances EXCEPT ![b.node] = @ + b.bond + s - Cut(s)]
    BY <1>15, <1>1, <1>3, <1>4 DEF Settle, Payout, Credited, IInv, TypeOK
  <2>2. treasury' = treasury + Cut(s)
    BY <1>15 DEF Settle
  <2> QED
    BY <1>12, <1>13, <1>15, <2>1, <2>2 DEF E!Award, pots
<1> QED
  BY <1>14, <1>15

\* finalize() returns an uncontested stake.
LEMMA FinalizeRefines ==
  ASSUME ~Overlap, IInv, NEW c \in Claims, Finalize(c)
  PROVE  E!Release(c)
<1> DEFINE b == bonds[c]
<1>1. b \in Entry /\ b # None /\ b.state = "POSTED"
  BY DEF Finalize, IsPosted, IInv, TypeOK
<1>2. \A d \in Claims : Against(d) = {} /\ Against(d)' = {}
  BY DEF Finalize, MayStart, Against
<1>3. bonds' = [bonds EXCEPT ![c] = [b EXCEPT !.state = "FINALIZED"]]
  BY DEF Finalize
<1>4. Pot(c) = E!Bonded(b.node, b.bond)
  BY <1>1, <1>2 DEF Pot, E!Bonded
<1>5. Pot(c)' = E!Settled
  <2>1. [b EXCEPT !.state = "FINALIZED"] \in Entry
    BY <1>1 DEF Entry, States
  <2>2. bonds'[c] = [b EXCEPT !.state = "FINALIZED"] /\ bonds'[c] # None
    BY <1>3, <2>1, NoneAssumption DEF IInv, TypeOK
  <2>3. bonds'[c].state = "FINALIZED"
    BY <2>2, <1>1 DEF Entry
  <2> QED
    BY <2>2, <2>3 DEF Pot, E!Settled
<1>6. \A d \in Claims : d # c => Pot(d)' = Pot(d)
  BY <1>2, <1>3 DEF Pot, IInv, TypeOK
<1>7. pots[c] = E!Bonded(b.node, b.bond) /\ pots' = [pots EXCEPT ![c] = E!Settled]
  BY <1>4, <1>5, <1>6 DEF pots
<1>8. pots[c].stage = "bonded" /\ pots[c].by = b.node /\ pots[c].put = b.bond
  BY <1>7 DEF E!Bonded
<1>9. balances' = [balances EXCEPT ![b.node] = @ + b.bond] /\ treasury' = treasury
  BY DEF Finalize, Credited
<1> QED
  BY <1>7, <1>8, <1>9 DEF E!Release, pots

\* One call at a time and a judge that always answers: every behaviour of the
\* ledger is a behaviour of the escrow.
THEOREM SerialImplementsEscrow ==
  ASSUME ~Overlap, MaxThrows = 0
  PROVE  Spec => EscrowSpec
<1>1. Init => E!EInit
  BY DEF Init, E!EInit, Pot, E!NoPot
<1>2. IInv /\ [Next]_vars => [E!ENext]_(E!evars)
  <2> SUFFICES ASSUME IInv, [Next]_vars PROVE [E!ENext]_(E!evars)
    OBVIOUS
  <2>1. CASE \E c \in Claims, n \in Nodes, s \in Stakes, v \in Bodies :
               (\E w \in WindowSecs : PostClaim(c, n, s, w, v)) \/ Challenge(c, n, s, v)
    BY <2>1, PostClaimRefines, ChallengeRefines DEF E!ENext
  <2>2. ASSUME NEW n \in Nodes, Settle(n) PROVE E!ENext
    <3>1. calls[n].claim \in Claims
      BY <2>2 DEF Settle, IInv, TypeOK, Call
    <3> QED
      BY <2>2, <3>1, SettleRefines DEF E!ENext
  <2>3. ASSUME NEW n \in Nodes, AdjudicateThrows(n) PROVE FALSE
    BY <2>3 DEF AdjudicateThrows, IInv, TypeOK
  <2>4. CASE \E c \in Claims : Finalize(c)
    BY <2>4, FinalizeRefines DEF E!ENext
  <2>5. CASE Tick \/ UNCHANGED vars
    <3>1. bonds' = bonds /\ calls' = calls /\ balances' = balances /\ treasury' = treasury
      BY <2>5 DEF Tick, vars
    <3>2. \A c \in Claims : Pot(c)' = Pot(c)
      <4>1. \A c : Against(c)' = Against(c)
        BY <3>1 DEF Against
      <4> QED
        BY <3>1, <4>1 DEF Pot
    <3> QED
      BY <3>1, <3>2 DEF E!evars
  <2> QED
    BY <2>1, <2>2, <2>3, <2>4, <2>5 DEF Next
<1>3. IInv /\ [Next]_vars => IInv'
  BY NextIInv
<1>4. Init => IInv
  BY InitIInv
<1> QED
  BY <1>1, <1>2, <1>3, <1>4, PTL DEF Spec, EscrowSpec, E!ESpec

-----------------------------------------------------------------------------
(* Sums over the ledger. *)

\* An entry's owner and bond, and a call's claim and stake.
LEMMA LedgerTypes ==
  ASSUME TypeOK
  PROVE  /\ \A c \in Claims : bonds[c] # None =>
              bonds[c] \in Entry /\ bonds[c].node \in Nodes /\ bonds[c].bond \in Nat
         /\ \A n \in Nodes : calls[n] # None =>
              calls[n].claim \in Claims /\ calls[n].stake \in Nat
         /\ balances \in [Nodes -> Int] /\ stranded \in [Nodes -> Nat]
         /\ swapped \in [Nodes -> Nat]
<1>1. \A e \in Entry : e.node \in Nodes /\ e.bond \in Nat
  BY StakeAssumption DEF Entry
<1>2. \A e \in Call : e.claim \in Claims /\ e.stake \in Nat
  BY StakeAssumption DEF Call
<1> QED
  BY <1>1, <1>2 DEF TypeOK

\* The sums of the ledger are of integers, over the claims and over the nodes.
Summands == /\ Locked \in [Claims -> Int] /\ InFlight \in [Nodes -> Int]
            /\ balances \in [Nodes -> Int] /\ stranded \in [Nodes -> Int]
            /\ swapped \in [Nodes -> Int]
            /\ \A n \in Nodes : HisBonds(n) \in [Claims -> Int]

LEMMA SummandTypes == TypeOK => Summands
  BY LedgerTypes DEF Summands, Locked, InFlight, HisBonds, IsPosted

\* The same, after a step.
LEMMA SummandTypesNext == TypeOK' => Summands'
  BY SummandTypes, PTL

\* What one entry's change does to the bonds that are locked.
LEMMA LockedMoves ==
  ASSUME TypeOK, TypeOK', NEW c \in Claims, \A d \in Claims \ {c} : bonds'[d] = bonds[d]
  PROVE  /\ SumFunction(Locked) \in Int
         /\ SumFunction(Locked') = SumFunction(Locked) - Locked[c] + Locked'[c]
<1>1. Locked \in [Claims -> Int] /\ Locked' \in [Claims -> Int]
  BY SummandTypes, SummandTypesNext DEF Summands
<1>2. \A d \in Claims \ {c} : Locked'[d] = Locked[d]
  BY DEF Locked, IsPosted
<1> QED
  BY <1>1, <1>2, FiniteAssumption, SumChanged

\* What it does to the bonds one node has posted.
LEMMA HisBondsMove ==
  ASSUME TypeOK, TypeOK', NEW n \in Nodes, NEW c \in Claims,
         \A d \in Claims \ {c} : bonds'[d] = bonds[d]
  PROVE  /\ SumFunction(HisBonds(n)) \in Int
         /\ SumFunction(HisBonds(n)')
              = SumFunction(HisBonds(n)) - HisBonds(n)[c] + HisBonds(n)'[c]
<1>1. HisBonds(n) \in [Claims -> Int] /\ HisBonds(n)' \in [Claims -> Int]
  BY SummandTypes, SummandTypesNext DEF Summands
<1>2. \A d \in Claims \ {c} : HisBonds(n)'[d] = HisBonds(n)[d]
  BY DEF HisBonds, IsPosted
<1> QED
  BY <1>1, <1>2, FiniteAssumption, SumChanged

-----------------------------------------------------------------------------
(* Honesty is free. *)

\* What node m has, counting what it put at risk and what a thrown adjudication or a
\* body it never vouched for took.
Worth(m) == balances[m] + AtRisk(m) + stranded[m] + swapped[m]

\* Only rash nodes have bonded a false body or await the judge on a true one.
OnlyRashErr ==
  /\ \A c \in Claims :
       bonds[c] # None /\ bonds[c].node \notin rash => bonds[c].vouched \notin FalseBodies
  /\ \A n \in Nodes : calls[n] # None /\ n \notin rash => calls[n].body \in FalseBodies

\* A bond leaves the balance and is at risk: nobody's worth changes.
LEMMA PostClaimWorth ==
  ASSUME IInv, IInv', NEW c \in Claims, NEW n \in Nodes, NEW s \in Stakes,
         NEW w \in WindowSecs,
         NEW v \in Bodies, PostClaim(c, n, s, w, v), NEW m \in Nodes
  PROVE  Worth(m) \in Int /\ Worth(m)' = Worth(m)
<1> DEFINE e == [state |-> "POSTED", node |-> n, bond |-> s, closes |-> now + w, vouched |-> v]
<1>1. s \in Nat /\ e # None
  <2>1. e \in Entry
    BY StakeAssumption, WindowAssumption DEF IInv, TypeOK, Entry, States
  <2> QED
    BY <2>1, NoneAssumption, StakeAssumption
<1>2. bonds'[c] = e /\ \A d \in Claims \ {c} : bonds'[d] = bonds[d]
  BY DEF PostClaim, IInv, TypeOK
<1>3. /\ SumFunction(HisBonds(m)) \in Int
      /\ SumFunction(HisBonds(m)') = SumFunction(HisBonds(m)) - HisBonds(m)[c] + HisBonds(m)'[c]
  BY <1>2, HisBondsMove DEF IInv
<1>4. HisBonds(m)[c] = 0 /\ HisBonds(m)'[c] = IF m = n THEN s ELSE 0
  BY <1>1, <1>2 DEF HisBonds, IsPosted, PostClaim
<1>5. balances'[m] = balances[m] - (IF m = n THEN s ELSE 0)
  BY <1>1 DEF PostClaim, Credited, IInv, TypeOK
<1>6. InFlight'[m] = InFlight[m] /\ stranded' = stranded /\ swapped' = swapped
  BY DEF InFlight, PostClaim
<1>7. /\ balances[m] \in Int /\ InFlight[m] \in Int
      /\ stranded[m] \in Int /\ swapped[m] \in Int
  BY SummandTypes DEF Summands, IInv
<1> QED
  BY <1>1, <1>3, <1>4, <1>5, <1>6, <1>7 DEF Worth, AtRisk

\* So does a challenger's stake.
LEMMA ChallengeWorth ==
  ASSUME IInv, IInv', NEW c \in Claims, NEW n \in Nodes, NEW s \in Stakes,
         NEW v \in Bodies, Challenge(c, n, s, v), NEW m \in Nodes
  PROVE  Worth(m) \in Int /\ Worth(m)' = Worth(m)
<1>1. s \in Nat /\ [claim |-> c, stake |-> s, body |-> v] # None
  BY NoneAssumption, StakeAssumption DEF Call
<1>2. bonds' = bonds /\ stranded' = stranded /\ swapped' = swapped
  BY DEF Challenge
<1>3. HisBonds(m)' = HisBonds(m) /\ SumFunction(HisBonds(m)) \in Int
  <2>1. HisBonds(m)' = HisBonds(m)
    BY <1>2 DEF HisBonds, IsPosted
  <2> QED
    BY <2>1, <1>2, HisBondsMove DEF IInv
<1>4. InFlight'[m] = InFlight[m] + (IF m = n THEN s ELSE 0)
  <2>1. calls'[m] = IF m = n THEN [claim |-> c, stake |-> s, body |-> v] ELSE calls[m]
    BY DEF Challenge, IInv, TypeOK
  <2>2. calls[m] # None => calls[m].stake \in Nat
    BY LedgerTypes DEF IInv
  <2> QED
    BY <1>1, <2>1, <2>2 DEF InFlight, Challenge
<1>5. balances'[m] = balances[m] - (IF m = n THEN s ELSE 0)
  BY <1>1 DEF Challenge, Credited, IInv, TypeOK
<1>6. /\ balances[m] \in Int /\ InFlight[m] \in Int
      /\ stranded[m] \in Int /\ swapped[m] \in Int
  BY SummandTypes DEF Summands, IInv
<1> QED
  BY <1>1, <1>2, <1>3, <1>4, <1>5, <1>6 DEF Worth, AtRisk

\* A throw strands the stake that was in flight.
LEMMA ThrowWorth ==
  ASSUME IInv, IInv', NEW n \in Nodes, AdjudicateThrows(n), NEW m \in Nodes
  PROVE  Worth(m) \in Int /\ Worth(m)' = Worth(m)
<1>1. calls[n] # None /\ calls[n].claim \in Claims /\ calls[n].stake \in Nat
  BY LedgerTypes DEF AdjudicateThrows, IInv
<1>2. bonds' = bonds /\ balances' = balances /\ swapped' = swapped
  BY DEF AdjudicateThrows
<1>3. HisBonds(m)' = HisBonds(m) /\ SumFunction(HisBonds(m)) \in Int
  <2>1. HisBonds(m)' = HisBonds(m)
    BY <1>2 DEF HisBonds, IsPosted
  <2> QED
    BY <2>1, <1>1, <1>2, HisBondsMove DEF IInv
<1>4. InFlight'[m] = InFlight[m] - (IF m = n THEN calls[n].stake ELSE 0)
  <2>1. calls'[m] = IF m = n THEN None ELSE calls[m]
    BY DEF AdjudicateThrows, IInv, TypeOK
  <2>2. calls[m] # None => calls[m].stake \in Nat
    BY LedgerTypes DEF IInv
  <2> QED
    BY <1>1, <2>1, <2>2 DEF InFlight
<1>5. stranded'[m] = stranded[m] + (IF m = n THEN calls[n].stake ELSE 0)
  BY <1>1 DEF AdjudicateThrows, IInv, TypeOK
<1>6. /\ balances[m] \in Int /\ InFlight[m] \in Int
      /\ stranded[m] \in Int /\ swapped[m] \in Int
  BY SummandTypes DEF Summands, IInv
<1> QED
  BY <1>1, <1>2, <1>3, <1>4, <1>5, <1>6 DEF Worth, AtRisk

\* finalize() returns exactly the bond it unlocks.
LEMMA FinalizeWorth ==
  ASSUME IInv, IInv', NEW c \in Claims, Finalize(c), NEW m \in Nodes
  PROVE  Worth(m) \in Int /\ Worth(m)' = Worth(m)
<1> DEFINE b == bonds[c]
<1>1. b \in Entry /\ b # None /\ b.state = "POSTED" /\ b.node \in Nodes /\ b.bond \in Nat
  BY LedgerTypes DEF Finalize, IsPosted, IInv
<1>2. bonds'[c].state = "FINALIZED" /\ \A d \in Claims \ {c} : bonds'[d] = bonds[d]
  BY <1>1 DEF Finalize, IInv, TypeOK, Entry
<1>3. /\ SumFunction(HisBonds(m)) \in Int
      /\ SumFunction(HisBonds(m)') = SumFunction(HisBonds(m)) - HisBonds(m)[c] + HisBonds(m)'[c]
  BY <1>2, HisBondsMove DEF IInv
<1>4. HisBonds(m)[c] = (IF m = b.node THEN b.bond ELSE 0) /\ HisBonds(m)'[c] = 0
  BY <1>1, <1>2 DEF HisBonds, IsPosted
<1>5. balances'[m] = balances[m] + (IF m = b.node THEN b.bond ELSE 0)
  BY <1>1 DEF Finalize, Credited, IInv, TypeOK
<1>6. InFlight'[m] = InFlight[m] /\ stranded' = stranded /\ swapped' = swapped
  BY DEF InFlight, Finalize
<1>7. /\ balances[m] \in Int /\ InFlight[m] \in Int
      /\ stranded[m] \in Int /\ swapped[m] \in Int
  BY SummandTypes DEF Summands, IInv
<1> QED
  BY <1>1, <1>3, <1>4, <1>5, <1>6, <1>7 DEF Worth, AtRisk

\* A ruling costs the rash side, or is counted: a bond on a false body has a rash owner,
\* a stake behind a true one a rash challenger, and a bond lost to a false body its owner
\* did not vouch for is one lost to a swap.
LEMMA SettleWorth ==
  ASSUME IInv, IInv', OnlyRashErr, NEW n \in Nodes, Settle(n), NEW m \in Nodes, m \notin rash
  PROVE  Worth(m) \in Int /\ Worth(m)' \in Int /\ Worth(m)' >= Worth(m)
<1> DEFINE c == calls[n].claim
           b == bonds[c]
           s == calls[n].stake
<1>1. calls[n] # None /\ c \in Claims /\ s \in Nat
  BY LedgerTypes DEF Settle, IInv
<1>2. b \in Entry /\ b # None /\ b.node \in Nodes /\ b.bond \in Nat
  BY <1>1, LedgerTypes DEF IInv, AwaitedIsBonded
<1>3. /\ Cut(b.bond) \in Nat /\ Cut(b.bond) <= b.bond
      /\ Cut(s) \in Nat /\ Cut(s) <= s
  BY <1>1, <1>2, CutType
<1>4. /\ bonds'[c].state \in {"SLASHED", "CHALLENGE_FAILED"}
      /\ \A d \in Claims \ {c} : bonds'[d] = bonds[d]
  BY <1>1, <1>2 DEF Settle, IInv, TypeOK, Entry
<1>5. /\ SumFunction(HisBonds(m)) \in Int
      /\ SumFunction(HisBonds(m)') = SumFunction(HisBonds(m)) - HisBonds(m)[c] + HisBonds(m)'[c]
  BY <1>1, <1>4, HisBondsMove DEF IInv
<1>6. /\ HisBonds(m)'[c] = 0
      /\ HisBonds(m)[c] \in {0, IF m = b.node THEN b.bond ELSE 0}
  BY <1>1, <1>2, <1>4 DEF HisBonds, IsPosted
<1>7. InFlight'[m] = InFlight[m] - (IF m = n THEN s ELSE 0) /\ stranded' = stranded
  <2>1. calls'[m] = IF m = n THEN None ELSE calls[m]
    BY DEF Settle, IInv, TypeOK
  <2>2. calls[m] # None => calls[m].stake \in Nat
    BY LedgerTypes DEF IInv
  <2> QED
    BY <1>1, <2>1, <2>2 DEF InFlight, Settle
<1>8. /\ balances[m] \in Int /\ InFlight[m] \in Int
      /\ stranded[m] \in Int /\ swapped[m] \in Int
  BY SummandTypes DEF Summands, IInv
<1>9. CASE calls[n].body \in FalseBodies
  <2>1. m = b.node => calls[n].body # b.vouched
    BY <1>1, <1>2, <1>9 DEF OnlyRashErr
  <2>2. balances'[m] = balances[m] + (IF m = n THEN s + b.bond - Cut(b.bond) ELSE 0)
    BY <1>1, <1>2, <1>3, <1>9 DEF Settle, Credited, Payout, IInv, TypeOK
  <2>3. swapped'[m] = swapped[m] + HisBonds(m)[c]
    <3>1. swapped' = [swapped EXCEPT ![b.node] =
                        @ + IF b.state = "POSTED" /\ calls[n].body # b.vouched THEN b.bond ELSE 0]
      BY <1>9 DEF Settle
    <3>2. HisBonds(m)[c] = IF b.state = "POSTED" /\ m = b.node THEN b.bond ELSE 0
      BY <1>1, <1>2 DEF HisBonds, IsPosted
    <3> QED
      BY <1>8, <2>1, <3>1, <3>2 DEF IInv, TypeOK
  <2> QED
    BY <1>1, <1>2, <1>3, <1>5, <1>6, <1>7, <1>8, <2>2, <2>3 DEF Worth, AtRisk
<1>10. CASE calls[n].body \notin FalseBodies
  <2>1. m # n
    BY <1>1, <1>10 DEF OnlyRashErr
  <2>2. balances'[m] = balances[m] + (IF m = b.node THEN b.bond + s - Cut(s) ELSE 0)
    BY <1>1, <1>2, <1>3, <1>10 DEF Settle, Credited, Payout, IInv, TypeOK
  <2>3. swapped' = swapped
    BY <1>10 DEF Settle
  <2> QED
    BY <1>1, <1>2, <1>3, <1>5, <1>6, <1>7, <1>8, <2>1, <2>2, <2>3 DEF Worth, AtRisk
<1> QED
  BY <1>9, <1>10

\* Who errs is marked as he errs, and stays marked.
LEMMA OnlyRashErrKept == IInv /\ OnlyRashErr /\ [Next]_vars => OnlyRashErr'
<1> SUFFICES ASSUME IInv, OnlyRashErr, [Next]_vars PROVE OnlyRashErr'
  OBVIOUS
<1>1. ASSUME NEW c \in Claims, NEW n \in Nodes, NEW s \in Stakes, NEW w \in WindowSecs,
             NEW v \in Bodies, PostClaim(c, n, s, w, v)
      PROVE  OnlyRashErr'
  BY <1>1 DEF OnlyRashErr, PostClaim, IInv, TypeOK
<1>2. ASSUME NEW c \in Claims, NEW n \in Nodes, NEW s \in Stakes,
             NEW v \in Bodies, Challenge(c, n, s, v)
      PROVE  OnlyRashErr'
  BY <1>2 DEF OnlyRashErr, Challenge, IInv, TypeOK
<1>3. ASSUME NEW n \in Nodes, Settle(n)
      PROVE  OnlyRashErr'
  <2>1. calls[n].claim \in Claims /\ bonds[calls[n].claim] # None /\ bonds[calls[n].claim] \in Entry
    BY <1>3, LedgerTypes DEF Settle, IInv, AwaitedIsBonded
  <2>2. \A d \in Claims : bonds'[d] # None => bonds[d] # None /\ bonds'[d].node = bonds[d].node
                                            /\ bonds'[d].vouched = bonds[d].vouched
    BY <1>3, <2>1 DEF Settle, IInv, TypeOK, Entry
  <2>3. \A m \in Nodes : calls'[m] # None => calls'[m] = calls[m]
    BY <1>3 DEF Settle, IInv, TypeOK
  <2> QED
    BY <1>3, <2>2, <2>3 DEF OnlyRashErr, Settle
<1>4. ASSUME NEW n \in Nodes, AdjudicateThrows(n)
      PROVE  OnlyRashErr'
  BY <1>4 DEF OnlyRashErr, AdjudicateThrows, IInv, TypeOK
<1>5. ASSUME NEW c \in Claims, Finalize(c)
      PROVE  OnlyRashErr'
  <2>1. bonds[c] # None /\ bonds[c] \in Entry
    BY <1>5, LedgerTypes DEF Finalize, IsPosted, IInv
  <2>2. \A d \in Claims : bonds'[d] # None => bonds[d] # None /\ bonds'[d].node = bonds[d].node
                                            /\ bonds'[d].vouched = bonds[d].vouched
    BY <1>5, <2>1 DEF Finalize, IInv, TypeOK, Entry
  <2> QED
    BY <1>5, <2>2 DEF OnlyRashErr, Finalize
<1>6. CASE Tick \/ UNCHANGED vars
  BY <1>6 DEF OnlyRashErr, Tick, vars
<1> QED
  BY <1>1, <1>2, <1>3, <1>4, <1>5, <1>6 DEF Next

\* So no step takes anything from a node that has not been rash.
LEMMA WorthKept ==
  IInv /\ OnlyRashErr /\ HonestyIsFree /\ [Next]_vars => HonestyIsFree'
<1> SUFFICES ASSUME IInv, OnlyRashErr, HonestyIsFree, [Next]_vars,
                    NEW m \in Nodes, m \notin rash'
             PROVE  Worth(m)' >= 0
  BY DEF HonestyIsFree, Worth
<1>1. IInv'
  BY NextIInv
<1>2. m \notin rash
  BY DEF Next, PostClaim, Challenge, Settle, AdjudicateThrows, Finalize, Tick, vars
<1>3. Worth(m) >= 0
  BY <1>2 DEF HonestyIsFree, Worth
<1>4. CASE Tick \/ UNCHANGED vars
  BY <1>3, <1>4 DEF Worth, AtRisk, HisBonds, IsPosted, InFlight, Tick, vars
<1>5. CASE \E n \in Nodes : Settle(n)
  BY <1>1, <1>2, <1>3, <1>5, SettleWorth
<1>6. CASE \E c \in Claims, n \in Nodes, s \in Stakes, w \in WindowSecs, v \in Bodies :
             PostClaim(c, n, s, w, v)
  BY <1>1, <1>3, <1>6, PostClaimWorth
<1>7. CASE \E c \in Claims, n \in Nodes, s \in Stakes, v \in Bodies : Challenge(c, n, s, v)
  BY <1>1, <1>3, <1>7, ChallengeWorth
<1>8. CASE \E n \in Nodes : AdjudicateThrows(n)
  BY <1>1, <1>3, <1>8, ThrowWorth
<1>9. CASE \E c \in Claims : Finalize(c)
  BY <1>1, <1>3, <1>9, FinalizeWorth
<1> QED
  BY <1>4, <1>5, <1>6, <1>7, <1>8, <1>9 DEF Next

\* In every mode, overlapping calls and throwing judges included: a node that bonds only
\* bodies re-execution confirms and challenges only with bodies it contradicts never has
\* less than it put at risk, but for the stakes thrown adjudications took and the bonds
\* lost to other bodies under the ids of its claims.
THEOREM HonestNodesNeverLose == Spec => []HonestyIsFree
<1>1. Init => OnlyRashErr /\ HonestyIsFree
  <2> SUFFICES ASSUME Init PROVE OnlyRashErr /\ HonestyIsFree
    OBVIOUS
  <2>1. OnlyRashErr
    BY DEF Init, OnlyRashErr
  <2>2. ASSUME NEW m \in Nodes
        PROVE  AtRisk(m) = 0
    <3>1. HisBonds(m) = [c \in Claims |-> 0]
      BY DEF HisBonds, IsPosted, Init
    <3>2. InFlight[m] = 0
      BY DEF InFlight, Init
    <3>3. SumFunction([c \in Claims |-> 0]) = 0
      BY FiniteAssumption, SumOfZeros
    <3> QED
      BY <3>1, <3>2, <3>3 DEF AtRisk
  <2> QED
    BY <2>1, <2>2 DEF HonestyIsFree, Init
<1>2. Init => IInv
  BY InitIInv
<1>3. IInv /\ OnlyRashErr /\ HonestyIsFree /\ [Next]_vars
        => IInv' /\ OnlyRashErr' /\ HonestyIsFree'
  BY NextIInv, OnlyRashErrKept, WorthKept
<1> QED
  BY <1>1, <1>2, <1>3, PTL DEF Spec

-----------------------------------------------------------------------------
(* Conservation. *)

\* Two functions that differ at one node at most: their sums differ by as much.
LEMMA NodeSumMoves ==
  ASSUME NEW w \in [Nodes -> Int], NEW x \in [Nodes -> Int], NEW n \in Nodes,
         \A m \in Nodes \ {n} : x[m] = w[m]
  PROVE  SumFunction(w) \in Int /\ SumFunction(x) = SumFunction(w) - w[n] + x[n]
  BY FiniteAssumption, SumChanged

\* Crediting a node.
LEMMA CreditSum ==
  ASSUME TypeOK, NEW n \in Nodes, NEW a \in Int, balances' = Credited(n, a)
  PROVE  SumFunction(balances) \in Int /\ SumFunction(balances') = SumFunction(balances) + a
<1>1. /\ balances \in [Nodes -> Int] /\ balances' \in [Nodes -> Int]
      /\ balances'[n] = balances[n] + a
      /\ \A m \in Nodes \ {n} : balances'[m] = balances[m]
  BY DEF TypeOK, Credited
<1>2. /\ SumFunction(balances) \in Int
      /\ SumFunction(balances') = SumFunction(balances) - balances[n] + balances'[n]
  BY <1>1, NodeSumMoves
<1> QED
  BY <1>1, <1>2

\* A call that starts, ends or throws changes the stakes in flight at its node.
LEMMA FlightSum ==
  ASSUME TypeOK, TypeOK', NEW n \in Nodes, \A m \in Nodes \ {n} : calls'[m] = calls[m]
  PROVE  /\ SumFunction(InFlight) \in Int
         /\ SumFunction(InFlight') = SumFunction(InFlight) - InFlight[n] + InFlight'[n]
         /\ InFlight[n] \in Int /\ InFlight'[n] \in Int
<1>1. InFlight \in [Nodes -> Int] /\ InFlight' \in [Nodes -> Int]
  BY SummandTypes, SummandTypesNext DEF Summands
<1>2. \A m \in Nodes \ {n} : InFlight'[m] = InFlight[m]
  BY DEF InFlight
<1> QED
  BY <1>1, <1>2, NodeSumMoves

\* The sums are integers.
LEMMA SumsAreInts ==
  ASSUME TypeOK, NEW n \in Nodes, NEW c \in Claims
  PROVE  /\ SumFunction(balances) \in Int /\ SumFunction(Locked) \in Int
         /\ SumFunction(InFlight) \in Int /\ SumFunction(stranded) \in Int
  BY SummandTypes, FiniteAssumption, SumChanged DEF Summands

\* postClaim: from the balance into the lock.
LEMMA PostClaimConserves ==
  ASSUME IInv, IInv', Conservation, NEW c \in Claims, NEW n \in Nodes, NEW s \in Stakes,
         NEW w \in WindowSecs,
         NEW v \in Bodies, PostClaim(c, n, s, w, v)
  PROVE  Conservation'
<1> DEFINE e == [state |-> "POSTED", node |-> n, bond |-> s, closes |-> now + w, vouched |-> v]
<1>1. s \in Nat /\ e # None
  <2>1. e \in Entry
    BY StakeAssumption, WindowAssumption DEF IInv, TypeOK, Entry, States
  <2> QED
    BY <2>1, NoneAssumption, StakeAssumption
<1>2. bonds'[c] = e /\ \A d \in Claims \ {c} : bonds'[d] = bonds[d]
  BY DEF PostClaim, IInv, TypeOK
<1>3. SumFunction(Locked') = SumFunction(Locked) - Locked[c] + Locked'[c]
  BY <1>2, LockedMoves DEF IInv
<1>4. Locked[c] = 0 /\ Locked'[c] = s
  BY <1>1, <1>2 DEF Locked, IsPosted, PostClaim
<1>5. SumFunction(balances') = SumFunction(balances) - s
  BY <1>1, CreditSum DEF PostClaim, IInv
<1>6. InFlight' = InFlight /\ stranded' = stranded /\ treasury' = treasury /\ treasury \in Nat
  BY DEF InFlight, PostClaim, IInv, TypeOK
<1> QED
  BY <1>1, <1>3, <1>4, <1>5, <1>6, SumsAreInts DEF Conservation, IInv

\* challenge(): from the balance into the call.
LEMMA ChallengeConserves ==
  ASSUME IInv, IInv', Conservation, NEW c \in Claims, NEW n \in Nodes, NEW s \in Stakes,
         NEW v \in Bodies, Challenge(c, n, s, v)
  PROVE  Conservation'
<1>1. s \in Nat /\ [claim |-> c, stake |-> s, body |-> v] # None
  BY NoneAssumption, StakeAssumption DEF Call
<1>2. /\ calls'[n] = [claim |-> c, stake |-> s, body |-> v]
      /\ \A m \in Nodes \ {n} : calls'[m] = calls[m]
  BY DEF Challenge, IInv, TypeOK
<1>3. SumFunction(InFlight') = SumFunction(InFlight) - InFlight[n] + InFlight'[n]
  BY <1>2, FlightSum DEF IInv
<1>4. InFlight[n] = 0 /\ InFlight'[n] = s
  BY <1>1, <1>2 DEF InFlight, Challenge
<1>5. SumFunction(balances') = SumFunction(balances) - s
  BY <1>1, CreditSum DEF Challenge, IInv
<1>6. Locked' = Locked /\ stranded' = stranded /\ treasury' = treasury /\ treasury \in Nat
  BY DEF Locked, IsPosted, Challenge, IInv, TypeOK
<1> QED
  BY <1>1, <1>3, <1>4, <1>5, <1>6, SumsAreInts DEF Conservation, IInv

\* A throw: from the call into what is stranded.
LEMMA ThrowConserves ==
  ASSUME IInv, IInv', Conservation, NEW n \in Nodes, AdjudicateThrows(n)
  PROVE  Conservation'
<1>1. calls[n] # None /\ calls[n].claim \in Claims /\ calls[n].stake \in Nat
  BY LedgerTypes DEF AdjudicateThrows, IInv
<1>2. calls'[n] = None /\ \A m \in Nodes \ {n} : calls'[m] = calls[m]
  BY DEF AdjudicateThrows, IInv, TypeOK
<1>3. SumFunction(InFlight') = SumFunction(InFlight) - InFlight[n] + InFlight'[n]
  BY <1>2, FlightSum DEF IInv
<1>4. InFlight[n] = calls[n].stake /\ InFlight'[n] = 0
  BY <1>1, <1>2 DEF InFlight
<1>5. SumFunction(stranded') = SumFunction(stranded) + calls[n].stake
  <2>1. /\ stranded \in [Nodes -> Int] /\ stranded' \in [Nodes -> Int]
        /\ stranded'[n] = stranded[n] + calls[n].stake
        /\ \A m \in Nodes \ {n} : stranded'[m] = stranded[m]
    BY <1>1 DEF AdjudicateThrows, IInv, TypeOK
  <2>2. /\ SumFunction(stranded) \in Int
        /\ SumFunction(stranded') = SumFunction(stranded) - stranded[n] + stranded'[n]
    BY <2>1, NodeSumMoves
  <2> QED
    BY <1>1, <2>1, <2>2
<1>6. Locked' = Locked /\ balances' = balances /\ treasury' = treasury /\ treasury \in Nat
  BY DEF Locked, IsPosted, AdjudicateThrows, IInv, TypeOK
<1> QED
  BY <1>1, <1>3, <1>4, <1>5, <1>6, SumsAreInts DEF Conservation, IInv

\* finalize(): out of the lock.
LEMMA FinalizeConserves ==
  ASSUME IInv, IInv', Conservation, NEW c \in Claims, Finalize(c)
  PROVE  Conservation'
<1> DEFINE b == bonds[c]
<1>1. b \in Entry /\ b # None /\ b.state = "POSTED" /\ b.node \in Nodes /\ b.bond \in Nat
  BY LedgerTypes DEF Finalize, IsPosted, IInv
<1>2. bonds'[c].state = "FINALIZED" /\ \A d \in Claims \ {c} : bonds'[d] = bonds[d]
  BY <1>1 DEF Finalize, IInv, TypeOK, Entry
<1>3. SumFunction(Locked') = SumFunction(Locked) - Locked[c] + Locked'[c]
  BY <1>2, LockedMoves DEF IInv
<1>4. Locked[c] = b.bond /\ Locked'[c] = 0
  BY <1>1, <1>2 DEF Locked, IsPosted
<1>5. SumFunction(balances') = SumFunction(balances) + b.bond
  BY <1>1, CreditSum DEF Finalize, IInv
<1>6. InFlight' = InFlight /\ stranded' = stranded /\ treasury' = treasury /\ treasury \in Nat
  BY DEF InFlight, Finalize, IInv, TypeOK
<1> QED
  BY <1>1, <1>3, <1>4, <1>5, <1>6, SumsAreInts DEF Conservation, IInv

\* A ruling pays out the bond and the stake, the cut to the treasury: the bond is
\* still locked when it is paid, which is where calls that overlap go wrong.
LEMMA SettleConserves ==
  ASSUME ~Overlap, IInv, IInv', Conservation, NEW n \in Nodes, Settle(n)
  PROVE  Conservation'
<1> DEFINE c == calls[n].claim
           b == bonds[c]
           s == calls[n].stake
<1>1. calls[n] # None /\ c \in Claims /\ s \in Nat
  BY LedgerTypes DEF Settle, IInv
<1>2. b \in Entry /\ b # None /\ b.state = "POSTED" /\ b.node \in Nodes /\ b.bond \in Nat
  BY <1>1, LedgerTypes DEF IInv, AwaitedIsBonded
<1>3. Cut(b.bond) \in Nat /\ Cut(s) \in Nat
  BY <1>1, <1>2, CutType
<1>4. /\ bonds'[c].state \in {"SLASHED", "CHALLENGE_FAILED"}
      /\ \A d \in Claims \ {c} : bonds'[d] = bonds[d]
  BY <1>1, <1>2 DEF Settle, IInv, TypeOK, Entry
<1>5. SumFunction(Locked') = SumFunction(Locked) - Locked[c] + Locked'[c]
  BY <1>1, <1>4, LockedMoves DEF IInv
<1>6. Locked[c] = b.bond /\ Locked'[c] = 0
  BY <1>1, <1>2, <1>4 DEF Locked, IsPosted
<1>7. calls'[n] = None /\ \A m \in Nodes \ {n} : calls'[m] = calls[m]
  BY DEF Settle, IInv, TypeOK
<1>8. SumFunction(InFlight') = SumFunction(InFlight) - InFlight[n] + InFlight'[n]
  BY <1>7, FlightSum DEF IInv
<1>9. InFlight[n] = s /\ InFlight'[n] = 0
  BY <1>1, <1>7 DEF InFlight
<1>10. stranded' = stranded /\ treasury \in Nat
  BY DEF Settle, IInv, TypeOK
<1>11. SumFunction(balances') + treasury' = SumFunction(balances) + treasury + b.bond + s
  <2>1. CASE calls[n].body \in FalseBodies
    <3>1. s + (b.bond - Cut(b.bond)) \in Int
      BY <1>1, <1>2, <1>3
    <3>2. /\ SumFunction(balances) \in Int
          /\ SumFunction(balances') = SumFunction(balances) + (s + (b.bond - Cut(b.bond)))
      BY <2>1, <3>1, CreditSum DEF Settle, Payout, IInv
    <3>3. treasury' = treasury + Cut(b.bond)
      BY <2>1 DEF Settle
    <3> QED
      BY <1>1, <1>2, <1>3, <1>10, <3>2, <3>3
  <2>2. CASE calls[n].body \notin FalseBodies
    <3>1. b.bond + (s - Cut(s)) \in Int
      BY <1>1, <1>2, <1>3
    <3>2. /\ SumFunction(balances) \in Int
          /\ SumFunction(balances') = SumFunction(balances) + (b.bond + (s - Cut(s)))
      BY <1>2, <2>2, <3>1, CreditSum DEF Settle, Payout, IInv
    <3>3. treasury' = treasury + Cut(s)
      BY <2>2 DEF Settle
    <3> QED
      BY <1>1, <1>2, <1>3, <1>10, <3>2, <3>3
  <2> QED
    BY <2>1, <2>2
<1>12. /\ SumFunction(balances) \in Int /\ SumFunction(Locked) \in Int
       /\ SumFunction(InFlight) \in Int /\ SumFunction(stranded) \in Int
  BY <1>1, SumsAreInts DEF IInv
<1>13. SumFunction(balances') \in Int /\ treasury' \in Nat
  <2>1. TypeOK'
    BY DEF IInv
  <2>2. balances' \in [Nodes -> Int] /\ treasury' \in Nat
    BY <2>1 DEF TypeOK
  <2> QED
    BY <2>2, FiniteAssumption, SumChanged
<1>14. b.bond \in Nat /\ s \in Nat
  BY <1>1, <1>2
<1> HIDE DEF c, b, s
<1>15. /\ SumFunction(Locked') = SumFunction(Locked) - b.bond
       /\ SumFunction(InFlight') = SumFunction(InFlight) - s
  BY <1>5, <1>6, <1>8, <1>9, <1>12, <1>14
<1> QED
  BY <1>10, <1>11, <1>12, <1>13, <1>14, <1>15 DEF Conservation

\* One call at a time: what the nodes have and owe, the treasury, and what is locked,
\* in flight or stranded always sum to zero, throwing judges included.
THEOREM SerialConserves ==
  ASSUME ~Overlap
  PROVE  Spec => []Conservation
<1>1. Init => Conservation
  <2> SUFFICES ASSUME Init PROVE Conservation
    OBVIOUS
  <2>1. Locked = [c \in Claims |-> 0] /\ InFlight = [n \in Nodes |-> 0]
    BY DEF Locked, InFlight, IsPosted, Init
  <2>2. /\ SumFunction([c \in Claims |-> 0]) = 0
        /\ SumFunction([n \in Nodes |-> 0]) = 0
    BY FiniteAssumption, SumOfZeros
  <2> QED
    BY <2>1, <2>2 DEF Conservation, Init
<1>2. IInv /\ Conservation /\ [Next]_vars => Conservation'
  <2> SUFFICES ASSUME IInv, Conservation, [Next]_vars PROVE Conservation'
    OBVIOUS
  <2>1. IInv'
    BY NextIInv
  <2>2. CASE Tick \/ UNCHANGED vars
    BY <2>2 DEF Conservation, Locked, InFlight, IsPosted, Tick, vars
  <2> QED
    BY <2>1, <2>2, PostClaimConserves, ChallengeConserves, SettleConserves,
       ThrowConserves, FinalizeConserves
    DEF Next
<1>3. Init => IInv
  BY InitIInv
<1>4. IInv /\ [Next]_vars => IInv'
  BY NextIInv
<1> QED
  BY <1>1, <1>2, <1>3, <1>4, PTL DEF Spec
=============================================================================
