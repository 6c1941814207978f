---------------------------- MODULE ClaimsProofs ----------------------------
(***************************************************************************)
(* Theorems about claims and rulings, for any calendar, paging, lag and    *)
(* length of the history.  A node that saw the whole of a window fetches   *)
(* exactly what happened in it (FetchIsComplete), and what happened in it  *)
(* no later update changes: the inductive invariant says so of every       *)
(* honest claim and of every ruling.                                       *)
(***************************************************************************)
EXTENDS Claims, Sums, SequenceTheorems

InOrder(L) == \A i, j \in 1..Len(L) : i <= j => L[i].time <= L[j].time

\* What is not older than something recent is recent.
LEMMA NotOlder ==
  ASSUME NEW a \in Nat, NEW b \in Nat, NEW lo \in Int, a <= b, a >= lo
  PROVE  b >= lo
  OBVIOUS

\* A set of naturals below a bound has a greatest element.
LEMMA LargestNat ==
  ASSUME NEW n \in Nat, NEW S, S \subseteq 0..n, S # {}
  PROVE  \E x \in S : \A y \in S : y <= x
<1> DEFINE Below == {n - x : x \in S}
<1>1. Below \subseteq Nat /\ Below # {}
  <2>1. \A x \in S : n - x \in Nat
    OBVIOUS
  <2>2. \E x \in S : TRUE
    OBVIOUS
  <2> QED
    BY <2>1, <2>2, Zenon
<1>2. PICK d \in Below : \A e \in Below : d <= e
  BY <1>1, SmallestNat
<1>3. PICK x \in S : d = n - x
  OBVIOUS
<1>4. \A y \in S : n - y \in Below
  OBVIOUS
<1>5. S \subseteq Nat
  OBVIOUS
<1> HIDE DEF Below
<1>6. \A y \in S : d <= n - y
  BY <1>2, <1>4
<1> QED
  BY <1>3, <1>5, <1>6

\* Pages are read until one goes back past lo, so they reach every signature that is
\* not older than lo and not beyond the last page allowed.
LEMMA PagesReach ==
  ASSUME NEW L \in Seq(Transaction), InOrder(L), NEW h \in 0..Len(L), NEW lo \in Int,
         NEW i \in 1..h, i > h - Pages * PageSize, L[i].time >= lo
  PROVE  i \in Reached(L, h, lo)
<1> USE PagingAssumption
<1> DEFINE Q == {q \in 1..Pages : i > h - q * PageSize}
<1>1. Pages \in Q
  OBVIOUS
<1>2. Q \subseteq Nat
  OBVIOUS
<1>3. PICK q \in Q : \A r \in Q : q <= r
  BY <1>1, <1>2, SmallestNat
<1>4. ASSUME NEW p \in 1 .. q-1 PROVE More(L, h, lo, p)
  <2>1. p \in 1..Pages /\ p \notin Q /\ p \in Nat
    BY <1>3
  <2>2. p * PageSize \in Nat /\ p * PageSize >= 1
    BY <2>1
  <2> DEFINE d == p * PageSize
  <2>3. ~(i > h - d)
    BY <2>1
  <2> HIDE DEF d
  <2>4. d \in Nat /\ d >= 1
    BY <2>2 DEF d
  <2>5. Len(L) \in Nat /\ h - d >= 1 /\ h - d + 1 \in 1..Len(L) /\ i <= h - d + 1 /\ i \in 1..Len(L)
    BY <2>3, <2>4
  <2>6. L[i].time <= L[h - d + 1].time /\ L[i].time \in Nat /\ L[h - d + 1].time \in Nat
    <3>1. L[i] \in Transaction /\ L[h - d + 1] \in Transaction
      BY <2>5, ElementOfSeq
    <3> QED
      BY <2>5, <3>1, Zenon DEF InOrder, Transaction
  <2>7. L[h - d + 1].time >= lo
    BY <2>6, NotOlder, Zenon
  <2> QED
    BY <2>5, <2>7 DEF More, Bottom, d
<1> QED
  BY <1>3, <1>4 DEF Reached

\* What a node fetches of a window its pages cover is what it has of the window.
LEMMA FetchIsComplete ==
  ASSUME NEW L \in Seq(Transaction), InOrder(L), NEW h \in 0..Len(L),
         NEW lo \in Int, NEW hi \in Int,
         \A i \in 1..h : L[i].time >= lo => i > h - Pages * PageSize
  PROVE  FetchObservations(L, h, lo, hi) = Between(L, 1..h, lo, hi)
<1>1. Reached(L, h, lo) \subseteq 1..h
  BY DEF Reached
<1>2. \A i \in 1..h : L[i].time \in Nat
  <2>1. \A i \in 1..h : L[i] \in Transaction
    OBVIOUS
  <2> QED
    BY <2>1, Zenon DEF Transaction
<1>3. \A i \in 1..h : lo <= L[i].time => i \in Reached(L, h, lo)
  BY <1>2, PagesReach
<1> QED
  BY <1>1, <1>3 DEF FetchObservations, Between

-----------------------------------------------------------------------------
(* The inductive invariant. *)

\* What the judge compares with, once the window is over.
Truth(claim) == Flag(log, Happened(claim))
Correct(claim) == claim.obs = Happened(claim) /\ claim.flag = Truth(claim)

LogInOrder ==
  /\ log \in Seq(Transaction) /\ Len(log) <= MaxUpdates /\ now \in Nat
  /\ InOrder(log)
  /\ \A i \in 1..Len(log) : log[i].time <= now

Posted == {rows[r] : r \in 1..Len(rows)}

\* An honest claim is what happened, for a node that could see its window.
RowsAreHonest ==
  /\ rows \in Seq(Claim)
  /\ \A claim \in Posted :
       /\ claim.head <= Len(log)
       /\ claim.honest /\ Sees(claim.head, claim) => Correct(claim)

\* A judge that could see the window ruled on what happened.
RulingsAreCorrect ==
  \A g \in rulings :
    /\ g.row \in 1..Len(rows) /\ g.head \in 0..Len(log)
    /\ \A claim \in Posted :
         claim = rows[g.row] /\ Sees(g.head, claim) => (g.valid <=> Correct(claim))

IInv == LogInOrder /\ RowsAreHonest /\ RulingsAreCorrect

\* All of a window a node sees is in the history it has.
LEMMA WindowIsPast ==
  ASSUME LogInOrder, NEW h \in 0..Len(log), NEW claim, claim.to \in Int, Sees(h, claim)
  PROVE  Between(log, 1..h, claim.from, claim.to) = Happened(claim)
<1>1. \A i \in 1..Len(log) : log[i].time \in Nat
  <2>1. \A i \in 1..Len(log) : log[i] \in Transaction
    BY DEF LogInOrder
  <2> QED
    BY <2>1, Zenon DEF Transaction
<1>2. \A i \in 1..Len(log) : i > h => ~(log[i].time <= claim.to)
  BY <1>1 DEF Sees
<1>3. \A i \in Int : i \in 1..Len(log) /\ ~(i > h) <=> i \in 1..h
  BY DEF LogInOrder
<1> QED
  BY <1>2, <1>3 DEF Between, Happened

\* A node that sees a window fetches what happened in it.
LEMMA SeesAll ==
  ASSUME LogInOrder, NEW h \in 0..Len(log), NEW claim, claim.from \in Int, claim.to \in Int,
         Sees(h, claim)
  PROVE  FetchObservations(log, h, claim.from, claim.to) = Happened(claim)
<1>1. FetchObservations(log, h, claim.from, claim.to) = Between(log, 1..h, claim.from, claim.to)
  BY FetchIsComplete DEF LogInOrder, Sees
<1> QED
  BY <1>1, WindowIsPast

\* The verdict on given observations does not change as the history grows.
LEMMA FlagStays ==
  ASSUME NEW L, NEW M, NEW obs, \A i \in obs : M[i] = L[i]
  PROVE  Flag(M, obs) = Flag(L, obs)
<1>1. TimesOf(M, obs) = TimesOf(L, obs)
  BY DEF TimesOf
<1>2. ClosedUpdates(M, obs) = ClosedUpdates(L, obs)
  BY DEF ClosedUpdates
<1>3. Signal(M, obs) = Signal(L, obs)
  BY <1>1, <1>2 DEF Signal
<1> QED
  BY <1>3 DEF Flag

\* The history grows at its end, and what a node that saw a window knows of it stays
\* so: the log only gets later transactions, and one that falls into the window
\* means that the node does not see it any more.
LEMMA UpdateKeeps ==
  ASSUME LogInOrder, Update, NEW claim \in Claim, NEW h \in 0..Len(log), Sees(h, claim)'
  PROVE  Sees(h, claim) /\ (Correct(claim)' <=> Correct(claim))
<1>1. PICK tx : log' = Append(log, tx)
  BY DEF Update
<1>2. /\ Len(log) \in Nat /\ Len(log') = Len(log) + 1
      /\ \A i \in 1..Len(log) : log'[i] = log[i]
  BY <1>1 DEF LogInOrder
<1>3. Sees(h, claim)
  BY <1>2 DEF Sees
<1>4. log'[Len(log')].time > claim.to
  BY <1>2 DEF Sees
<1>5. log'[Len(log')].time \in Int /\ claim.to \in Int
  <2>1. log'[Len(log')].time = now /\ now \in Nat
    BY <1>2 DEF Update, LogInOrder
  <2>2. claim.to \in Nat
    BY Zenon DEF Claim
  <2> QED
    BY <2>1, <2>2
<1>6. Happened(claim)' = Happened(claim)
  BY <1>2, <1>4, <1>5 DEF Happened, Between
<1>7. Truth(claim)' = Truth(claim)
  <2>1. \A i \in Happened(claim) : log'[i] = log[i]
    BY <1>2 DEF Happened, Between
  <2> QED
    BY <1>6, <2>1, FlagStays DEF Truth
<1> QED
  BY <1>3, <1>6, <1>7 DEF Correct

\* A claim is a record of what claim.mjs puts into it.
LEMMA ClaimFields ==
  ASSUME NEW claim \in Claim
  PROVE  /\ claim.from \in Nat /\ claim.to \in Nat /\ claim.head \in Nat
         /\ claim.honest \in BOOLEAN
  BY Zenon DEF Claim

\* A transaction on chain does not undo what was claimed or ruled.
LEMMA UpdateIInv == IInv /\ Update => IInv'
<1> SUFFICES ASSUME IInv, Update PROVE IInv'
  OBVIOUS
<1>1. PICK tx \in Transaction : tx.time = now /\ log' = Append(log, tx)
  <2>1. PICK ok \in BOOLEAN : log' = Append(log, [time |-> now, ok |-> ok])
    BY DEF Update
  <2>2. [time |-> now, ok |-> ok] \in Transaction
    BY Zenon DEF IInv, LogInOrder, Transaction
  <2> QED
    BY <2>1, <2>2
<1>2. /\ Len(log) \in Nat /\ Len(log') = Len(log) + 1 /\ log'[Len(log) + 1] = tx
      /\ \A i \in 1..Len(log) : log'[i] = log[i]
      /\ log' \in Seq(Transaction)
  BY <1>1 DEF IInv, LogInOrder
<1>3. LogInOrder'
  <2>1. \A i \in 1..Len(log') : log'[i].time <= now
    BY <1>1, <1>2 DEF IInv, LogInOrder
  <2>2. InOrder(log')
    <3> SUFFICES ASSUME NEW i \in 1..Len(log'), NEW j \in 1..Len(log'), i <= j
                 PROVE  log'[i].time <= log'[j].time
      BY DEF InOrder
    <3>1. CASE j = Len(log) + 1
      BY <1>1, <1>2, <2>1, <3>1
    <3>2. CASE j # Len(log) + 1
      BY <1>2, <3>2 DEF IInv, LogInOrder, InOrder
    <3> QED
      BY <3>1, <3>2
  <2>3. Len(log') <= MaxUpdates
    BY <1>2, BoundsAssumption DEF Update
  <2> QED
    BY <1>2, <2>1, <2>2, <2>3 DEF IInv, LogInOrder, Update
<1>4. Posted' = Posted /\ rows' = rows /\ rulings' = rulings /\ Posted \subseteq Claim
  BY DEF Update, Posted, IInv, RowsAreHonest
<1>5. \A claim \in Posted, h \in 0..Len(log) :
        Sees(h, claim)' => Sees(h, claim) /\ (Correct(claim)' <=> Correct(claim))
  BY <1>4, UpdateKeeps DEF IInv
<1>6. RowsAreHonest'
  <2> SUFFICES ASSUME NEW claim \in Posted
               PROVE  /\ claim.head <= Len(log')
                      /\ claim.honest /\ Sees(claim.head, claim)' => Correct(claim)'
    BY <1>4 DEF IInv, RowsAreHonest
  <2>1. claim.head <= Len(log) /\ claim.head \in Nat
    BY <1>4, ClaimFields DEF IInv, RowsAreHonest
  <2>2. claim.head \in 0..Len(log) /\ claim.head <= Len(log')
    BY <1>2, <2>1
  <2> QED
    BY <1>5, <2>2 DEF IInv, RowsAreHonest
<1>7. RulingsAreCorrect'
  <2> SUFFICES ASSUME NEW g \in rulings
               PROVE  /\ g.row \in 1..Len(rows) /\ g.head \in 0..Len(log')
                      /\ \A claim \in Posted :
                           claim = rows[g.row] /\ Sees(g.head, claim)'
                             => (g.valid <=> Correct(claim)')
    BY <1>4 DEF RulingsAreCorrect
  <2>1. g.row \in 1..Len(rows) /\ g.head \in 0..Len(log)
    BY DEF IInv, RulingsAreCorrect
  <2> QED
    BY <1>2, <1>5, <2>1 DEF IInv, RulingsAreCorrect
<1> QED
  BY <1>3, <1>6, <1>7 DEF IInv

\* A claim posted at the end of the registry.
LEMMA PostIInv ==
  ASSUME IInv, NEW claim \in Claim, Post(claim), claim.head <= Len(log),
         claim.honest /\ Sees(claim.head, claim) => Correct(claim)
  PROVE  IInv'
<1>1. /\ rows' = Append(rows, claim) /\ log' = log /\ now' = now /\ rulings' = rulings
      /\ rows \in Seq(Claim) /\ Len(rows) \in Nat
  BY DEF Post, IInv, RowsAreHonest
<1>2. /\ rows' \in Seq(Claim) /\ Len(rows') = Len(rows) + 1
      /\ \A r \in 1..Len(rows) : rows'[r] = rows[r]
      /\ rows'[Len(rows) + 1] = claim
  BY <1>1
<1>3. Posted' = Posted \cup {claim}
  BY <1>2 DEF Posted
<1>4. \A c : (Correct(c)' <=> Correct(c)) /\ \A h : Sees(h, c)' <=> Sees(h, c)
  BY <1>1 DEF Correct, Truth, Happened, Sees
<1>5. RowsAreHonest'
  BY <1>1, <1>2, <1>3, <1>4 DEF IInv, RowsAreHonest
<1>6. RulingsAreCorrect'
  <2> SUFFICES ASSUME NEW g \in rulings
               PROVE  /\ g.row \in 1..Len(rows') /\ g.head \in 0..Len(log)
                      /\ \A c \in Posted' :
                           c = rows'[g.row] /\ Sees(g.head, c) => (g.valid <=> Correct(c))
    BY <1>1, <1>4 DEF RulingsAreCorrect
  <2>1. g.row \in 1..Len(rows) /\ g.head \in 0..Len(log)
    BY DEF IInv, RulingsAreCorrect
  <2>2. rows'[g.row] = rows[g.row] /\ rows[g.row] \in Posted
    BY <1>2, <2>1 DEF Posted
  <2> QED
    BY <1>2, <2>1, <2>2 DEF IInv, RulingsAreCorrect
<1>7. LogInOrder'
  BY <1>1 DEF IInv, LogInOrder
<1> QED
  BY <1>5, <1>6, <1>7 DEF IInv

\* What is fetched is successful updates of the window, and the times are numbers.
LEMMA FetchType ==
  ASSUME LogInOrder, NEW h \in Heads, NEW lo, NEW hi
  PROVE  /\ h \in 0..Len(log)
         /\ FetchObservations(log, h, lo, hi) \in SUBSET (1..MaxUpdates)
         /\ FetchObservations(log, h, lo, hi) = Between(log, Reached(log, h, lo), lo, hi)
         /\ Reached(log, h, lo) \subseteq 1..h
         /\ \A i \in 1..Len(log) : log[i].time \in 0..now
<1>1. h \in 0..Len(log) /\ Len(log) \in Nat /\ Len(log) <= MaxUpdates /\ MaxUpdates \in Nat
  BY BoundsAssumption DEF Heads, LogInOrder
<1>2. Reached(log, h, lo) \subseteq 1..h
  BY DEF Reached
<1>3. FetchObservations(log, h, lo, hi) = Between(log, Reached(log, h, lo), lo, hi)
  BY DEF FetchObservations
<1>4. FetchObservations(log, h, lo, hi) \subseteq 1..h
  BY <1>2, <1>3 DEF Between
<1>5. \A i \in 1..Len(log) : log[i].time \in Nat
  <2>1. \A i \in 1..Len(log) : log[i] \in Transaction
    BY DEF LogInOrder
  <2> QED
    BY <2>1, Zenon DEF Transaction
<1>6. \A i \in 1..Len(log) : log[i].time \in 0..now
  BY <1>5 DEF LogInOrder
<1> QED
  BY <1>1, <1>2, <1>3, <1>4, <1>6

\* A verdict is one of the flags.
LEMMA FlagType ==
  ASSUME NEW L, NEW obs
  PROVE  Flag(L, obs) \in {"RED", "YELLOW", "UNKNOWN"}
  BY DEF Flag

\* The window an emitter pins starts and ends with an update it found.
LEMMA WindowIsPinned ==
  ASSUME NEW n \in Nat, NEW times, times \subseteq 0..n, times # {}
  PROVE  /\ Min(times) \in times /\ Max(times) \in times
         /\ \A t \in times : Min(times) <= t /\ t <= Max(times)
<1>1. \E x \in times : \A y \in times : x <= y
  <2>1. times \subseteq Nat
    OBVIOUS
  <2> QED
    BY <2>1, SmallestNat
<1>2. \E x \in times : \A y \in times : y <= x
  BY LargestNat
<1>3. Min(times) \in times /\ \A t \in times : Min(times) <= t
  BY <1>1, Zenon DEF Min
<1>4. Max(times) \in times /\ \A t \in times : t <= Max(times)
  <2>1. \E x \in times : \A y \in times : x >= y
    BY <1>2
  <2>2. Max(times) \in times /\ \A t \in times : Max(times) >= t
    BY <2>1, Zenon DEF Max
  <2> QED
    BY <2>2
<1> QED
  BY <1>3, <1>4

\* An emitter posts what happened in the window it pins.
LEMMA EmitIInv == IInv /\ Emit => IInv'
<1> SUFFICES ASSUME IInv, Emit PROVE IInv'
  OBVIOUS
<1> DEFINE lo == now - Trailing
           Obs(h) == FetchObservations(log, h, lo, now)
<1>1. PICK h \in Heads :
        /\ Obs(h) # {}
        /\ Post([from |-> Min(TimesOf(log, Obs(h))), to |-> Max(TimesOf(log, Obs(h))),
                  obs |-> Obs(h), flag |-> Flag(log, Obs(h)), honest |-> TRUE, head |-> h])
  BY DEF Emit
<1> DEFINE times == TimesOf(log, Obs(h))
           from == Min(times)
           to == Max(times)
           claim == [from |-> from, to |-> to, obs |-> Obs(h), flag |-> Flag(log, Obs(h)),
                     honest |-> TRUE, head |-> h]
<1>2. lo \in Int /\ now \in Nat
  BY BoundsAssumption DEF IInv, LogInOrder
<1>3. /\ h \in 0..Len(log) /\ Obs(h) \in SUBSET (1..MaxUpdates)
      /\ Obs(h) = Between(log, Reached(log, h, lo), lo, now)
      /\ Reached(log, h, lo) \subseteq 1..h
      /\ \A i \in 1..Len(log) : log[i].time \in 0..now
  BY FetchType DEF IInv
<1>4. Obs(h) \subseteq 1..h /\ 1..h \subseteq 1..Len(log) /\ Len(log) \in Nat
  BY <1>3 DEF Between, IInv, LogInOrder
<1>5. /\ times \subseteq 0..now /\ times # {}
      /\ \A i \in Obs(h) : log[i].time \in times
      /\ \A t \in times : lo <= t
  BY <1>1, <1>3, <1>4 DEF TimesOf, Between
<1>6. /\ from \in times /\ to \in times
      /\ \A t \in times : from <= t /\ t <= to
  BY <1>2, <1>5, WindowIsPinned
<1>7. from \in Nat /\ to \in Nat /\ lo <= from /\ to <= now
  BY <1>5, <1>6
<1>8. Flag(log, Obs(h)) \in {"RED", "YELLOW", "UNKNOWN"}
  BY FlagType
<1> HIDE DEF from, to, times, lo, Obs
<1>9. claim \in Claim
  <2>1. h \in Nat
    BY <1>3
  <2> QED
    BY <1>3, <1>7, <1>8, <2>1, Zenon DEF Claim
<1>10. ASSUME Sees(h, claim) PROVE Correct(claim)
  <2>1. \A i \in 1..h : from <= log[i].time => i \in Reached(log, h, lo)
    <3> SUFFICES ASSUME NEW i \in 1..h, from <= log[i].time
                 PROVE  i \in Reached(log, h, lo)
      OBVIOUS
    <3>1. i > h - Pages * PageSize
      BY <1>10 DEF Sees
    <3>2. log[i].time >= lo
      BY <1>2, <1>3, <1>4, <1>7
    <3> QED
      BY <1>2, <1>3, <3>1, <3>2, PagesReach DEF IInv, LogInOrder
  <2>2. Obs(h) = Between(log, 1..h, from, to)
    <3>1. ASSUME NEW i \in Obs(h) PROVE i \in Between(log, 1..h, from, to)
      BY <1>3, <1>4, <1>5, <1>6 DEF Between
    <3>2. ASSUME NEW i \in Between(log, 1..h, from, to) PROVE i \in Obs(h)
      <4>1. /\ i \in 1..h /\ log[i].ok /\ from <= log[i].time /\ log[i].time <= to
            /\ log[i].time \in 0..now
        BY <1>3, <1>4 DEF Between
      <4>2. lo <= log[i].time /\ log[i].time <= now
        BY <1>2, <1>7, <4>1
      <4> QED
        BY <1>3, <2>1, <4>1, <4>2 DEF Between
    <3> QED
      BY <3>1, <3>2
  <2>3. Between(log, 1..h, claim.from, claim.to) = Happened(claim)
    BY <1>3, <1>7, <1>10, WindowIsPast DEF IInv
  <2> QED
    BY <2>2, <2>3 DEF Correct, Truth
<1>11. Post(claim) /\ claim.head <= Len(log) /\ claim.head = h
  BY <1>1, <1>3, <1>4 DEF from, to, times
<1> HIDE DEF claim
<1> QED
  BY <1>9, <1>10, <1>11, PostIInv

\* A second node posts what happened in the window it was given.
LEMMA ReexecuteIInv == IInv /\ Reexecute => IInv'
<1> SUFFICES ASSUME IInv, Reexecute PROVE IInv'
  OBVIOUS
<1> DEFINE Rebuilt(old, h) ==
             LET obs == FetchObservations(log, h, old.from, old.to)
             IN [from |-> old.from, to |-> old.to, obs |-> obs, flag |-> Flag(log, obs),
                 honest |-> TRUE, head |-> h]
<1>1. PICK r \in 1..Len(rows), h \in Heads : Post(Rebuilt(rows[r], h))
  BY DEF Reexecute
<1> DEFINE old == rows[r]
           obs == FetchObservations(log, h, old.from, old.to)
           claim == [from |-> old.from, to |-> old.to, obs |-> obs, flag |-> Flag(log, obs),
                     honest |-> TRUE, head |-> h]
<1>2. old \in Claim
  BY DEF IInv, RowsAreHonest
<1>3. old.from \in Nat /\ old.to \in Nat
  BY <1>2, ClaimFields
<1>4. h \in 0..Len(log) /\ obs \in SUBSET (1..MaxUpdates) /\ Len(log) \in Nat
  BY FetchType DEF IInv, LogInOrder
<1>5. Flag(log, obs) \in {"RED", "YELLOW", "UNKNOWN"}
  BY FlagType
<1>6. Post(claim)
  BY <1>1
<1> HIDE DEF old
<1>7. ASSUME Sees(h, claim) PROVE Correct(claim)
  <2>1. obs = Happened(claim)
    BY <1>3, <1>4, <1>7, SeesAll DEF IInv
  <2> QED
    BY <2>1 DEF Correct, Truth
<1> HIDE DEF obs
<1>8. claim \in Claim
  <2>1. h \in Nat
    BY <1>4
  <2> QED
    BY <1>3, <1>4, <1>5, <2>1, Zenon DEF Claim
<1>9. claim.head = h /\ claim.head <= Len(log)
  BY <1>4
<1> HIDE DEF claim
<1> QED
  BY <1>6, <1>7, <1>8, <1>9, PostIInv

\* Nothing is claimed of the others.
LEMMA PostOtherIInv == IInv /\ PostOther => IInv'
<1> SUFFICES ASSUME IInv, PostOther PROVE IInv'
  OBVIOUS
<1>1. PICK from \in 0..now, to \in 0..now, obs \in SUBSET (1..Len(log)),
           flag \in {"RED", "YELLOW"} :
        Post([from |-> from, to |-> to, obs |-> obs, flag |-> flag,
              honest |-> FALSE, head |-> Len(log)])
  BY DEF PostOther
<1> DEFINE claim == [from |-> from, to |-> to, obs |-> obs, flag |-> flag,
                     honest |-> FALSE, head |-> Len(log)]
<1>2. /\ from \in Nat /\ to \in Nat /\ Len(log) \in Nat
      /\ obs \in SUBSET (1..MaxUpdates)
      /\ flag \in {"RED", "YELLOW", "UNKNOWN"}
  BY BoundsAssumption DEF IInv, LogInOrder
<1>3. claim \in Claim
  BY <1>2, Zenon DEF Claim
<1>4. claim.head <= Len(log) /\ ~claim.honest
  BY <1>2
<1>5. Post(claim)
  BY <1>1
<1> HIDE DEF claim
<1> QED
  BY <1>3, <1>4, <1>5, PostIInv

\* A judge that sees the window compares with what happened.
LEMMA AdjudicateIInv == IInv /\ Adjudicate => IInv'
<1> SUFFICES ASSUME IInv, Adjudicate PROVE IInv'
  OBVIOUS
<1>1. PICK r \in 1..Len(rows), h \in Heads :
        rulings' = rulings \cup {[row |-> r, at |-> now, head |-> h,
                                   valid |-> Valid(rows[r], h)]}
  BY DEF Adjudicate
<1> DEFINE new == [row |-> r, at |-> now, head |-> h, valid |-> Valid(rows[r], h)]
<1>2. UNCHANGED <<log, now, rows>>
  BY DEF Adjudicate
<1>3. rows[r] \in Claim /\ rows[r] \in Posted
  BY DEF IInv, RowsAreHonest, Posted
<1>4. rows[r].from \in Nat /\ rows[r].to \in Nat
  BY <1>3, ClaimFields
<1>5. h \in 0..Len(log)
  BY FetchType DEF IInv
<1>6. Sees(h, rows[r]) => (Valid(rows[r], h) <=> Correct(rows[r]))
  <2> SUFFICES ASSUME Sees(h, rows[r]) PROVE Valid(rows[r], h) <=> Correct(rows[r])
    OBVIOUS
  <2>1. FetchObservations(log, h, rows[r].from, rows[r].to) = Happened(rows[r])
    BY <1>4, <1>5, SeesAll DEF IInv
  <2> QED
    BY <2>1, Zenon DEF Valid, Correct, Truth
<1>7. new.row = r /\ new.head = h /\ new.valid = Valid(rows[r], h)
  OBVIOUS
<1> HIDE DEF new
<1>8. /\ new.row \in 1..Len(rows) /\ new.head \in 0..Len(log)
      /\ \A claim \in Posted :
           claim = rows[new.row] /\ Sees(new.head, claim) => (new.valid <=> Correct(claim))
  BY <1>5, <1>6, <1>7, Zenon
<1>9. rulings' = rulings \cup {new}
  BY <1>1 DEF new
<1>10. \A g \in rulings' :
         /\ g.row \in 1..Len(rows) /\ g.head \in 0..Len(log)
         /\ \A claim \in Posted :
              claim = rows[g.row] /\ Sees(g.head, claim) => (g.valid <=> Correct(claim))
  BY <1>8, <1>9 DEF IInv, RulingsAreCorrect
<1> QED
  BY <1>2, <1>10
  DEF IInv, LogInOrder, RowsAreHonest, RulingsAreCorrect, Posted, Correct, Truth, Happened, Sees

\* The registry and the rulings start empty.
LEMMA InitIInv == Init => IInv
  BY BoundsAssumption
  DEF Init, IInv, LogInOrder, InOrder, RowsAreHonest, RulingsAreCorrect, Posted

\* Every step keeps the invariant.
LEMMA NextIInv == IInv /\ [Next]_vars => IInv'
<1> SUFFICES ASSUME IInv, [Next]_vars PROVE IInv'
  OBVIOUS
<1>1. CASE Tick
  <2>1. log' = log /\ rows' = rows /\ rulings' = rulings /\ now' = now + 1
    BY <1>1 DEF Tick
  <2>2. \A i \in 1..Len(log) : log[i].time \in Nat
    <3>1. \A i \in 1..Len(log) : log[i] \in Transaction
      BY DEF IInv, LogInOrder
    <3> QED
      BY <3>1, Zenon DEF Transaction
  <2>3. LogInOrder'
    BY <2>1, <2>2 DEF IInv, LogInOrder
  <2> QED
    BY <2>1, <2>3
    DEF IInv, RowsAreHonest, RulingsAreCorrect, Posted, Correct, Truth, Happened, Sees
<1>2. CASE UNCHANGED vars
  BY <1>2 DEF vars, IInv, LogInOrder, RowsAreHonest, RulingsAreCorrect, Posted, Correct, Truth,
              Happened, Sees
<1> QED
  BY <1>1, <1>2, UpdateIInv, EmitIInv, PostOtherIInv, ReexecuteIInv, AdjudicateIInv DEF Next

-----------------------------------------------------------------------------
(* Types. *)

\* What TypeOK asks for beyond the invariant.
Bounded == now <= MaxTime /\ Len(rows) <= MaxRows /\ rulings \subseteq Ruling

LEMMA NextBounded == IInv /\ Bounded /\ [Next]_vars => Bounded'
<1> SUFFICES ASSUME IInv, Bounded, [Next]_vars PROVE Bounded'
  OBVIOUS
<1>1. MaxTime \in Nat /\ MaxRows \in Nat
  BY BoundsAssumption
<1>2. now \in Nat /\ rows \in Seq(Claim) /\ Len(log) \in Nat
  BY DEF IInv, LogInOrder, RowsAreHonest
<1>3. CASE Adjudicate
  <2>1. PICK r \in 1..Len(rows), h \in Heads :
          rulings' = rulings \cup {[row |-> r, at |-> now, head |-> h,
                                    valid |-> Valid(rows[r], h)]}
    BY <1>3 DEF Adjudicate
  <2>2. r \in Nat \ {0} /\ h \in Nat
    BY <1>2 DEF Heads
  <2>3. Valid(rows[r], h) \in BOOLEAN
    BY Zenon DEF Valid
  <2>4. rulings' \subseteq Ruling
    BY <1>2, <2>1, <2>2, <2>3 DEF Bounded, Ruling
  <2> QED
    BY <1>3, <2>4 DEF Bounded, Adjudicate
<1>4. ASSUME NEW claim, Post(claim)
      PROVE  Bounded'
  BY <1>1, <1>2, <1>4 DEF Bounded, Post
<1>5. CASE Emit
  BY <1>4, <1>5 DEF Emit
<1>6. CASE Reexecute
  BY <1>4, <1>6 DEF Reexecute
<1>7. CASE PostOther
  BY <1>4, <1>7 DEF PostOther
<1>8. CASE Update \/ Tick \/ UNCHANGED vars
  BY <1>1, <1>2, <1>8 DEF Bounded, Update, Tick, vars
<1> QED
  BY <1>3, <1>5, <1>6, <1>7, <1>8 DEF Next

\* The history is in the order of its times and never ahead of the clock, and every
\* claim and every ruling is about transactions and claims that are there.
THEOREM RegistryIsTyped == Spec => []TypeOK
<1>1. Init => Bounded
  BY BoundsAssumption DEF Init, Bounded
<1>2. IInv /\ Bounded => TypeOK
  <2> SUFFICES ASSUME IInv, Bounded PROVE TypeOK
    OBVIOUS
  <2>1. now \in 0..MaxTime
    BY BoundsAssumption DEF IInv, LogInOrder, Bounded
  <2>2. \A i, j \in 1..Len(log) : i <= j => log[i].time <= log[j].time /\ log[j].time <= now
    BY DEF IInv, LogInOrder, InOrder
  <2>3. \A r \in 1..Len(rows) : rows[r].head <= Len(log)
    BY DEF IInv, RowsAreHonest, Posted
  <2>4. \A g \in rulings : g.row <= Len(rows) /\ g.head <= Len(log)
    BY DEF IInv, RowsAreHonest, LogInOrder, RulingsAreCorrect
  <2> QED
    BY <2>1, <2>2, <2>3, <2>4 DEF TypeOK, IInv, LogInOrder, RowsAreHonest, Bounded
<1>3. IInv /\ Bounded /\ [Next]_vars => IInv' /\ Bounded'
  BY NextIInv, NextBounded
<1> QED
  BY InitIInv, <1>1, <1>2, <1>3, PTL DEF Spec

-----------------------------------------------------------------------------
\* A claim that a judge who saw its window upheld carries the verdict that follows
\* from everything that happened there, whoever put it together.
THEOREM JudgeIsRight == Spec => []RulingIsTrue
<1>1. IInv => RulingIsTrue
  <2> SUFFICES ASSUME IInv, NEW g \in rulings, g.valid, Sees(g.head, rows[g.row])
               PROVE  rows[g.row].flag = Flag(log, Happened(rows[g.row]))
    BY DEF RulingIsTrue
  <2>1. rows[g.row] \in Posted
    BY DEF IInv, RulingsAreCorrect, Posted
  <2> QED
    BY <2>1 DEF IInv, RulingsAreCorrect, Correct, Truth
<1> QED
  BY InitIInv, NextIInv, <1>1, PTL DEF Spec

\* An honest claim, emitted or rebuilt by a node that saw its window, is upheld by
\* every judge that sees it, at any later time.
THEOREM HonestyStands == Spec => []HonestClaimStands
<1>1. IInv => HonestClaimStands
  <2> SUFFICES ASSUME IInv, NEW g \in rulings, rows[g.row].honest,
                      Sees(rows[g.row].head, rows[g.row]), Sees(g.head, rows[g.row])
               PROVE  g.valid
    BY DEF HonestClaimStands
  <2>1. rows[g.row] \in Posted
    BY DEF IInv, RulingsAreCorrect, Posted
  <2>2. Correct(rows[g.row])
    BY <2>1 DEF IInv, RowsAreHonest
  <2> QED
    BY <2>1, <2>2 DEF IInv, RulingsAreCorrect
<1> QED
  BY InitIInv, NextIInv, <1>1, PTL DEF Spec
=============================================================================
