------------------------------- MODULE Claims -------------------------------
(***************************************************************************)
(* Closed-market claims between nodes: claim.mjs emits one, registry.mjs   *)
(* posts it, node2.mjs rebuilds it and judge.mjs rules on it, while the    *)
(* price account goes on being updated.  Each fetches the observations for *)
(* itself, from an RPC node that may lag; once the first page is read the  *)
(* cursor fixes the rest, so a fetch is one step.                          *)
(***************************************************************************)
EXTENDS Observations, FiniteSetsExt

CONSTANTS
  MaxTime,     \* bound on the clock
  MaxUpdates,  \* bound on the account's history
  MaxLag,      \* how many transactions an RPC node may be behind
  Trailing,    \* the trailing window of the emitter (84 hours)
  MaxRows,     \* bound on the claims posted
  MaxRulings   \* bound on the rulings

ASSUME BoundsAssumption ==
  {MaxTime, MaxUpdates, MaxLag, Trailing, MaxRows, MaxRulings} \subseteq Nat
ASSUME MarketAssumption ==
  MarketAt \in [0..MaxTime -> {"OPEN", "HALF_DAY", "CLOSED"}]

VARIABLES
  log,      \* the transactions of the price account
  now,      \* the clock, that of the blocks and that of the emitter
  rows,     \* the claims posted, in order
  rulings   \* what the judge said

vars == <<log, now, rows, rulings>>

\* What claim_id hashes is a function of window, observations and flag.  `honest`
\* and `head` (the transactions its node saw) are history.
Claim ==
  [from : Nat, to : Nat, obs : SUBSET (1..MaxUpdates), flag : {"RED", "YELLOW", "UNKNOWN"},
   honest : BOOLEAN, head : Nat]

\* Given at a time `at` by a judge that saw `head` transactions.
Ruling == [row : Nat \ {0}, at : Nat, head : Nat, valid : BOOLEAN]

Heads == {h \in 0..Len(log) : h >= Len(log) - MaxLag}

Init ==
  /\ log = <<>> /\ now = 0
  /\ rows = <<>> /\ rulings = {}

\* The venue's price account is updated, or an update fails.
Update ==
  /\ Len(log) < MaxUpdates
  /\ \E ok \in BOOLEAN : log' = Append(log, [time |-> now, ok |-> ok])
  /\ UNCHANGED <<now, rows, rulings>>

Tick ==
  /\ now < MaxTime /\ now' = now + 1
  /\ UNCHANGED <<log, rows, rulings>>

Post(claim) ==
  /\ Len(rows) < MaxRows
  /\ rows' = Append(rows, claim)
  /\ UNCHANGED <<log, now, rulings>>

\* node claim.mjs: the window is pinned to the first and last update found.
Emit ==
  \E h \in Heads :
    LET obs   == FetchObservations(log, h, now - Trailing, now)
        times == TimesOf(log, obs)
    IN /\ obs # {}
       /\ Post([from |-> Min(times), to |-> Max(times), obs |-> obs,
                flag |-> Flag(log, obs), honest |-> TRUE, head |-> h])

\* Anything else somebody may post: updates left out, others that failed or are
\* outside the window put in, a verdict that does not follow.  One such claim, the
\* first, is enough.
PostOther ==
  /\ rows = <<>>
  /\ \E from, to \in 0..now, obs \in SUBSET (1..Len(log)), flag \in {"RED", "YELLOW"} :
       /\ from <= to /\ obs # {}
       /\ Post([from |-> from, to |-> to, obs |-> obs, flag |-> flag,
                honest |-> FALSE, head |-> Len(log)])

\* node2.mjs --emit: the claim rebuilt over its pinned window.
Reexecute ==
  \E r \in 1..Len(rows), h \in Heads :
    LET obs == FetchObservations(log, h, rows[r].from, rows[r].to)
    IN Post([from |-> rows[r].from, to |-> rows[r].to, obs |-> obs,
             flag |-> Flag(log, obs), honest |-> TRUE, head |-> h])

\* adjudicate: nothing omitted, nothing fabricated, and the verdict follows.
Valid(claim, h) ==
  LET canonical == FetchObservations(log, h, claim.from, claim.to)
  IN canonical = claim.obs /\ claim.flag = Flag(log, canonical)

Adjudicate ==
  /\ Cardinality(rulings) < MaxRulings
  /\ \E r \in 1..Len(rows), h \in Heads :
       rulings' = rulings \cup {[row |-> r, at |-> now, head |-> h,
                                  valid |-> Valid(rows[r], h)]}
  /\ UNCHANGED <<log, now, rows>>

Next == Update \/ Tick \/ Emit \/ PostOther \/ Reexecute \/ Adjudicate

Spec == Init /\ [][Next]_vars

-----------------------------------------------------------------------------
\* The history is in the order of its times and nothing is later than the clock;
\* every claim and ruling is about what exists.
TypeOK ==
  /\ log \in Seq(Transaction) /\ Len(log) <= MaxUpdates
  /\ now \in 0..MaxTime
  /\ \A i, j \in 1..Len(log) : i <= j => log[i].time <= log[j].time /\ log[j].time <= now
  /\ rows \in Seq(Claim) /\ Len(rows) <= MaxRows
  /\ \A r \in 1..Len(rows) : rows[r].head <= Len(log)
  /\ rulings \subseteq Ruling
  /\ \A g \in rulings : g.row <= Len(rows) /\ g.head <= Len(log)

\* A node that saw the first h transactions saw all of a window: no later
\* transaction falls into it, and it lies within the pages' reach.
Sees(h, claim) ==
  /\ \A i \in 1..Len(log) : i > h => log[i].time > claim.to
  /\ \A i \in 1..h : log[i].time >= claim.from => i > h - Pages * PageSize

\* What really happened in the window of a claim.
Happened(claim) == Between(log, 1..Len(log), claim.from, claim.to)

\* The judge is right: a claim it calls VALID carries the verdict that follows from
\* everything that happened in the window, however it was put together, when the
\* judge could see the window.
RulingIsTrue ==
  \A g \in rulings :
    LET claim == rows[g.row]
    IN g.valid /\ Sees(g.head, claim) => claim.flag = Flag(log, Happened(claim))

\* An honest claim stands: emitted or rebuilt by a node that could see its window,
\* it is never ruled INVALID by a judge that can see it too, whatever happened in
\* between.
HonestClaimStands ==
  \A g \in rulings :
    LET claim == rows[g.row]
    IN claim.honest /\ Sees(claim.head, claim) /\ Sees(g.head, claim) => g.valid

\* "anyone re-runs judge and gets the same verdict" (judge.mjs), at least once the
\* window is over.
RulingIsRepeatable ==
  \A g, h \in rulings :
    g.row = h.row /\ g.at > rows[g.row].to /\ h.at > rows[g.row].to
      => g.valid = h.valid
=============================================================================
