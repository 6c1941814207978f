------------------------------ MODULE Solvency ------------------------------
(***************************************************************************)
(* The claims that are re-executed from figures, not from observations:    *)
(* reserve-solvency, wrapped around a result of Marinade's checker, and    *)
(* closed-market-price-guard.  claim.mjs emits one, verify.mjs, node2.mjs  *)
(* and judge.mjs re-execute it, resolution.mjs settles a market by it,     *)
(* registry.mjs and broadcast.mjs publish it - whoever has the file may    *)
(* have edited it.                                                         *)
(***************************************************************************)
EXTENDS Marinade, FiniteSets

CONSTANTS
  Reserves,   \* the guards a Kamino reserve may hold
  NoClaim,
  MaxRows     \* bound on the registry's rows, and on the memos

VARIABLES
  claim,       \* the claim file
  original,    \* the claim as it was emitted (history)
  resolution,  \* resolutions/<file>.json
  memos,       \* memos on chain
  sending,     \* the claim broadcast.mjs has read, between its memo and its row
  rows         \* registry/log.jsonl

claimVars == <<claim, original, resolution, memos, sending, rows>>
vars == <<checkVars, claimVars>>

Init ==
  /\ CheckInit
  /\ claim = NoClaim /\ original = NoClaim /\ resolution = NoClaim
  /\ memos = <<>> /\ sending = NoClaim /\ rows = <<>>

-----------------------------------------------------------------------------
(* Re-execution cores, and the content address. *)

ReexecSolvencyFresh(q) ==
  LET c == [inv1_ok |-> q.virtualValue >= q.liability, inv2b_ok |-> q.inv2b_ok,
            stale_ok |-> q.staleRecords = 0]
  IN [computation |-> c,
      flag |-> IF ~c.inv1_ok \/ ~c.inv2b_ok THEN "RED" ELSE "GREEN"]
ReexecSolvency(q) ==
  LET c == [inv1_ok |-> q.virtualValue >= q.liability, inv2b_ok |-> q.inv2b_ok,
            stale_ok |-> q.staleRecords = 0]
  IN [computation |-> c,
      flag |-> CASE ~c.inv1_ok \/ ~c.inv2b_ok -> "RED"
                 [] c.inv1_ok /\ c.inv2b_ok /\ c.stale_ok -> "GREEN"
                 [] OTHER -> "STALE"]

\* A percent is 1, an hour is 60 here.
ReexecPriceGuard(g) ==
  LET c == [hasHeuristic |-> g.heuristicHi > g.heuristicLo /\ g.heuristicLo > 0,
            hasTwapBand  |-> g.maxTwapDivPct > 0 /\ g.maxTwapDivPct < 100,
            hasStaleness |-> g.maxAgePrice > 0 /\ g.maxAgePrice <= 60]
      bounded == c.hasHeuristic /\ c.hasTwapBand /\ c.hasStaleness
  IN [computation |-> c, flag |-> IF bounded THEN "GREEN" ELSE "RED"]

Reexec(type, inputs) ==
  IF type = "solvency" THEN ReexecSolvency(inputs) ELSE ReexecPriceGuard(inputs)

\* claimBody and claimId: a hash is what it hashes.
ClaimIdWithoutVerdict(c) == <<c.type, c.window, c.inputs, c.computation>>
ClaimId(c) == <<c.type, c.window, c.inputs, c.computation, c.flag>>

Addressed(c) ==
  [type |-> c.type, window |-> c.window, inputs |-> c.inputs,
   computation |-> c.computation, flag |-> c.flag, claim_id |-> ClaimId(c)]
Build(type, window, inputs) ==
  LET r == Reexec(type, inputs)
  IN Addressed([type |-> type, window |-> window, inputs |-> inputs,
                computation |-> r.computation, flag |-> r.flag])

VerifyVerdictOnly(c) == Reexec(c.type, c.inputs).flag = c.flag
\* verifyLevel1: every figure, the verdict and the address follow from the inputs.
VerifyLevel1(c) ==
  LET r == Reexec(c.type, c.inputs)
  IN r.computation = c.computation /\ r.flag = c.flag /\ ClaimId(c) = c.claim_id

\* adjudicate and reexecuteIndependently, which know solvency claims only; the second
\* node keeps the claim's computation.
Adjudicate(c) == c.flag = Reexec(c.type, c.inputs).flag
Agrees(c) ==
  ClaimId([c EXCEPT !.flag = Reexec(c.type, c.inputs).flag]) = c.claim_id

\* resolve of judge.mjs: which of two claims is upheld.
Winner(a, b) ==
  CASE Adjudicate(a) /\ ~Adjudicate(b) -> "A"
    [] Adjudicate(b) /\ ~Adjudicate(a) -> "B"
    [] Adjudicate(a) /\ Adjudicate(b)  -> "BOTH-VALID"
    [] OTHER -> "BOTH-INVALID"

-----------------------------------------------------------------------------
Written(c) ==
  /\ claim' = c /\ original' = c
  /\ UNCHANGED <<checkVars, resolution, memos, sending, rows>>

\* node claim.mjs solvency: a report without figures is no claim (BigInt throws), an
\* INV-2b that was not answered counts as one that fails.
QuantitiesTrusting(r) ==
  [virtualValue |-> r.virtualValue, liability |-> r.liability,
   staleRecords |-> r.staleRecords, inv2b_ok |-> r.inv2b # "fails"]
QuantitiesOf(r) ==
  [virtualValue |-> r.virtualValue, liability |-> r.liability,
   staleRecords |-> r.staleRecords, inv2b_ok |-> r.inv2b = "holds"]

EmitSolvency ==
  /\ claim = NoClaim /\ pc = "exited" /\ result.full
  /\ Written(Build("solvency", current, QuantitiesOf(result)))

\* node emit-kamino.mjs: a reserve that does not name itself SPYx is no claim.  It has
\* nothing to do with Marinade and is emitted before it or not at all.
EmitGuard ==
  /\ claim = NoClaim /\ pc = "state" /\ Len(chain) = 1
  /\ \E reserve \in Reserves :
       /\ reserve.name = "SPYx"
       /\ Written(Build("guard", 0, reserve.guards))

\* The file is edited: verdict, computation or inputs, with the old address or the
\* one that fits.
Edits(c) ==
  {[c EXCEPT !.flag = f] : f \in {"GREEN", "RED", "STALE"} \ {c.flag}}
    \cup {[c EXCEPT !.computation[k] = ~@] : k \in DOMAIN c.computation}
    \cup IF c.type = "solvency"
         THEN {[c EXCEPT !.inputs.inv2b_ok = TRUE], [c EXCEPT !.inputs.staleRecords = 0]}
         ELSE {[c EXCEPT !.inputs.heuristicLo = 1]}
Tamper ==
  /\ claim # NoClaim /\ claim = original
  /\ \E c \in Edits(claim) : claim' = c \/ claim' = Addressed(c)
  /\ UNCHANGED <<checkVars, original, resolution, memos, sending, rows>>

\* node resolution.mjs: YES when the verdict is GREEN; an outcome is written whether
\* the claim reproduces or not.
Resolve ==
  /\ claim # NoClaim /\ resolution = NoClaim
  /\ resolution' = [resolved |-> IF claim.flag = "GREEN" THEN "YES" ELSE "NO",
                    reproduces |-> VerifyLevel1(claim), basis |-> claim.claim_id]
  /\ UNCHANGED <<checkVars, claim, original, memos, sending, rows>>

-----------------------------------------------------------------------------
(* The registry. *)

\* `genuine` is history: does the address fit the body?
Row(c, sig) ==
  [claim_id |-> c.claim_id, group |-> <<c.type, c.window>>, flag |-> c.flag, sig |-> sig,
   genuine |-> ClaimId(c) = c.claim_id]

\* node registry.mjs post.
PostRow ==
  /\ claim # NoClaim /\ Len(rows) < MaxRows
  /\ rows' = Append(rows, Row(claim, 0))
  /\ UNCHANGED <<checkVars, claim, original, resolution, memos, sending>>

\* node broadcast.mjs --send, up to its confirmation ...
SendMemo ==
  /\ claim # NoClaim /\ Len(memos) < MaxRows /\ sending = NoClaim
  /\ memos' = Append(memos, [claim_id |-> claim.claim_id, flag |-> claim.flag])
  /\ sending' = claim
  /\ UNCHANGED <<checkVars, claim, original, resolution, rows>>

\* ... and its row after it, of the claim it has read, ...
AppendRow ==
  /\ sending # NoClaim /\ Len(rows) < MaxRows
  /\ sending' = NoClaim
  /\ rows' = Append(rows, Row(sending, Len(memos)))
  /\ UNCHANGED <<checkVars, claim, original, resolution, memos>>

\* ... unless it dies, or gives up on a memo that landed, in between.
DieBetween ==
  /\ sending # NoClaim /\ sending' = NoClaim
  /\ UNCHANGED <<checkVars, claim, original, resolution, memos, rows>>

\* consensus(): rows of one subject and window, by their addresses.
GroupOf(r) == {i \in 1..Len(rows) : rows[i].group = rows[r].group}
Consensus(r) ==
  CASE Cardinality(GroupOf(r)) < 2 -> "SINGLE"
    [] Cardinality(GroupOf(r)) >= 2 /\ \A i, j \in GroupOf(r) :
         rows[i].claim_id = rows[j].claim_id -> "AGREE"
    [] OTHER -> "DISPUTE"

\* Once a claim is out, Marinade's checker is not run again.
Next ==
  \/ claim = NoClaim /\ CheckNext /\ UNCHANGED claimVars
  \/ EmitSolvency \/ EmitGuard \/ Tamper \/ Resolve
  \/ PostRow \/ SendMemo \/ AppendRow \/ DieBetween

Spec == Init /\ [][Next]_vars

-----------------------------------------------------------------------------
\* mSOL below the price of one lamport, or no mSOL at all: shares minted in excess then
\* need not show in the liability, which is all the claim keeps of M-INV-1.
PricedBelowOne ==
  result.msolSupply = 0 \/ result.virtualValue < result.msolSupply

\* A market settled YES by a claim that reproduces, and is the one emitted, was settled
\* by a run of the checker that found Marinade GREEN; and every GREEN run settles YES.
YesMeansSolvent ==
  (/\ resolution # NoClaim /\ resolution.reproduces
   /\ original.type = "solvency" /\ resolution.basis = original.claim_id
   /\ ~PricedBelowOne)
    => (resolution.resolved = "YES" <=> result.verdict = "GREEN")

\* The three verifiers: what verify.mjs accepts, the judge upholds and the second node
\* rebuilds; and an edited file that verify.mjs accepts has another address.
VerifiedIsUpheld ==
  claim # NoClaim /\ VerifyLevel1(claim) =>
    /\ claim # original => claim.claim_id # original.claim_id
    /\ claim.type = "solvency" =>
         Adjudicate(claim) /\ Agrees(claim) /\ Winner(claim, original) # "B"

\* As long as the addresses posted fit their claims (nothing looks at that), AGREE is
\* said of one verdict, and two verdicts on one question are a DISPUTE.
ConsensusIsOfVerdicts ==
  \A r \in 1..Len(rows) :
    (\A i \in GroupOf(r) : rows[i].genuine) =>
      /\ Consensus(r) = "AGREE" => \A i \in GroupOf(r) : rows[i].flag = rows[r].flag
      /\ (\E i \in GroupOf(r) : rows[i].flag # rows[r].flag) => Consensus(r) = "DISPUTE"
=============================================================================
