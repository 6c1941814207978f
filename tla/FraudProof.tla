----------------------------- MODULE FraudProof -----------------------------
(***************************************************************************)
(* vesper/fraudproof.mjs on top of the recorder: a claim over a window of  *)
(* the account's history, and what a challenger can prove against it with  *)
(* one witness - taken from another node's claim, or anchored to the root  *)
(* of the recorder.                                                        *)
(***************************************************************************)
EXTENDS Recorder

CONSTANTS Trailing, NoClaim, NoProof

ASSUME TrailingAssumption == Trailing \in Nat

VARIABLES
  claim,   \* the claim under attack
  accused  \* the fraud proof offered against it, and what became of it

vars == <<log, now, file, run, claim, accused>>

Init == RecorderInit /\ claim = NoClaim /\ accused = NoProof

\* node claim.mjs: the window is pinned to the first and last update found, the root
\* is that of the observations embedded.  `head` is what its node had seen: history.
Emit ==
  /\ claim = NoClaim
  /\ \E h \in Heads :
       LET obs   == FetchObservations(log, h, now - Trailing, now)
           times == TimesOf(log, obs)
       IN /\ obs # {}
          /\ claim' = [from |-> Min(times), to |-> Max(times), obs |-> obs,
                       root |-> MerkleRoot(obs), head |-> h]
  /\ UNCHANGED <<log, now, file, run, accused>>

\* Anything else: observations left out, others put in, under the root of what is
\* embedded or of all there was.
EmitOther ==
  /\ claim = NoClaim
  /\ \E from, to \in 0..now, obs \in SUBSET (1..Len(log)) :
     \E committed \in {obs, Between(log, 1..Len(log), from, to)} :
       /\ from <= to /\ obs # {}
       /\ claim' = [from |-> from, to |-> to, obs |-> obs,
                    root |-> MerkleRoot(committed), head |-> 0]
  /\ UNCHANGED <<log, now, file, run, accused>>

InWindow(i) == claim.from <= log[i].time /\ log[i].time <= claim.to

\* Observations a claim should have had.
OmittedAnywhere(canonical) == {i \in canonical : i \notin claim.obs /\ IsClosed(i)}
Omitted(canonical) == {i \in canonical : i \notin claim.obs /\ InWindow(i) /\ IsClosed(i)}

\* proveOmission: nothing, or the first of them with its way to the canonical root.
ProveOmission(canonical) ==
  LET witness == Min(Omitted(canonical))
  IN [witness |-> witness, claim_root |-> claim.root, canonical_root |-> MerkleRoot(canonical),
      inclusion |-> InclusionProof(canonical, IndexOf(canonical, witness))]

\* The five checks of verifyFraudProof.
Checks(proof) ==
  /\ IsClosed(proof.witness) /\ InWindow(proof.witness)
  /\ VerifyInclusion(proof.canonical_root, LeafHash(proof.witness), proof.inclusion)
  /\ proof.witness \notin claim.obs
  /\ proof.claim_root = claim.root
  /\ proof.canonical_root # claim.root
ChecksButMembership(proof) ==
  /\ IsClosed(proof.witness) /\ InWindow(proof.witness)
  /\ VerifyInclusion(proof.canonical_root, LeafHash(proof.witness), proof.inclusion)
  /\ proof.claim_root = claim.root
  /\ proof.canonical_root # claim.root
VerifyFraudProof(proof) == Checks(proof)

Offer(proof, canonical, source) ==
  /\ accused' = [witness |-> proof.witness, canonical |-> canonical, source |-> source,
                 proven |-> VerifyFraudProof(proof)]
  /\ UNCHANGED <<log, now, file, run, claim>>

\* node fraudproof.mjs <claim> <canonical claim>, the canonical one rebuilt over the
\* claim's window (node2.mjs) or a trailing one.
Accuse ==
  /\ claim # NoClaim /\ accused = NoProof
  /\ \E h \in Heads, w \in {<<claim.from, claim.to>>, <<now - Trailing, now>>} :
       LET canonical == FetchObservations(log, h, w[1], w[2])
       IN /\ Omitted(canonical) # {}
          /\ Offer(ProveOmission(canonical), canonical, "claim")

\* ... with nothing omitted: no proof, and the claim is complete against that set.
FindNothing ==
  /\ claim # NoClaim /\ accused = NoProof
  /\ \E h \in Heads :
       LET canonical == FetchObservations(log, h, claim.from, claim.to)
       IN /\ Omitted(canonical) = {}
          /\ accused' = [witness |-> 0, canonical |-> canonical, source |-> "claim",
                         proven |-> FALSE]
  /\ UNCHANGED <<log, now, file, run, claim>>

\* Anchored to the recorder's root, with the proof for any of its leaves and any
\* update as the witness.
AccuseAnchored ==
  /\ claim # NoClaim /\ accused = NoProof
  /\ \E i \in 1..Len(file.observations), witness \in 1..Len(log) :
       Offer([witness |-> witness, claim_root |-> claim.root, canonical_root |-> file.root,
              inclusion |-> ProofForLeaves(LeavesOf(file.observations), i - 1)],
             Range(file.observations), "record")

\* The challenge is the last thing looked at.
Next ==
  \/ accused = NoProof /\ RecorderNext /\ UNCHANGED <<claim, accused>>
  \/ Emit \/ EmitOther \/ Accuse \/ FindNothing \/ AccuseAnchored

Spec == Init /\ [][Next]_vars

-----------------------------------------------------------------------------
\* The claim is an honest one, and its node was neither behind in the window nor out of
\* pages: no later update fell into it, and it lies within the pages' reach.
SawAll ==
  /\ claim.head > 0
  /\ \A i \in 1..Len(log) : i > claim.head => log[i].time > claim.to
  /\ \A i \in 1..claim.head : log[i].time >= claim.from => i > claim.head - Pages * PageSize

Proven == accused # NoProof /\ accused.proven

\* A fraud proof against a true canonical set or the recorder's root is the truth: the
\* witness happened in the claim's window while the market was closed, and the claim
\* does not have it.  No honest claim is convicted whose node could see its window.
ProvenIsOmitted ==
  Proven =>
    /\ accused.witness \in Between(log, 1..Len(log), claim.from, claim.to)
    /\ IsClosed(accused.witness)
    /\ accused.witness \notin claim.obs
    /\ ~SawAll

\* A claim that left out a closed-market update is convicted by whoever has it, if the
\* root it carries is the root of what it embeds (verifyFraudProof never recomputes it).
OmissionIsProven ==
  (/\ accused # NoProof /\ accused.source = "claim" /\ ~accused.proven
   /\ claim.root = MerkleRoot(claim.obs))
    => \A i \in accused.canonical : IsClosed(i) /\ InWindow(i) => i \in claim.obs
=============================================================================
