---------------------------- MODULE SurfaceProofs ----------------------------
(***************************************************************************)
(* Theorems about the surfaces that Legs and Collapse run one at a time,   *)
(* each of the surface by itself: attestations, for any machines, targets, *)
(* times to live and slots; the rows of verify-eth.mjs and verify-btc.mjs, *)
(* for any states of the chains and any number of steps they take          *)
(* meanwhile; what a finished crawl has on file and what decline is read   *)
(* from it, for any vaults, windows and pages and any number of crashes;   *)
(* what the venues of ruptor strand and lose; and what a reconstruction    *)
(* adds up to and when its accounts committed, for any transfers and       *)
(* chunks.  The verdicts of the stake-pool verifier are here too, for any  *)
(* pools and any lag.                                                      *)
(***************************************************************************)
EXTENDS PoolCheck, Wrapped, Ethereum, Attestation, Praeda, Crawl, Ruptor, Sums, SequenceTheorems

-----------------------------------------------------------------------------
(***************************************************************************)
(* Attestations.  A signature is over the hash, and the hash is of the     *)
(* binding: whatever is done to an attestation on its way, one that is     *)
(* still valid carries the binding that was signed.                        *)
(***************************************************************************)

AsSigned(s) == Sign(s.by, BindingFrom(s.of, s.as, s.by))

\* Every attestation is of a report of a checker, and of a GREEN one only with its slot.
SignedIsReported ==
  \A s \in signed :
    /\ s.of \in Reports /\ s.att = AsSigned(s)
    /\ s.of.verdict = "GREEN" => s.of.slot # None

AttInv ==
  /\ report \in Reports \cup {None}
  /\ SignedIsReported
  /\ AuthorizedMeansSigned

\* What is done to an attestation on its way leaves its signature.
LEMMA SignatureTravels ==
  ASSUME NEW signer, NEW binding, NEW a \in Arriving(Sign(signer, binding))
  PROVE  a.signature = [key |-> signer, over |-> binding]
<1> DEFINE att == Sign(signer, binding)
<1>1. att.signature = [key |-> signer, over |-> binding]
  BY DEF Sign
<1>2. \A b, c : c \in Damaged(att, b) => c.signature = att.signature
  BY DEF Damaged, Sign
<1>3. a = att \/ \E b : a \in Damaged(att, b)
  BY DEF Arriving
<1> HIDE DEF att
<1> QED
  BY <1>1, <1>2, <1>3

\* What is valid carries the binding that was signed.
LEMMA ValidIsAsSigned ==
  ASSUME NEW signer, NEW binding, NEW a \in Arriving(Sign(signer, binding)), Valid(a)
  PROVE  a.binding = binding
<1>1. a.signature = [key |-> signer, over |-> binding]
  BY SignatureTravels
<1>2. a.signature = [key |-> a.binding.signer, over |-> a.claim_hash] /\ a.claim_hash = a.binding
  BY DEF Valid, SignatureVerifies
<1>3. a.signature.over = binding /\ a.signature.over = a.claim_hash
  BY <1>1, <1>2
<1> QED
  BY <1>2, <1>3

LEMMA AttInitHolds == AttInit => AttInv
  BY DEF AttInit, AttInv, SignedIsReported, AuthorizedMeansSigned

\* A checker's report is a report.
LEMMA RunCheckerKeeps == AttInv /\ RunChecker => AttInv'
  BY DEF AttInv, RunChecker, SignedIsReported, AuthorizedMeansSigned, AsSigned

\* What is signed is what the last checker reported, unless it is refused.
LEMMA AttestKeeps == AttInv /\ Attest => AttInv'
<1> SUFFICES ASSUME AttInv, Attest PROVE AttInv'
  OBVIOUS
<1>1. PICK s \in Signers, cls \in Classes :
        /\ report # None /\ ~Refused(BindingFrom(report, cls, s))
        /\ signed' = signed \cup {[by |-> s, of |-> report, as |-> cls,
                                   att |-> Sign(s, BindingFrom(report, cls, s))]}
  BY DEF Attest
<1>2. UNCHANGED <<slot, report, ruling>> /\ ruling = None
  BY DEF Attest
<1>3. report \in Reports
  BY <1>1 DEF AttInv
<1> DEFINE new == [by |-> s, of |-> report, as |-> cls, att |-> Sign(s, BindingFrom(report, cls, s))]
<1>4. new.of \in Reports /\ new.att = AsSigned(new)
  BY <1>3 DEF AsSigned
<1>5. new.of.verdict = "GREEN" => new.of.slot # None
  BY <1>1 DEF Refused, BindingFrom
<1> HIDE DEF new
<1>6. SignedIsReported'
  <2> SUFFICES ASSUME NEW t \in signed' 
               PROVE  t.of \in Reports /\ t.att = AsSigned(t) /\ (t.of.verdict = "GREEN" => t.of.slot # None)
    BY DEF SignedIsReported, AsSigned
  <2>1. t \in signed \/ t = new
    BY <1>1 DEF new
  <2> QED
    BY <2>1, <1>4, <1>5 DEF AttInv, SignedIsReported
<1> QED
  BY <1>2, <1>6 DEF AttInv, AuthorizedMeansSigned

\* Whoever is told AUTHORIZED holds a valid attestation of what they asked for.
LEMMA VerifyAttestationKeeps == AttInv /\ VerifyAttestation => AttInv'
<1> SUFFICES ASSUME AttInv, VerifyAttestation PROVE AttInv'
  OBVIOUS
<1>1. UNCHANGED <<slot, report, signed>>
  BY DEF VerifyAttestation
<1>2. PICK s \in signed, pin \in Signers \cup {None}, cls \in Classes, target \in Subjects \cup {None} :
        \E a \in Arriving(s.att), used \in 0..slot \cup {None} :
          ruling' = [pin |-> pin, class |-> cls, target |-> target, used |-> used,
                     answer |-> Answer(a, pin, cls, target, used)]
  BY DEF VerifyAttestation
<1>3. PICK a \in Arriving(s.att), used \in 0..slot \cup {None} :
        ruling' = [pin |-> pin, class |-> cls, target |-> target, used |-> used,
                   answer |-> Answer(a, pin, cls, target, used)]
  BY <1>2
<1> DEFINE b == BindingFrom(s.of, s.as, s.by)
<1>4. s.of \in Reports /\ s.att = Sign(s.by, b) /\ (s.of.verdict = "GREEN" => s.of.slot # None)
  BY DEF AttInv, SignedIsReported, AsSigned
<1>5. ASSUME Answer(a, pin, cls, target, used) = "AUTHORIZED"
      PROVE  /\ s.by = pin /\ s.of.verdict = "GREEN" /\ s.of.target = target
             /\ s.of.slot \in Slots /\ used <= s.of.slot + TTL_SLOTS
             /\ s.as = s.of.shape => s.of.shape = cls
  <2>1. Valid(a) /\ Authorized(a.binding, pin, cls, target, used)
    BY <1>5 DEF Answer
  <2>2. a.binding = b
    BY <2>1, <1>4, ValidIsAsSigned
  <2>3. Authorized(b, pin, cls, target, used)
    BY <2>1, <2>2
  <2>4. /\ s.by = pin /\ s.of.verdict = "GREEN" /\ s.as = cls /\ s.of.target = target
        /\ used <= b.expiry_slot
    BY <2>3 DEF Authorized, BindingFrom
  <2>5. s.of.slot \in Slots
    BY <1>4, <2>4 DEF Reports
  <2>6. s.of.slot # None
    BY <1>4, <2>4
  <2>7. b.expiry_slot = s.of.slot + TTL_SLOTS
    BY <2>6 DEF BindingFrom
  <2> QED
    BY <2>4, <2>5, <2>7
<1>6. AuthorizedMeansSigned'
  BY <1>1, <1>3, <1>5 DEF AuthorizedMeansSigned
<1>7. SignedIsReported'
  BY <1>1 DEF AttInv, SignedIsReported, AsSigned
<1> QED
  BY <1>1, <1>6, <1>7 DEF AttInv

\* Slots do not touch an attestation.
LEMMA OtherStepsKeep == AttInv /\ UNCHANGED <<report, signed, ruling>> => AttInv'
  BY DEF AttInv, SignedIsReported, AuthorizedMeansSigned, AsSigned

\* AUTHORIZED only where the pinned machine signed a GREEN of that target, not longer
\* ago than the time to live (verify-attestation.mjs, of attest.mjs).
THEOREM AuthorizationIsSigned == AttSpec => []AuthorizedMeansSigned
<1>1. AttInv /\ [AttNext]_attVars => AttInv'
  <2> SUFFICES ASSUME AttInv, [AttNext]_attVars PROVE AttInv'
    OBVIOUS
  <2>1. CASE Tick
    BY <2>1, OtherStepsKeep DEF Tick
  <2>2. CASE RunChecker
    BY <2>2, RunCheckerKeeps
  <2>3. CASE Attest
    BY <2>3, AttestKeeps
  <2>4. CASE VerifyAttestation
    BY <2>4, VerifyAttestationKeeps
  <2>5. CASE UNCHANGED attVars
    BY <2>5, OtherStepsKeep DEF attVars
  <2> QED
    BY <2>1, <2>2, <2>3, <2>4, <2>5 DEF AttNext
<1> QED
  BY <1>1, AttInitHolds, PTL DEF AttSpec, AttInv

-----------------------------------------------------------------------------
(***************************************************************************)
(* Rows of verify-eth.mjs.  Behind them is how two moments of the bridge   *)
(* are related: by what was locked, minted, burnt and released between.    *)
(***************************************************************************)

RowClasses == {"abi-drift", "fully-recomputable", "oracle-trusted", "contract-resolution",
               "abi-oracle-drift", "l2-unreachable", "bridge-escrow", "coverage-unconfirmed",
               "l2-wrong-chain", "none"}
RowType == [id : {"lido", "reth", "wsteth-base"}, at : Nat,
            verdict : {"GREEN", "STALE", "ERROR"}, cls : RowClasses]

\* w is a later moment than v, or the same.
Since(v, w) ==
  /\ v.lockedSum <= w.lockedSum /\ v.mintedSum <= w.mintedSum
  /\ v.burntSum <= w.burntSum /\ v.releasedSum <= w.releasedSum
  /\ w.toBase - v.toBase = (w.lockedSum - v.lockedSum) - (w.mintedSum - v.mintedSum)
  /\ w.base - v.base = (w.mintedSum - v.mintedSum) - (w.burntSum - v.burntSum)
  /\ w.fromBase - v.fromBase = (w.burntSum - v.burntSum) - (w.releasedSum - v.releasedSum)

\* What a row says of the block of the run, moment b, and the moment it was read at.
RowHolds(r, b, then, now) ==
  /\ r.id = "lido" /\ r.verdict = "GREEN" => then.supply <= then.buffer
  /\ r.id = "reth" /\ r.verdict = "GREEN" =>
       then.rethSupply * then.rate < (then.rethHeld + 1) * RateUnit
  /\ r.id = "wsteth-base" /\ r.verdict = "GREEN" =>
       \/ r.at >= b /\ EscrowShort(then) <= OnTheWay(then) + (now.burntSum - then.burntSum)
       \/ r.at <= b /\ EscrowShort(then) <= OnTheWay(then) + (then.mintedSum - now.mintedSum)
  /\ r.cls = "coverage-unconfirmed" /\ EscrowShort(then) <= 0 =>
       \/ r.at > b /\ now.lockedSum > then.lockedSum
       \/ r.at < b /\ then.releasedSum > now.releasedSum

EthInv ==
  /\ evm \in Seq(Worlds) /\ todo \in Seq({"lido", "reth", "wsteth-base"})
  /\ rows \in Seq(RowType) /\ isBase \in BOOLEAN
  /\ block \in 0..Len(evm)
  /\ evm = <<>> => todo = <<>>
  /\ block = 0 => rows = <<>>
  /\ \A i, j \in 1..Len(evm) : i <= j => Since(evm[i], evm[j])
  /\ \A i \in 1..Len(rows) :
       /\ rows[i].at \in 1..Len(evm)
       /\ RowHolds(rows[i], block, evm[block], evm[rows[i].at])

-----------------------------------------------------------------------------
\* A quotient rounded down.
LEMMA QuotientBelow ==
  ASSUME NEW x \in Int, NEW d \in Nat \ {0}, NEW h \in Int, x \div d <= h
  PROVE  x < (h + 1) * d
<1> DEFINE q == x \div d
<1>1. q \in Int /\ x < (q + 1) * d
  OBVIOUS
<1>2. q <= h
  OBVIOUS
<1> HIDE DEF q
<1>3. (q + 1) * d <= (h + 1) * d
  BY <1>1, <1>2
<1>4. (q + 1) * d \in Int /\ (h + 1) * d \in Int
  BY <1>1
<1> QED
  BY <1>1, <1>3, <1>4

\* Every operation counts what it moves.
LEMMA LaterKeeps ==
  ASSUME NEW w \in Worlds, NEW x \in Later(w)
  PROVE  x \in Worlds /\ Since(w, x)
<1>0. /\ w.locked \in Nat /\ w.toBase \in Nat /\ w.base \in Nat /\ w.fromBase \in Nat
      /\ w.lockedSum \in Nat /\ w.mintedSum \in Nat /\ w.burntSum \in Nat
      /\ w.releasedSum \in Nat /\ w.supply \in Nat /\ w.pooled \in Nat /\ w.buffer \in Nat
      /\ w.rethHeld \in Nat
  BY DEF Worlds
<1>1. \/ x \in {Submit(w), Lock(w)}
      \/ w.buffer > 0 /\ x = Stake(w)
      \/ w.rethHeld > 0 /\ x = RethStake(w)
      \/ w.toBase > 0 /\ x = MintBase(w)
      \/ w.base > 0 /\ x = BurnBase(w)
      \/ w.fromBase > 0 /\ w.locked > 0 /\ x = Release(w)
      \/ w.locked > 0 /\ x = Lose(w)
  BY DEF Later
<1>2. CASE x = Submit(w)
  <2>1. PICK a : a \in Worlds /\ a = [w EXCEPT !.supply = w.supply + 1]
    <3>1. \A y \in Worlds : [y EXCEPT !.supply = w.supply + 1] \in Worlds
      BY <1>0, <1>2 DEF Worlds
    <3> QED
      BY <3>1
  <2>2. PICK b : b \in Worlds /\ b = [a EXCEPT !.pooled = w.pooled + 1]
    <3>1. \A y \in Worlds : [y EXCEPT !.pooled = w.pooled + 1] \in Worlds
      BY <1>0, <1>2 DEF Worlds
    <3> QED
      BY <3>1, <2>1
  <2>3. PICK c : c \in Worlds /\ c = [b EXCEPT !.buffer = w.buffer + 1]
    <3>1. \A y \in Worlds : [y EXCEPT !.buffer = w.buffer + 1] \in Worlds
      BY <1>0, <1>2 DEF Worlds
    <3> QED
      BY <3>1, <2>2
  <2>4. x = c
    BY <1>2, <2>1, <2>2, <2>3 DEF Submit
  <2>5. /\ x.toBase = w.toBase /\ x.base = w.base /\ x.fromBase = w.fromBase
        /\ x.lockedSum = w.lockedSum /\ x.mintedSum = w.mintedSum
        /\ x.burntSum = w.burntSum /\ x.releasedSum = w.releasedSum
    BY <1>2 DEF Worlds, Submit
  <2>6. Since(w, x)
    BY <1>0, <2>5 DEF Since
  <2> QED
    BY <2>3, <2>4, <2>6
<1>3. CASE w.buffer > 0 /\ x = Stake(w)
  <2>1. PICK a : a \in Worlds /\ a = [w EXCEPT !.buffer = w.buffer - 1]
    <3>1. \A y \in Worlds : [y EXCEPT !.buffer = w.buffer - 1] \in Worlds
      BY <1>0, <1>3 DEF Worlds
    <3> QED
      BY <3>1
  <2>2. x = a
    BY <1>3, <2>1 DEF Stake
  <2>3. /\ x.toBase = w.toBase /\ x.base = w.base /\ x.fromBase = w.fromBase
        /\ x.lockedSum = w.lockedSum /\ x.mintedSum = w.mintedSum
        /\ x.burntSum = w.burntSum /\ x.releasedSum = w.releasedSum
    BY <1>3 DEF Worlds, Stake
  <2>4. Since(w, x)
    BY <1>0, <2>3 DEF Since
  <2> QED
    BY <2>1, <2>2, <2>4
<1>4. CASE w.rethHeld > 0 /\ x = RethStake(w)
  <2>1. PICK a : a \in Worlds /\ a = [w EXCEPT !.rethHeld = w.rethHeld - 1]
    <3>1. \A y \in Worlds : [y EXCEPT !.rethHeld = w.rethHeld - 1] \in Worlds
      BY <1>0, <1>4 DEF Worlds
    <3> QED
      BY <3>1
  <2>2. x = a
    BY <1>4, <2>1 DEF RethStake
  <2>3. /\ x.toBase = w.toBase /\ x.base = w.base /\ x.fromBase = w.fromBase
        /\ x.lockedSum = w.lockedSum /\ x.mintedSum = w.mintedSum
        /\ x.burntSum = w.burntSum /\ x.releasedSum = w.releasedSum
    BY <1>4 DEF Worlds, RethStake
  <2>4. Since(w, x)
    BY <1>0, <2>3 DEF Since
  <2> QED
    BY <2>1, <2>2, <2>4
<1>5. CASE x = Lock(w)
  <2>1. PICK a : a \in Worlds /\ a = [w EXCEPT !.locked = w.locked + 1]
    <3>1. \A y \in Worlds : [y EXCEPT !.locked = w.locked + 1] \in Worlds
      BY <1>0, <1>5 DEF Worlds
    <3> QED
      BY <3>1
  <2>2. PICK b : b \in Worlds /\ b = [a EXCEPT !.toBase = w.toBase + 1]
    <3>1. \A y \in Worlds : [y EXCEPT !.toBase = w.toBase + 1] \in Worlds
      BY <1>0, <1>5 DEF Worlds
    <3> QED
      BY <3>1, <2>1
  <2>3. PICK c : c \in Worlds /\ c = [b EXCEPT !.lockedSum = w.lockedSum + 1]
    <3>1. \A y \in Worlds : [y EXCEPT !.lockedSum = w.lockedSum + 1] \in Worlds
      BY <1>0, <1>5 DEF Worlds
    <3> QED
      BY <3>1, <2>2
  <2>4. x = c
    BY <1>5, <2>1, <2>2, <2>3 DEF Lock
  <2>5. /\ x.toBase = w.toBase + 1 /\ x.base = w.base /\ x.fromBase = w.fromBase
        /\ x.lockedSum = w.lockedSum + 1 /\ x.mintedSum = w.mintedSum
        /\ x.burntSum = w.burntSum /\ x.releasedSum = w.releasedSum
    BY <1>5 DEF Worlds, Lock
  <2>6. Since(w, x)
    BY <1>0, <2>5 DEF Since
  <2> QED
    BY <2>3, <2>4, <2>6
<1>6. CASE w.toBase > 0 /\ x = MintBase(w)
  <2>1. PICK a : a \in Worlds /\ a = [w EXCEPT !.toBase = w.toBase - 1]
    <3>1. \A y \in Worlds : [y EXCEPT !.toBase = w.toBase - 1] \in Worlds
      BY <1>0, <1>6 DEF Worlds
    <3> QED
      BY <3>1
  <2>2. PICK b : b \in Worlds /\ b = [a EXCEPT !.base = w.base + 1]
    <3>1. \A y \in Worlds : [y EXCEPT !.base = w.base + 1] \in Worlds
      BY <1>0, <1>6 DEF Worlds
    <3> QED
      BY <3>1, <2>1
  <2>3. PICK c : c \in Worlds /\ c = [b EXCEPT !.mintedSum = w.mintedSum + 1]
    <3>1. \A y \in Worlds : [y EXCEPT !.mintedSum = w.mintedSum + 1] \in Worlds
      BY <1>0, <1>6 DEF Worlds
    <3> QED
      BY <3>1, <2>2
  <2>4. x = c
    BY <1>6, <2>1, <2>2, <2>3 DEF MintBase
  <2>5. /\ x.toBase = w.toBase - 1 /\ x.base = w.base + 1 /\ x.fromBase = w.fromBase
        /\ x.lockedSum = w.lockedSum /\ x.mintedSum = w.mintedSum + 1
        /\ x.burntSum = w.burntSum /\ x.releasedSum = w.releasedSum
    BY <1>6 DEF Worlds, MintBase
  <2>6. Since(w, x)
    BY <1>0, <2>5 DEF Since
  <2> QED
    BY <2>3, <2>4, <2>6
<1>7. CASE w.base > 0 /\ x = BurnBase(w)
  <2>1. PICK a : a \in Worlds /\ a = [w EXCEPT !.base = w.base - 1]
    <3>1. \A y \in Worlds : [y EXCEPT !.base = w.base - 1] \in Worlds
      BY <1>0, <1>7 DEF Worlds
    <3> QED
      BY <3>1
  <2>2. PICK b : b \in Worlds /\ b = [a EXCEPT !.fromBase = w.fromBase + 1]
    <3>1. \A y \in Worlds : [y EXCEPT !.fromBase = w.fromBase + 1] \in Worlds
      BY <1>0, <1>7 DEF Worlds
    <3> QED
      BY <3>1, <2>1
  <2>3. PICK c : c \in Worlds /\ c = [b EXCEPT !.burntSum = w.burntSum + 1]
    <3>1. \A y \in Worlds : [y EXCEPT !.burntSum = w.burntSum + 1] \in Worlds
      BY <1>0, <1>7 DEF Worlds
    <3> QED
      BY <3>1, <2>2
  <2>4. x = c
    BY <1>7, <2>1, <2>2, <2>3 DEF BurnBase
  <2>5. /\ x.toBase = w.toBase /\ x.base = w.base - 1 /\ x.fromBase = w.fromBase + 1
        /\ x.lockedSum = w.lockedSum /\ x.mintedSum = w.mintedSum
        /\ x.burntSum = w.burntSum + 1 /\ x.releasedSum = w.releasedSum
    BY <1>7 DEF Worlds, BurnBase
  <2>6. Since(w, x)
    BY <1>0, <2>5 DEF Since
  <2> QED
    BY <2>3, <2>4, <2>6
<1>8. CASE w.fromBase > 0 /\ w.locked > 0 /\ x = Release(w)
  <2>1. PICK a : a \in Worlds /\ a = [w EXCEPT !.fromBase = w.fromBase - 1]
    <3>1. \A y \in Worlds : [y EXCEPT !.fromBase = w.fromBase - 1] \in Worlds
      BY <1>0, <1>8 DEF Worlds
    <3> QED
      BY <3>1
  <2>2. PICK b : b \in Worlds /\ b = [a EXCEPT !.locked = w.locked - 1]
    <3>1. \A y \in Worlds : [y EXCEPT !.locked = w.locked - 1] \in Worlds
      BY <1>0, <1>8 DEF Worlds
    <3> QED
      BY <3>1, <2>1
  <2>3. PICK c : c \in Worlds /\ c = [b EXCEPT !.releasedSum = w.releasedSum + 1]
    <3>1. \A y \in Worlds : [y EXCEPT !.releasedSum = w.releasedSum + 1] \in Worlds
      BY <1>0, <1>8 DEF Worlds
    <3> QED
      BY <3>1, <2>2
  <2>4. x = c
    BY <1>8, <2>1, <2>2, <2>3 DEF Release
  <2>5. /\ x.toBase = w.toBase /\ x.base = w.base /\ x.fromBase = w.fromBase - 1
        /\ x.lockedSum = w.lockedSum /\ x.mintedSum = w.mintedSum
        /\ x.burntSum = w.burntSum /\ x.releasedSum = w.releasedSum + 1
    BY <1>8 DEF Worlds, Release
  <2>6. Since(w, x)
    BY <1>0, <2>5 DEF Since
  <2> QED
    BY <2>3, <2>4, <2>6
<1>9. CASE w.locked > 0 /\ x = Lose(w)
  <2>1. PICK a : a \in Worlds /\ a = [w EXCEPT !.locked = w.locked - 1]
    <3>1. \A y \in Worlds : [y EXCEPT !.locked = w.locked - 1] \in Worlds
      BY <1>0, <1>9 DEF Worlds
    <3> QED
      BY <3>1
  <2>2. x = a
    BY <1>9, <2>1 DEF Lose
  <2>3. /\ x.toBase = w.toBase /\ x.base = w.base /\ x.fromBase = w.fromBase
        /\ x.lockedSum = w.lockedSum /\ x.mintedSum = w.mintedSum
        /\ x.burntSum = w.burntSum /\ x.releasedSum = w.releasedSum
    BY <1>9 DEF Worlds, Lose
  <2>4. Since(w, x)
    BY <1>0, <2>3 DEF Since
  <2> QED
    BY <2>1, <2>2, <2>4
<1> QED
  BY <1>1, <1>2, <1>3, <1>4, <1>5, <1>6, <1>7, <1>8, <1>9

LEMMA SinceIsTransitive ==
  ASSUME NEW u \in Worlds, NEW v \in Worlds, NEW w \in Worlds, Since(u, v), Since(v, w)
  PROVE  Since(u, w)
<1>1. \A m \in Worlds :
        /\ m.toBase \in Nat /\ m.base \in Nat /\ m.fromBase \in Nat /\ m.lockedSum \in Nat
        /\ m.mintedSum \in Nat /\ m.burntSum \in Nat /\ m.releasedSum \in Nat
  BY DEF Worlds
<1> QED
  BY <1>1 DEF Since

LEMMA SinceItself == ASSUME NEW w \in Worlds PROVE Since(w, w)
<1>1. /\ w.toBase \in Nat /\ w.base \in Nat /\ w.fromBase \in Nat /\ w.lockedSum \in Nat
      /\ w.mintedSum \in Nat /\ w.burntSum \in Nat /\ w.releasedSum \in Nat
  BY DEF Worlds
<1> QED
  BY <1>1 DEF Since

\* What the bridge's verdict says of the escrow at the block, whichever read is the older.
LEMMA BridgeRowHolds ==
  ASSUME NEW then \in Worlds, NEW now \in Worlds,
         NEW v, v = BridgeVerdict(then.locked, now.base)
  PROVE  /\ v[1] = "GREEN" =>
              /\ Since(then, now) =>
                   EscrowShort(then) <= OnTheWay(then) + (now.burntSum - then.burntSum)
              /\ Since(now, then) =>
                   EscrowShort(then) <= OnTheWay(then) + (then.mintedSum - now.mintedSum)
         /\ v[2] = "coverage-unconfirmed" /\ EscrowShort(then) <= 0 =>
              /\ Since(then, now) => now.lockedSum > then.lockedSum
              /\ Since(now, then) => then.releasedSum > now.releasedSum
<1>0. \A m \in Worlds :
        /\ m.toBase \in Nat /\ m.base \in Nat /\ m.fromBase \in Nat /\ m.locked \in Nat
        /\ m.lockedSum \in Nat /\ m.mintedSum \in Nat /\ m.burntSum \in Nat
        /\ m.releasedSum \in Nat
  BY DEF Worlds
<1>1. \/ now.base = 0 /\ v = <<"STALE", "l2-unreachable">>
      \/ then.locked >= now.base /\ v = <<"GREEN", "bridge-escrow">>
      \/ ~(then.locked >= now.base) /\ v = <<"STALE", "coverage-unconfirmed">>
  BY <1>0 DEF BridgeVerdict
<1>2. v[1] = "GREEN" => then.locked >= now.base
  BY <1>1
<1>3. v[2] = "coverage-unconfirmed" => now.base > then.locked
  BY <1>0, <1>1
<1>4. then.locked >= now.base =>
        /\ Since(then, now) =>
             EscrowShort(then) <= OnTheWay(then) + (now.burntSum - then.burntSum)
        /\ Since(now, then) =>
             EscrowShort(then) <= OnTheWay(then) + (then.mintedSum - now.mintedSum)
  BY <1>0 DEF Since, EscrowShort, OnTheWay
<1>5. now.base > then.locked /\ EscrowShort(then) <= 0 =>
        /\ Since(then, now) => now.lockedSum > then.lockedSum
        /\ Since(now, then) => then.releasedSum > now.releasedSum
  BY <1>0 DEF Since, EscrowShort, OnTheWay
<1> QED
  BY <1>2, <1>3, <1>4, <1>5

LEMMA RethRowHolds ==
  ASSUME NEW then \in Worlds, NEW v, v = RethVerdict(then), v[1] = "GREEN"
  PROVE  then.rethSupply * then.rate < (then.rethHeld + 1) * RateUnit
<1>0. then.rethSupply \in Nat /\ then.rate \in Nat /\ then.rethHeld \in Nat /\ RateUnit \in Nat \ {0}
  BY EthereumAssumption DEF Worlds
<1>1. (then.rethSupply * then.rate) \div RateUnit <= then.rethHeld
  <2>1. RethObserved(then) >= RethLiability(then)
    BY DEF RethVerdict
  <2>2. RethLiability(then) \in Int
    BY <1>0 DEF RethLiability
  <2> QED
    BY <1>0, <2>1, <2>2 DEF RethObserved, RethLiability
<1>2. then.rethSupply * then.rate \in Int
  BY <1>0
<1> QED
  BY <1>0, <1>1, <1>2, QuotientBelow

LEMMA LidoRowHolds ==
  ASSUME NEW then \in Worlds, NEW v, v = LidoVerdict(then), v[1] = "GREEN"
  PROVE  then.supply <= then.buffer
<1>1. then.buffer >= then.supply
  BY DEF LidoVerdict
<1> QED
  BY <1>1 DEF Worlds

\* Only the bridge has its class.
LEMMA ClassIsOfTheBridge ==
  ASSUME NEW then \in Worlds
  PROVE  LidoVerdict(then)[2] # "coverage-unconfirmed" /\ RethVerdict(then)[2] # "coverage-unconfirmed"
  BY DEF LidoVerdict, RethVerdict

LEMMA VerdictsAreTyped ==
  ASSUME NEW w, NEW locked, NEW minted,
         NEW v \in {LidoVerdict(w), RethVerdict(w), BridgeVerdict(locked, minted),
                    <<"STALE", "l2-wrong-chain">>, <<"ERROR", "none">>}
  PROVE  v[1] \in {"GREEN", "STALE", "ERROR"} /\ v[2] \in RowClasses
<1>1. CASE v \in {<<"STALE", "l2-wrong-chain">>, <<"ERROR", "none">>}
  BY <1>1 DEF RowClasses
<1>2. CASE v = LidoVerdict(w)
  BY <1>2 DEF LidoVerdict, RowClasses
<1>3. CASE v = RethVerdict(w)
  BY <1>3 DEF RethVerdict, RowClasses
<1>4. CASE v = BridgeVerdict(locked, minted)
  BY <1>4 DEF BridgeVerdict, RowClasses
<1> QED
  BY <1>1, <1>2, <1>3, <1>4

-----------------------------------------------------------------------------
LEMMA EthInitHolds == EthInit => EthInv
  BY DEF EthInit, EthInv

\* There is one moment when the script is started.
LEMMA StartRunKeeps == EthInv /\ StartRun => EthInv'
<1> SUFFICES ASSUME EthInv, StartRun PROVE EthInv'
  OBVIOUS
<1>1. block = 0 /\ rows = <<>> /\ rows' = rows /\ block' = block /\ isBase' \in BOOLEAN
  BY DEF EthInv, StartRun
<1>2. PICK w \in Blocks : evm' = <<w>>
  BY DEF StartRun
<1>3. w \in Worlds
  BY <1>2, BlocksAssumption
<1>4. Since(w, w)
  BY <1>3, SinceItself
<1>5. todo' \in Seq({"lido", "reth", "wsteth-base"})
  <2>1. /\ Targets \in Seq({"lido", "reth", "wsteth-base"})
        /\ \A i \in DOMAIN Targets : <<Targets[i]>> \in Seq({"lido", "reth", "wsteth-base"})
    BY DEF Targets
  <2> QED
    BY <2>1 DEF StartRun
<1>6. evm' \in Seq(Worlds) /\ Len(evm') = 1 /\ evm'[1] = w /\ evm' # <<>>
  BY <1>2, <1>3
<1>7. \A i, j \in 1..Len(evm') : i <= j => Since(evm'[i], evm'[j])
  BY <1>4, <1>6
<1>8. 1..Len(rows') = {}
  BY <1>1
<1> QED
  BY <1>1, <1>5, <1>6, <1>7, <1>8 DEF EthInv

\* No row has been made when the block is pinned.
LEMMA PinBlockKeeps == EthInv /\ PinBlock => EthInv'
<1> SUFFICES ASSUME EthInv, PinBlock PROVE EthInv'
  OBVIOUS
<1>1. rows = <<>> /\ rows' = rows /\ evm' = evm /\ isBase' = isBase
  BY DEF EthInv, PinBlock
<1>2. block' \in 0..Len(evm) /\ todo' \in Seq({"lido", "reth", "wsteth-base"})
        /\ (evm = <<>> => todo' = <<>>)
  <2>1. block = 0 /\ evm \in Seq(Worlds) /\ DOMAIN evm = 1..Len(evm) /\ Len(evm) \in Nat
        /\ todo \in Seq({"lido", "reth", "wsteth-base"}) /\ (evm = <<>> => todo = <<>>)
    BY DEF EthInv, PinBlock
  <2>2. CASE block' \in DOMAIN evm /\ UNCHANGED todo
    BY <2>1, <2>2
  <2>3. CASE todo' = <<>> /\ UNCHANGED block
    BY <2>1, <2>3
  <2> QED
    BY <2>2, <2>3 DEF PinBlock
<1> QED
  BY <1>1, <1>2 DEF EthInv

\* A row keeps its moment while the chains move on.
LEMMA ChainsMoveKeeps == EthInv /\ ChainsMove => EthInv'
<1> SUFFICES ASSUME EthInv, ChainsMove PROVE EthInv'
  OBVIOUS
<1>1. /\ todo' = todo /\ block' = block /\ isBase' = isBase /\ rows' = rows
      /\ evm \in Seq(Worlds) /\ Len(evm) \in Nat /\ Len(evm) >= 1 /\ block \in 0..Len(evm)
      /\ \A i, j \in 1..Len(evm) : i <= j => Since(evm[i], evm[j])
      /\ \A i \in 1..Len(rows) :
           /\ rows[i].at \in 1..Len(evm)
           /\ RowHolds(rows[i], block, evm[block], evm[rows[i].at])
  BY DEF EthInv, ChainsMove
<1>2. PICK w \in Later(Now) : evm' = Append(evm, w)
  BY DEF ChainsMove
<1>3. Now \in Worlds /\ \A i \in 1..Len(evm) : evm[i] \in Worlds /\ Since(evm[i], Now)
  BY <1>1 DEF Now
<1>4. w \in Worlds /\ Since(Now, w) /\ Since(w, w)
  BY <1>3, LaterKeeps, SinceItself
<1>5. \A i \in 1..Len(evm) : Since(evm[i], w)
  BY <1>3, <1>4, SinceIsTransitive
<1>6. /\ evm' \in Seq(Worlds) /\ Len(evm') = Len(evm) + 1 /\ evm'[Len(evm) + 1] = w
      /\ \A i \in 1..Len(evm) : evm'[i] = evm[i]
  BY <1>1, <1>2, <1>4
<1>7. \A i, j \in 1..Len(evm') : i <= j => Since(evm'[i], evm'[j])
  <2> SUFFICES ASSUME NEW i \in 1..Len(evm'), NEW j \in 1..Len(evm'), i <= j
               PROVE  Since(evm'[i], evm'[j])
    OBVIOUS
  <2>1. CASE j \in 1..Len(evm)
    BY <1>1, <1>6, <2>1
  <2>2. CASE j = Len(evm) + 1 /\ i \in 1..Len(evm)
    BY <1>5, <1>6, <2>2
  <2>3. CASE j = Len(evm) + 1 /\ i = Len(evm) + 1
    BY <1>4, <1>6, <2>3
  <2> QED
    BY <1>1, <1>6, <2>1, <2>2, <2>3
<1>8. \A i \in 1..Len(rows') :
        /\ rows'[i].at \in 1..Len(evm')
        /\ RowHolds(rows'[i], block', evm'[block'], evm'[rows'[i].at])
  <2> SUFFICES ASSUME NEW i \in 1..Len(rows)
               PROVE  /\ rows[i].at \in 1..Len(evm')
                      /\ RowHolds(rows[i], block, evm'[block], evm'[rows[i].at])
    BY <1>1
  <2>1. block # 0
    BY DEF EthInv
  <2>2. evm'[block] = evm[block] /\ evm'[rows[i].at] = evm[rows[i].at]
    BY <1>1, <1>6, <2>1
  <2> QED
    BY <1>1, <1>6, <2>2
<1> QED
  BY <1>1, <1>6, <1>7, <1>8 DEF EthInv, ChainsMove

\* A new row is of the block of the run and of the moment it was read at.
LEMMA VerifyTargetKeeps == EthInv /\ VerifyTarget => EthInv'
<1> SUFFICES ASSUME EthInv, VerifyTarget PROVE EthInv'
  OBVIOUS
<1>1. /\ evm' = evm /\ block' = block /\ isBase' = isBase
      /\ block \in 1..Len(evm) /\ evm \in Seq(Worlds) /\ Len(evm) \in Nat
      /\ \A i, j \in 1..Len(evm) : i <= j => Since(evm[i], evm[j])
      /\ \A i \in 1..Len(rows) :
           /\ rows[i].at \in 1..Len(evm)
           /\ RowHolds(rows[i], block, evm[block], evm[rows[i].at])
      /\ rows \in Seq(RowType) /\ isBase \in BOOLEAN
  BY DEF EthInv, VerifyTarget
<1>2. todo[1] \in {"lido", "reth", "wsteth-base"} /\ todo' \in Seq({"lido", "reth", "wsteth-base"})
  <2>1. todo \in Seq({"lido", "reth", "wsteth-base"}) /\ todo # <<>> /\ todo' = Tail(todo)
    BY DEF EthInv, VerifyTarget
  <2> QED
    BY <2>1
<1> DEFINE entry(m, v) == EthRow(todo[1], m, v)
<1>a. PICK m \in MomentsFor(todo[1]) :
        \E v : /\ rows' = Append(rows, entry(m, v))
              /\ v \in {VerdictFor(todo[1], m), <<"ERROR", "none">>}
  BY DEF VerifyTarget
<1>3. PICK v : /\ rows' = Append(rows, entry(m, v))
               /\ v \in {VerdictFor(todo[1], m), <<"ERROR", "none">>}
  BY <1>a
<1>4. m \in 1..Len(evm) /\ evm[m] \in Worlds /\ AtBlock \in Worlds /\ AtBlock = evm[block]
  BY <1>1, <1>3 DEF MomentsFor, AtBlock
<1>5. entry(m, v) \in RowType /\ entry(m, v).id = todo[1] /\ entry(m, v).at = m
        /\ entry(m, v).verdict = v[1] /\ entry(m, v).cls = v[2]
  <2>1. v[1] \in {"GREEN", "STALE", "ERROR"} /\ v[2] \in RowClasses
    BY <1>3, VerdictsAreTyped DEF VerdictFor
  <2> QED
    BY <1>2, <1>4, <2>1 DEF EthRow, RowType
<1> HIDE DEF entry
<1>6. RowHolds(entry(m, v), block, AtBlock, evm[m])
  <2>1. CASE v = <<"ERROR", "none">> \/ v = <<"STALE", "l2-wrong-chain">>
    BY <1>5, <2>1 DEF RowHolds
  <2>2. CASE todo[1] = "lido" /\ v = LidoVerdict(AtBlock)
    BY <1>4, <1>5, <2>2, LidoRowHolds, ClassIsOfTheBridge DEF RowHolds
  <2>3. CASE todo[1] = "reth" /\ v = RethVerdict(AtBlock)
    BY <1>4, <1>5, <2>3, RethRowHolds, ClassIsOfTheBridge DEF RowHolds
  <2>4. CASE todo[1] = "wsteth-base" /\ v = BridgeVerdict(AtBlock.locked, evm[m].base)
    <3> DEFINE then == AtBlock
               now == evm[m]
    <3>1. /\ v[1] = "GREEN" =>
              /\ Since(then, now) =>
                   EscrowShort(then) <= OnTheWay(then) + (now.burntSum - then.burntSum)
              /\ Since(now, then) =>
                   EscrowShort(then) <= OnTheWay(then) + (then.mintedSum - now.mintedSum)
          /\ v[2] = "coverage-unconfirmed" /\ EscrowShort(then) <= 0 =>
              /\ Since(then, now) => now.lockedSum > then.lockedSum
              /\ Since(now, then) => then.releasedSum > now.releasedSum
      BY <1>4, <2>4, BridgeRowHolds
    <3>2. /\ m >= block => Since(then, now)
          /\ m <= block => Since(now, then)
      BY <1>1, <1>4
    <3>3. m = block => then = now
      BY <1>4
    <3>4. now.lockedSum \in Nat
      BY <1>4 DEF Worlds
    <3> HIDE DEF then, now
    <3>5. RowHolds(entry(m, v), block, then, now)
      BY <1>1, <1>4, <1>5, <2>4, <3>1, <3>2, <3>3, <3>4 DEF RowHolds
    <3> QED
      BY <3>5 DEF then, now
  <2> QED
    BY <1>2, <1>3, <2>1, <2>2, <2>3, <2>4 DEF VerdictFor
<1>7. /\ rows' \in Seq(RowType) /\ Len(rows') = Len(rows) + 1 /\ rows'[Len(rows) + 1] = entry(m, v)
      /\ \A i \in 1..Len(rows) : rows'[i] = rows[i]
  BY <1>1, <1>3, <1>5
<1>8. \A i \in 1..Len(rows') :
        /\ rows'[i].at \in 1..Len(evm')
        /\ RowHolds(rows'[i], block', evm'[block'], evm'[rows'[i].at])
  <2>1. /\ entry(m, v).at \in 1..Len(evm')
        /\ RowHolds(entry(m, v), block', evm'[block'], evm'[entry(m, v).at])
    BY <1>1, <1>4, <1>5, <1>6
  <2>2. Len(rows) \in Nat
    BY <1>1
  <2>3. ASSUME NEW i \in 1..Len(rows)
        PROVE  /\ rows'[i].at \in 1..Len(evm')
               /\ RowHolds(rows'[i], block', evm'[block'], evm'[rows'[i].at])
    BY <1>1, <1>7
  <2>4. \A i \in 1..Len(rows') : i \in 1..Len(rows) \/ i = Len(rows) + 1
    BY <1>7, <2>2
  <2> QED
    BY <1>7, <2>1, <2>3, <2>4
<1> QED
  BY <1>1, <1>2, <1>7, <1>8 DEF EthInv

LEMMA EthInvMeansRowsHold == EthInv => RowsHoldAtTheBlock
<1> SUFFICES ASSUME EthInv, NEW i \in DOMAIN rows
             PROVE  RowHolds(rows[i], block, AtBlock, evm[rows[i].at])
  BY DEF RowsHoldAtTheBlock, RowHolds
<1>1. rows \in Seq(RowType) /\ i \in 1..Len(rows)
  BY DEF EthInv
<1> QED
  BY <1>1 DEF EthInv, AtBlock

\* For any states of the chains and any moves: what a GREEN row of verify-eth.mjs says was
\* held at the block of the run was, and what the bridge's two reads, made apart in either
\* order, can hide or feign is what crossed the bridge between them or was on its way.
THEOREM RowsHold == EthSpec => []RowsHoldAtTheBlock
<1>1. EthInv /\ [EthNext]_ethVars => EthInv'
  <2>1. EthInv /\ UNCHANGED ethVars => EthInv'
    BY DEF EthInv, ethVars
  <2> QED
    BY <2>1, StartRunKeeps, PinBlockKeeps, ChainsMoveKeeps, VerifyTargetKeeps DEF EthNext
<1> QED
  BY <1>1, EthInitHolds, EthInvMeansRowsHold, PTL DEF EthSpec

-----------------------------------------------------------------------------
(***************************************************************************)
(* The crawl.  A cursor, the one in memory or the one saved, never is past *)
(* a signature of the window that is not on file; that is the whole        *)
(* argument, and it needs the signature to be appended before the cursor   *)
(* is moved.  Without a crash nothing at or before the cursor is on file   *)
(* yet, so nothing is appended twice.                                      *)
(***************************************************************************)

Pcs == {"start", "fetch", "append", "dead", "crawled", "sampled"}
States == [cursor : Nat, pages : Nat, stored : Nat, reachedGenesis : BOOLEAN]

VaultWindow == {i \in DOMAIN vault : InStore(vault[i])}
AllTimed == \A i \in DOMAIN vault : vault[i].time # 0

\* What is past the window is past it with all that is older.
PastTogether ==
  \A i, j \in DOMAIN vault :
    i < j /\ vault[i].time # 0 /\ vault[j].time # 0 /\ PastWindow(vault[j]) => PastWindow(vault[i])

\* The page at hand goes down to the oldest, one by one.
PageShape ==
  /\ oldest \in 1..Len(vault)
  /\ page # <<>> =>
       /\ page[1] \in oldest..Len(vault) /\ Len(page) = page[1] - oldest + 1
       /\ \A k \in 1..Len(page) : page[k] = page[1] - k + 1

\* How far down everything was looked at.
Reached == IF page = <<>> THEN oldest ELSE page[1] + 1

CrawlShape ==
  /\ crPc \in Pcs /\ vault \in Seq(Signatures) /\ page \in Seq(Nat) /\ file \in Seq(Nat)
  /\ found \in Nat /\ crashes \in Nat /\ cut \in BOOLEAN
  /\ state \in States /\ saved \in States
  /\ state.cursor \in 0..Len(vault) /\ saved.cursor \in 0..Len(vault)
  /\ crPc = "start" => file = <<>> /\ state = Fresh /\ saved = Fresh /\ crashes = 0
  /\ crPc # "start" => Len(vault) >= 1
  /\ PastTogether
  /\ crPc = "append" => PageShape

\* All of the window from c on is on file.
Covered(c) == \A i \in VaultWindow : i >= c => i \in ToSet(file)

CrawlCovers ==
  /\ ToSet(file) \subseteq VaultWindow
  /\ state.cursor # 0 => Covered(state.cursor)
  /\ saved.cursor # 0 => Covered(saved.cursor)
  /\ crPc = "append" => Covered(Reached)
  /\ crPc \in {"crawled", "sampled"} => saved = state
  /\ AllTimed /\ ~cut /\ (state.reachedGenesis \/ saved.reachedGenesis) => VaultWindow \subseteq ToSet(file)

\* Nothing before c is on file.
NotBefore(c) == \A k \in 1..Len(file) : file[k] >= c

CrawlOnce ==
  /\ crPc = "dead" => crashes # 0
  /\ crashes = 0 =>
       /\ IsInjective(file)
       /\ IF crPc = "append" THEN state.stored + found = Len(file) /\ NotBefore(Reached)
          ELSE /\ state.stored = Len(file)
               /\ IF state.cursor = 0 THEN file = <<>> ELSE NotBefore(state.cursor)

-----------------------------------------------------------------------------
\* A page goes down from just before the cursor.
PageTop == IF state.cursor = 0 THEN Len(vault) ELSE state.cursor - 1

LEMMA PageGoesDown ==
  ASSUME CrawlShape, NEW p, p # <<>>, p = PageBefore(state.cursor)
  PROVE  /\ p \in Seq(Nat) /\ Len(p) >= 1 /\ p[1] = PageTop /\ PageTop \in 1..Len(vault)
         /\ Last(p) = PageTop - Len(p) + 1 /\ Last(p) \in 1..PageTop
         /\ \A k \in 1..Len(p) : p[k] = PageTop - k + 1
<1> DEFINE last == PageTop
           n == IF last < PageSize THEN last ELSE PageSize
<1>1. state.cursor \in 0..Len(vault) /\ Len(vault) \in Nat /\ state.cursor \in Nat
  BY DEF CrawlShape
<1>2. last \in 0..Len(vault) /\ PageSize \in Nat /\ PageSize >= 1 /\ n \in Nat /\ n <= last
  BY <1>1, CrawlAssumption, SMTT(30) DEF PageTop
<1>3. p = [k \in 1..n |-> last - k + 1]
  BY DEF PageBefore, PageTop
<1> HIDE DEF last, n
<1>4. \A k \in 1..n : last - k + 1 \in Nat
  BY <1>2
<1>5. p \in Seq(Nat) /\ Len(p) = n
  BY <1>2, <1>3, <1>4
<1>6. n # 0
  BY <1>3, <1>5
<1>7. \A k \in 1..n : p[k] = last - k + 1
  BY <1>3
<1>8. p[1] = last /\ p[n] = last - n + 1
  BY <1>2, <1>6, <1>7
<1>9. Last(p) = p[n]
  BY <1>5 DEF Last
<1>10. last \in 1..Len(vault) /\ last - n + 1 \in 1..last /\ n >= 1
  BY <1>1, <1>2, <1>6
<1> USE DEF last
<1> QED
  BY <1>5, <1>7, <1>8, <1>9, <1>10

\* The vault goes on after the window.
LEMMA GrowthIsLater ==
  ASSUME CrawlShape, VaultGrows
  PROVE  /\ vault' \in Seq(Signatures) /\ Len(vault') = Len(vault) + 1
         /\ \A i \in 1..Len(vault) : vault'[i] = vault[i]
         /\ vault'[Len(vault) + 1].time = STORE_BEFORE + 1
         /\ VaultWindow' = VaultWindow /\ (AllTimed' => AllTimed) /\ PastTogether'
<1>1. vault \in Seq(Signatures) /\ Len(vault) \in Nat /\ Len(vault) >= 1 /\ PastTogether
  BY DEF CrawlShape, VaultGrows
<1> DEFINE last == vault[Len(vault)]
           new == [last EXCEPT !.time = STORE_BEFORE + 1, !.slot = @ + 1]
<1>2. vault' = Append(vault, new)
  BY DEF VaultGrows
<1>3. /\ STORE_BEFORE \in Nat /\ STOP_BEFORE \in Nat
      /\ 0 < STOP_BEFORE /\ STOP_BEFORE <= STORE_BEFORE
  BY CrawlAssumption
<1>4. last \in Signatures
  BY <1>1
<1>5. new \in Signatures /\ new.time = STORE_BEFORE + 1
  <2>1. \A x \in Signatures : [x EXCEPT !.time = STORE_BEFORE + 1] \in Signatures
    BY <1>3 DEF Signatures
  <2>2. PICK x : x \in Signatures /\ x = [last EXCEPT !.time = STORE_BEFORE + 1]
    BY <1>4, <2>1
  <2>3. last.slot + 1 \in Nat
    BY <1>4 DEF Signatures
  <2>4. \A y \in Signatures : /\ [y EXCEPT !.slot = last.slot + 1] \in Signatures
                              /\ [y EXCEPT !.slot = last.slot + 1].time = y.time
    BY <2>3 DEF Signatures
  <2>5. new = [x EXCEPT !.slot = last.slot + 1]
    BY <2>2
  <2>6. x.time = STORE_BEFORE + 1
    BY <1>4, <2>2 DEF Signatures
  <2> QED
    BY <2>2, <2>4, <2>5, <2>6
<1> HIDE DEF new
<1>6. /\ vault' \in Seq(Signatures) /\ Len(vault') = Len(vault) + 1
      /\ \A i \in 1..Len(vault) : vault'[i] = vault[i]
      /\ vault'[Len(vault) + 1] = new
  BY <1>1, <1>2, <1>5
<1>7. ~InStore(new) /\ ~PastWindow(new) /\ new.time # 0
  BY <1>3, <1>5 DEF InStore, PastWindow
<1>8. DOMAIN vault = 1..Len(vault) /\ DOMAIN vault' = 1..(Len(vault) + 1)
  BY <1>1, <1>6
<1>9. \A i \in DOMAIN vault' : i \in DOMAIN vault \/ i = Len(vault) + 1
  BY <1>1, <1>8
<1>10. DOMAIN vault \subseteq DOMAIN vault' /\ Len(vault) + 1 \notin DOMAIN vault
  BY <1>1, <1>8
<1>11. \A i \in DOMAIN vault : vault'[i] = vault[i] /\ InStore(vault'[i]) = InStore(vault[i])
  BY <1>6, <1>8 DEF InStore
<1>12. VaultWindow' = VaultWindow
  BY <1>6, <1>7, <1>9, <1>10, <1>11 DEF VaultWindow
<1>13. AllTimed' => AllTimed
  BY <1>10, <1>11 DEF AllTimed
<1>14. PastTogether'
  <2> SUFFICES ASSUME NEW i \in DOMAIN vault', NEW j \in DOMAIN vault', i < j,
                      vault'[i].time # 0, vault'[j].time # 0, vault'[j].time < STOP_BEFORE
               PROVE  vault'[i].time < STOP_BEFORE
    BY DEF PastTogether, PastWindow
  <2>1. j \in DOMAIN vault
    BY <1>6, <1>7, <1>9 DEF PastWindow
  <2>2. i \in DOMAIN vault
    BY <2>1, <1>1, <1>8
  <2> QED
    BY <1>1, <1>11, <2>1, <2>2 DEF PastTogether, PastWindow
<1> QED
  BY <1>5, <1>6, <1>12, <1>13, <1>14

-----------------------------------------------------------------------------
LEMMA ShapeInductive ==
  /\ CrawlInit => CrawlShape
  /\ CrawlShape /\ [CrawlNext]_crawlVars => CrawlShape'
<1>1. CrawlInit => CrawlShape
  <2> SUFFICES ASSUME CrawlInit PROVE CrawlShape
    OBVIOUS
  <2>1. /\ crPc = "start" /\ vault = <<>> /\ page = <<>> /\ found = 0 /\ file = <<>>
        /\ state = Fresh /\ saved = Fresh /\ crashes = 0 /\ cut = FALSE
    BY DEF CrawlInit
  <2>2. Fresh \in States /\ Fresh.cursor = 0
    BY DEF Fresh, States
  <2>3. vault \in Seq(Signatures) /\ file \in Seq(Nat) /\ page \in Seq(Nat) /\ Len(vault) = 0
    BY <2>1
  <2>4. DOMAIN vault = {} /\ state.cursor \in 0..Len(vault) /\ saved.cursor \in 0..Len(vault)
    BY <2>1, <2>2, <2>3
  <2> QED
    BY <2>1, <2>2, <2>3, <2>4 DEF CrawlShape, Pcs, PastTogether
<1> SUFFICES ASSUME CrawlShape, [CrawlNext]_crawlVars PROVE CrawlShape'
  BY <1>1
<1>2. CASE UNCHANGED crawlVars
  BY <1>2 DEF crawlVars, CrawlShape, PastTogether, PageShape
<1>3. CASE BeginCrawl
  <2>1. /\ vault' \in Seq(Signatures) /\ vault' # <<>>
        /\ \A i, j \in DOMAIN vault' :
             i < j /\ vault'[i].time # 0 /\ vault'[j].time # 0 => vault'[i].time <= vault'[j].time
    BY <1>3, VaultsAssumption DEF BeginCrawl
  <2>2. Len(vault') \in Nat /\ Len(vault') >= 1
    BY <2>1
  <2>3. \A i \in DOMAIN vault' : vault'[i].time \in Nat
    <3>1. \A i \in DOMAIN vault' : vault'[i] \in Signatures
      BY <2>1
    <3> QED
      BY <3>1 DEF Signatures
  <2>4. PastTogether'
    BY <2>1, <2>3, CrawlAssumption DEF PastTogether, PastWindow
  <2>5. state = Fresh /\ saved = Fresh /\ state' = state /\ saved' = saved /\ crPc' = "fetch"
    BY <1>3 DEF BeginCrawl, CrawlShape
  <2>6. state'.cursor = 0 /\ saved'.cursor = 0
    BY <2>5 DEF Fresh
  <2>7. /\ page' = page /\ file' = file /\ found' = found /\ crashes' = crashes /\ cut' = cut
    BY <1>3 DEF BeginCrawl
  <2> QED
    BY <2>1, <2>2, <2>4, <2>5, <2>6, <2>7 DEF CrawlShape, Pcs
<1>4. CASE FetchPage
  <2>1. vault' = vault /\ file' = file /\ crashes' = crashes
    BY <1>4 DEF FetchPage
  <2>2. CASE /\ PageBefore(state.cursor) # <<>>
             /\ page' = PageBefore(state.cursor) /\ oldest' = Last(page') /\ found' = 0
             /\ crPc' = "append"
             /\ UNCHANGED <<state, saved, cut>>
    <3>1. PageShape' /\ page' \in Seq(Nat)
      <4>1. /\ page' \in Seq(Nat) /\ Len(page') >= 1
            /\ page'[1] = PageTop /\ PageTop \in 1..Len(vault)
            /\ oldest' = PageTop - Len(page') + 1 /\ oldest' \in 1..PageTop
            /\ \A k \in 1..Len(page') : page'[k] = PageTop - k + 1
        BY <2>2, PageGoesDown
      <4>2. Len(vault) \in Nat /\ Len(page') \in Nat
        BY <4>1 DEF CrawlShape
      <4> QED
        BY <2>1, <4>1, <4>2 DEF PageShape
    <3>2. crPc = "fetch"
      BY <1>4 DEF FetchPage
    <3>3. found' \in Nat /\ state' = state /\ saved' = saved /\ cut' = cut /\ crPc' = "append"
      BY <2>2
    <3> QED
      BY <2>1, <3>1, <3>2, <3>3 DEF CrawlShape, Pcs, PastTogether
  <2>3. CASE /\ Finish([state EXCEPT !.reachedGenesis = TRUE])
             /\ cut' = (cut \/ PageBefore(state.cursor) # <<>>)
             /\ UNCHANGED <<page, oldest, found>>
    <3>1. state' \in States /\ state'.cursor = state.cursor /\ saved' = state' /\ crPc' = "crawled"
      BY <2>3 DEF Finish, CrawlShape, States
    <3>2. cut' \in BOOLEAN
      BY <2>3
    <3>3. crPc # "start"
      BY <1>4 DEF FetchPage
    <3> QED
      BY <2>1, <2>3, <3>1, <3>2, <3>3 DEF CrawlShape, Pcs, PastTogether
  <2> QED
    BY <1>4, <2>2, <2>3 DEF FetchPage
<1>5. CASE AppendSignature
  <2>1. /\ crPc = "append" /\ page # <<>> /\ page' = Tail(page) /\ PageShape
        /\ UNCHANGED <<crPc, vault, oldest, state, saved, crashes, cut>>
        /\ page \in Seq(Nat) /\ file \in Seq(Nat) /\ found \in Nat /\ Len(vault) \in Nat
    BY <1>5 DEF AppendSignature, CrawlShape
  <2>2. page' \in Seq(Nat) /\ Len(page') = Len(page) - 1 /\ Len(page) \in Nat
          /\ \A k \in 1..Len(page') : page'[k] = page[k + 1]
    BY <2>1
  <2>3. file' \in Seq(Nat) /\ found' \in Nat
    <3>1. page[1] \in Nat
      BY <2>1
    <3>2. CASE file' = Append(file, page[1]) /\ found' = found + 1
      BY <2>1, <3>1, <3>2
    <3>3. CASE file' = file /\ found' = found
      BY <2>1, <3>3
    <3> QED
      BY <1>5, <3>2, <3>3 DEF AppendSignature
  <2>4. PageShape'
    <3> SUFFICES ASSUME page' # <<>>
                 PROVE  /\ page'[1] \in oldest..Len(vault) /\ Len(page') = page'[1] - oldest + 1
                        /\ \A k \in 1..Len(page') : page'[k] = page'[1] - k + 1
      BY <2>1 DEF PageShape
    <3>1. Len(page') >= 1
      BY <2>2
    <3>2. page'[1] = page[2] /\ page[2] = page[1] - 1
      BY <2>1, <2>2, <3>1 DEF PageShape
    <3>3. \A k \in 1..Len(page') : page'[k] = page[1] - (k + 1) + 1
      BY <2>1, <2>2, <3>1 DEF PageShape
    <3>4. page[1] \in oldest..Len(vault) /\ Len(page) = page[1] - oldest + 1 /\ oldest \in 1..Len(vault)
      BY <2>1 DEF PageShape
    <3>5. page'[1] \in oldest..Len(vault) /\ Len(page') = page'[1] - oldest + 1
      <4>1. Len(vault) \in Nat /\ Len(page) \in Nat /\ Len(page') = Len(page) - 1
        BY <2>1, <2>2
      <4>2. page'[1] = page[1] - 1
        BY <3>2
      <4>3. page[1] \in Int /\ oldest \in Int /\ page[1] <= Len(vault) /\ page[1] >= oldest
        BY <3>4, <4>1
      <4>4. Len(page) = page[1] - oldest + 1
        BY <3>4
      <4>5. page'[1] \in Int /\ page'[1] >= oldest /\ page'[1] <= Len(vault)
        <5>1. Len(page) >= 2
          BY <3>1, <4>1
        <5>2. page[1] - oldest >= 1
          BY <4>1, <4>3, <4>4, <5>1
        <5>3. page[1] - 1 >= oldest
          BY <4>3, <5>2
        <5>4. page[1] - 1 <= Len(vault) /\ page[1] - 1 \in Int
          BY <4>1, <4>3
        <5> QED
          BY <4>2, <5>3, <5>4
      <4>6. Len(page') = page'[1] - oldest + 1
        BY <4>1, <4>2, <4>3, <4>4
      <4> QED
        BY <4>1, <4>3, <4>5, <4>6
    <3>6. \A k \in 1..Len(page') : page'[k] = page'[1] - k + 1
      BY <2>2, <3>2, <3>3, <3>4
    <3> QED
      BY <3>5, <3>6
  <2> QED
    BY <2>1, <2>2, <2>3, <2>4 DEF CrawlShape, Pcs, PastTogether
<1>6. CASE TurnPage
  <2> DEFINE s == [state EXCEPT !.cursor = oldest, !.pages = @ + 1, !.stored = @ + found]
  <2>1. s \in States /\ s.cursor = oldest /\ oldest \in 0..Len(vault)
    <3>1. oldest \in Nat /\ oldest \in 0..Len(vault) /\ found \in Nat /\ state \in States
      BY <1>6 DEF TurnPage, CrawlShape, PageShape
    <3>2. \A x \in States : [x EXCEPT !.cursor = oldest] \in States
      BY <3>1 DEF States
    <3>3. PICK x : x \in States /\ x = [state EXCEPT !.cursor = oldest]
      BY <3>1, <3>2
    <3>4. state.pages + 1 \in Nat /\ state.stored + found \in Nat /\ x.cursor = oldest
      BY <3>1, <3>3 DEF States
    <3>5. \A y \in States : /\ [y EXCEPT !.pages = state.pages + 1] \in States
                            /\ [y EXCEPT !.pages = state.pages + 1].cursor = y.cursor
      BY <3>4 DEF States
    <3>6. PICK z : z \in States /\ z = [x EXCEPT !.pages = state.pages + 1] /\ z.cursor = oldest
      BY <3>3, <3>4, <3>5
    <3>7. \A y \in States : /\ [y EXCEPT !.stored = state.stored + found] \in States
                            /\ [y EXCEPT !.stored = state.stored + found].cursor = y.cursor
      BY <3>4 DEF States
    <3>8. s = [z EXCEPT !.stored = state.stored + found]
      BY <3>3, <3>6
    <3> QED
      BY <3>1, <3>6, <3>7, <3>8
  <2>2. \/ /\ state' = [s EXCEPT !.reachedGenesis = TRUE] /\ saved' = state' /\ crPc' = "crawled"
        \/ state' = s /\ saved' \in {s, saved} /\ crPc' = "fetch"
    BY <1>6 DEF TurnPage, Finish
  <2>3. crPc # "start" /\ UNCHANGED <<vault, page, found, file, crashes, cut>>
    BY <1>6 DEF TurnPage
  <2> HIDE DEF s
  <2>4. /\ state' \in States /\ saved' \in States
        /\ state'.cursor \in 0..Len(vault) /\ saved'.cursor \in 0..Len(vault)
    <3>1. [s EXCEPT !.reachedGenesis = TRUE] \in States
            /\ [s EXCEPT !.reachedGenesis = TRUE].cursor = oldest
      BY <2>1 DEF States
    <3> QED
      BY <2>1, <2>2, <3>1 DEF CrawlShape
  <2> QED
    BY <2>2, <2>3, <2>4 DEF CrawlShape, Pcs, PastTogether
<1>7. CASE StopCrawl
  BY <1>7 DEF StopCrawl, Finish, CrawlShape, Pcs, PastTogether
<1>8. CASE CrawlDies
  BY <1>8 DEF CrawlDies, CrawlShape, Pcs, PastTogether
<1>9. CASE Resume
  BY <1>9 DEF Resume, CrawlShape, Pcs, PastTogether
<1>10. CASE VaultGrows
  <2>1. UNCHANGED <<crPc, page, oldest, found, state, saved, file, crashes, cut>> /\ crPc # "start"
    BY <1>10 DEF VaultGrows
  <2>2. Len(vault) \in Nat
    BY DEF CrawlShape
  <2>3. /\ vault' \in Seq(Signatures) /\ Len(vault') = Len(vault) + 1 /\ PastTogether'
    BY <1>10, GrowthIsLater
  <2>4. crPc = "append" => PageShape'
    BY <2>1, <2>2, <2>3, SMTT(30) DEF CrawlShape, PageShape
  <2>5. state.cursor \in 0..Len(vault') /\ saved.cursor \in 0..Len(vault')
    BY <2>2, <2>3 DEF CrawlShape
  <2> QED
    BY <2>1, <2>2, <2>3, <2>4, <2>5 DEF CrawlShape
<1>11. CASE SampleCurve
  <2>1. crPc' = "sampled" /\ crPc = "crawled"
          /\ UNCHANGED <<vault, page, oldest, found, state, saved, file, crashes, cut>>
    BY <1>11 DEF SampleCurve
  <2> QED
    BY <2>1 DEF CrawlShape, Pcs, PastTogether
<1> QED
  BY <1>2, <1>3, <1>4, <1>5, <1>6, <1>7, <1>8, <1>9, <1>10, <1>11
  DEF CrawlNext, crawlVars

-----------------------------------------------------------------------------
LEMMA AppendAdds ==
  ASSUME NEW f \in Seq(Nat), NEW x \in Nat
  PROVE  ToSet(Append(f, x)) = ToSet(f) \cup {x}
<1> DEFINE g == Append(f, x)
<1>1. /\ Len(f) \in Nat /\ g \in Seq(Nat) /\ Len(g) = Len(f) + 1 /\ g[Len(f) + 1] = x
      /\ \A k \in 1..Len(f) : g[k] = f[k]
  OBVIOUS
<1>2. DOMAIN f = 1..Len(f) /\ DOMAIN g = 1..Len(g)
  BY <1>1
<1> HIDE DEF g
<1>3. \A k \in DOMAIN g : k \in DOMAIN f \/ k = Len(f) + 1
  BY <1>1, <1>2
<1>4. DOMAIN f \subseteq DOMAIN g /\ Len(f) + 1 \in DOMAIN g
  BY <1>1, <1>2
<1>5. ToSet(g) = ToSet(f) \cup {x}
  BY <1>1, <1>2, <1>3, <1>4 DEF ToSet
<1> QED
  BY <1>5 DEF g

\* Looking at one signature goes one down.
LEMMA OneDown ==
  ASSUME CrawlShape, AppendSignature
  PROVE  /\ page[1] \in 1..Len(vault) /\ Reached = page[1] + 1 /\ Reached' = page[1]
         /\ DOMAIN vault = 1..Len(vault)
<1>1. /\ PageShape /\ page # <<>> /\ page' = Tail(page) /\ oldest' = oldest
      /\ page \in Seq(Nat) /\ vault \in Seq(Signatures)
  BY DEF AppendSignature, CrawlShape
<1>2. Len(page) \in Nat /\ Len(vault) \in Nat /\ DOMAIN vault = 1..Len(vault)
  BY <1>1
<1>3. page[1] \in oldest..Len(vault) /\ oldest \in 1..Len(vault) /\ Len(page) = page[1] - oldest + 1
  BY <1>1 DEF PageShape
<1>4. page[1] \in Int /\ oldest \in Int /\ page[1] \in 1..Len(vault)
  BY <1>2, <1>3
<1>5. CASE page' = <<>>
  <2>1. Len(page) = 1
    <3>1. Len(page') = Len(page) - 1
      BY <1>1
    <3>2. Len(page') = 0
      BY <1>5
    <3> QED
      BY <1>2, <3>1, <3>2
  <2>2. page[1] = oldest
    BY <1>3, <1>4, <2>1
  <2> QED
    BY <1>1, <1>2, <1>4, <1>5, <2>2 DEF Reached
<1>6. CASE page' # <<>>
  <2>1. Len(page) >= 2 /\ page'[1] = page[2]
    BY <1>1, <1>6
  <2>2. page[2] = page[1] - 2 + 1
    BY <1>1, <1>2, <2>1 DEF PageShape
  <2>3. page'[1] + 1 = page[1]
    BY <1>4, <2>1, <2>2
  <2> QED
    BY <1>1, <1>2, <1>4, <1>6, <2>3 DEF Reached
<1> QED
  BY <1>5, <1>6

\* The first of a page is the one before the cursor.
LEMMA FetchedFromCursor ==
  ASSUME CrawlShape, PageBefore(state.cursor) # <<>>, page' = PageBefore(state.cursor)
  PROVE  Reached' = IF state.cursor = 0 THEN Len(vault) + 1 ELSE state.cursor
<1>1. page' # <<>> /\ page'[1] = PageTop
  BY PageGoesDown
<1>2. state.cursor \in 0..Len(vault) /\ Len(vault) \in Nat
  BY DEF CrawlShape
<1> QED
  BY <1>1, <1>2 DEF Reached, PageTop

LEMMA CoversInductive ==
  /\ CrawlInit => CrawlCovers
  /\ CrawlShape /\ CrawlCovers /\ [CrawlNext]_crawlVars => CrawlCovers'
<1>1. CrawlInit => CrawlCovers
  <2> SUFFICES ASSUME CrawlInit PROVE CrawlCovers
    OBVIOUS
  <2>1. crPc = "start" /\ file = <<>> /\ vault = <<>> /\ state = Fresh /\ saved = Fresh
    BY DEF CrawlInit
  <2>2. DOMAIN file = {} /\ DOMAIN vault = {}
    BY <2>1
  <2> QED
    BY <2>1, <2>2 DEF CrawlCovers, ToSet, VaultWindow, Fresh
<1> SUFFICES ASSUME CrawlShape, CrawlCovers, [CrawlNext]_crawlVars PROVE CrawlCovers'
  BY <1>1
<1>2. CASE UNCHANGED crawlVars
  BY <1>2 DEF crawlVars, CrawlCovers, Covered, Reached, VaultWindow, AllTimed
<1>3. CASE BeginCrawl
  <2>1. crPc' = "fetch" /\ file' = <<>> /\ state' = Fresh /\ saved' = Fresh
    BY <1>3 DEF BeginCrawl, CrawlShape
  <2>2. DOMAIN file' = {}
    BY <2>1
  <2> QED
    BY <2>1, <2>2 DEF CrawlCovers, ToSet, Fresh
<1>4. CASE FetchPage
  <2>1. vault' = vault /\ file' = file /\ VaultWindow' = VaultWindow /\ (AllTimed' = AllTimed)
    BY <1>4 DEF FetchPage, VaultWindow, AllTimed
  <2>2. CASE /\ PageBefore(state.cursor) # <<>> /\ page' = PageBefore(state.cursor)
             /\ crPc' = "append" /\ UNCHANGED <<state, saved, cut>>
    <3>1. Covered(Reached)'
      <4> SUFFICES ASSUME NEW i \in VaultWindow, i >= Reached'
                   PROVE  i \in ToSet(file)
        BY <2>1 DEF Covered
      <4>1. i \in 1..Len(vault) /\ Len(vault) \in Nat
        BY DEF VaultWindow, CrawlShape
      <4>2. state.cursor # 0 /\ i >= state.cursor
        BY <2>2, <4>1, FetchedFromCursor
      <4> QED
        BY <4>2 DEF CrawlCovers, Covered
    <3> QED
      BY <2>1, <2>2, <3>1 DEF CrawlCovers, Covered
  <2>3. CASE /\ Finish([state EXCEPT !.reachedGenesis = TRUE])
             /\ cut' = (cut \/ PageBefore(state.cursor) # <<>>)
    <3>1. state'.cursor = state.cursor /\ saved' = state' /\ crPc' = "crawled"
      BY <2>3 DEF Finish, CrawlShape, States
    <3>2. ASSUME ~cut' PROVE VaultWindow \subseteq ToSet(file)
      <4>1. PageBefore(state.cursor) = <<>>
        BY <2>3, <3>2
      <4>2. state.cursor = 1
        <5> DEFINE n == IF PageTop < PageSize THEN PageTop ELSE PageSize
        <5>1. state.cursor \in 0..Len(vault) /\ Len(vault) \in Nat /\ Len(vault) >= 1
          BY <1>4 DEF CrawlShape, FetchPage
        <5>2. PageTop \in Nat /\ PageSize \in Nat /\ PageSize >= 1
          BY <5>1, CrawlAssumption DEF PageTop
        <5>3. [k \in 1..n |-> PageTop - k + 1] = <<>>
          BY <4>1 DEF PageBefore, PageTop
        <5>4. n \in Nat
          BY <5>2
        <5> HIDE DEF n
        <5>5. 1..n = {}
          BY <5>3
        <5>6. n = 0
          BY <5>4, <5>5
        <5>7. PageTop = 0
          BY <5>2, <5>6 DEF n
        <5> QED
          BY <5>1, <5>7 DEF PageTop
      <4>3. \A i \in VaultWindow : i >= 1
        BY DEF VaultWindow, CrawlShape
      <4> QED
        BY <4>2, <4>3 DEF CrawlCovers, Covered
    <3> QED
      BY <2>1, <3>1, <3>2 DEF CrawlCovers, Covered
  <2> QED
    BY <1>4, <2>2, <2>3 DEF FetchPage
<1>5. CASE AppendSignature
  <2>1. /\ crPc = "append" /\ UNCHANGED <<crPc, vault, state, saved, cut>>
        /\ VaultWindow' = VaultWindow /\ (AllTimed' = AllTimed)
    BY <1>5 DEF AppendSignature, VaultWindow, AllTimed
  <2>2. page[1] \in 1..Len(vault) /\ Reached = page[1] + 1 /\ Reached' = page[1]
          /\ DOMAIN vault = 1..Len(vault)
    BY <1>5, OneDown
  <2>3. /\ ToSet(file) \subseteq ToSet(file') /\ ToSet(file') \subseteq ToSet(file) \cup {page[1]}
        /\ page[1] \in ToSet(file') => page[1] \in VaultWindow \/ page[1] \in ToSet(file)
        /\ page[1] \in VaultWindow => page[1] \in ToSet(file')
    <3>1. CASE InStore(vault[page[1]]) /\ file' = Append(file, page[1])
      <4>1. ToSet(file') = ToSet(file) \cup {page[1]}
        <5>1. page[1] \in Nat /\ file \in Seq(Nat)
          BY <2>2 DEF CrawlShape
        <5> QED
          BY <3>1, <5>1, AppendAdds
      <4>2. page[1] \in VaultWindow
        BY <2>2, <3>1 DEF VaultWindow
      <4> QED
        BY <4>1, <4>2
    <3>2. CASE ~InStore(vault[page[1]]) /\ file' = file
      BY <3>2 DEF VaultWindow
    <3> QED
      BY <1>5, <3>1, <3>2 DEF AppendSignature
  <2>4. Covered(Reached)'
    <3> SUFFICES ASSUME NEW i \in VaultWindow, i >= page[1] PROVE i \in ToSet(file')
      BY <2>1, <2>2 DEF Covered
    <3>1. i \in Int /\ page[1] \in Int
      BY <2>2 DEF VaultWindow
    <3>2. i = page[1] \/ i >= page[1] + 1
      BY <3>1
    <3>3. i >= page[1] + 1 => i \in ToSet(file)
      BY <2>1, <2>2 DEF CrawlCovers, Covered
    <3> QED
      BY <2>3, <3>2, <3>3
  <2> QED
    BY <2>1, <2>3, <2>4 DEF CrawlCovers, Covered
<1>6. CASE TurnPage
  <2> DEFINE s == [state EXCEPT !.cursor = oldest, !.pages = @ + 1, !.stored = @ + found]
  <2>1. /\ crPc = "append" /\ page = <<>> /\ oldest \in 1..Len(vault) /\ state \in States
        /\ UNCHANGED <<vault, file, cut>> /\ VaultWindow' = VaultWindow /\ (AllTimed' = AllTimed)
    BY <1>6 DEF TurnPage, CrawlShape, PageShape, VaultWindow, AllTimed
  <2>2. Covered(oldest)
    BY <2>1 DEF CrawlCovers, Reached
  <2>3. s.cursor = oldest /\ s.reachedGenesis = state.reachedGenesis
          /\ [s EXCEPT !.reachedGenesis = TRUE].cursor = oldest
    BY <2>1 DEF States
  <2>4. \/ /\ state' = [s EXCEPT !.reachedGenesis = TRUE] /\ saved' = state' /\ crPc' = "crawled"
           /\ PastWindow(vault[oldest])
        \/ state' = s /\ saved' \in {s, saved} /\ crPc' = "fetch"
    BY <1>6 DEF TurnPage, Finish, Done
  <2> HIDE DEF s
  <2>5. ASSUME AllTimed, PastWindow(vault[oldest]) PROVE VaultWindow \subseteq ToSet(file)
    <3> SUFFICES ASSUME NEW i \in VaultWindow PROVE i >= oldest
      BY <2>2 DEF Covered
    <3>1. i \in DOMAIN vault /\ oldest \in DOMAIN vault /\ i \in Int /\ oldest \in Int
      BY <2>1 DEF VaultWindow, CrawlShape
    <3>2. vault[i] \in Signatures
      BY <3>1 DEF CrawlShape
    <3>3. vault[i].time >= STOP_BEFORE /\ vault[i].time \in Nat /\ STOP_BEFORE \in Nat
      BY <3>2, CrawlAssumption DEF VaultWindow, InStore, Signatures
    <3>4. i < oldest => vault[i].time < STOP_BEFORE
      BY <2>5, <3>1 DEF CrawlShape, PastTogether, AllTimed, PastWindow
    <3> QED
      BY <3>1, <3>3, <3>4
  <2> QED
    BY <2>1, <2>2, <2>3, <2>4, <2>5 DEF CrawlCovers, Covered
<1>7. CASE StopCrawl
  BY <1>7 DEF StopCrawl, Finish, CrawlCovers, Covered, VaultWindow, AllTimed
<1>8. CASE CrawlDies
  BY <1>8 DEF CrawlDies, CrawlCovers, Covered, VaultWindow, AllTimed
<1>9. CASE Resume
  BY <1>9 DEF Resume, CrawlCovers, Covered, VaultWindow, AllTimed
<1>10. CASE VaultGrows
  <2>1. UNCHANGED <<crPc, page, oldest, state, saved, file, cut>>
    BY <1>10 DEF VaultGrows
  <2>2. VaultWindow' = VaultWindow /\ (AllTimed' => AllTimed)
    BY <1>10, GrowthIsLater
  <2> QED
    BY <2>1, <2>2 DEF CrawlCovers, Covered, Reached
<1>11. CASE SampleCurve
  <2>1. crPc' = "sampled" /\ crPc = "crawled" /\ UNCHANGED <<vault, state, saved, file, cut>>
    BY <1>11 DEF SampleCurve
  <2> QED
    BY <2>1 DEF CrawlCovers, Covered, VaultWindow, AllTimed
<1> QED
  BY <1>2, <1>3, <1>4, <1>5, <1>6, <1>7, <1>8, <1>9, <1>10, <1>11
  DEF CrawlNext, crawlVars

-----------------------------------------------------------------------------
LEMMA OnceInductive ==
  /\ CrawlInit => CrawlOnce
  /\ CrawlShape /\ CrawlOnce /\ [CrawlNext]_crawlVars => CrawlOnce'
<1>1. CrawlInit => CrawlOnce
  <2> SUFFICES ASSUME CrawlInit PROVE CrawlOnce
    OBVIOUS
  <2>1. crPc = "start" /\ file = <<>> /\ state = Fresh
    BY DEF CrawlInit
  <2>2. DOMAIN file = {} /\ Len(file) = 0 /\ Fresh.stored = 0 /\ Fresh.cursor = 0
    BY <2>1 DEF Fresh
  <2> QED
    BY <2>1, <2>2 DEF CrawlOnce, IsInjective
<1> SUFFICES ASSUME CrawlShape, CrawlOnce, [CrawlNext]_crawlVars PROVE CrawlOnce'
  BY <1>1
<1>2. CASE UNCHANGED crawlVars
  BY <1>2 DEF crawlVars, CrawlOnce, NotBefore, Reached
<1>3. CASE BeginCrawl
  BY <1>3 DEF BeginCrawl, CrawlOnce, NotBefore
<1>4. CASE FetchPage
  <2>1. file' = file /\ crashes' = crashes /\ crPc = "fetch"
    BY <1>4 DEF FetchPage
  <2>2. CASE /\ PageBefore(state.cursor) # <<>> /\ page' = PageBefore(state.cursor)
             /\ found' = 0 /\ crPc' = "append" /\ state' = state
    <3>1. Reached' = IF state.cursor = 0 THEN Len(vault) + 1 ELSE state.cursor
      BY <2>2, FetchedFromCursor
    <3>2. crashes = 0 => NotBefore(Reached)'
      <4>1. crashes = 0 /\ state.cursor = 0 => Len(file) = 0
        BY <2>1 DEF CrawlOnce
      <4>2. crashes = 0 /\ state.cursor = 0 => NotBefore(Reached)'
        BY <2>1, <4>1 DEF NotBefore
      <4>3. crashes = 0 /\ state.cursor # 0 => NotBefore(Reached)'
        BY <2>1, <3>1 DEF CrawlOnce, NotBefore
      <4> QED
        BY <4>2, <4>3
    <3>3. state.stored \in Nat
      BY DEF CrawlShape, States
    <3> QED
      BY <2>1, <2>2, <3>2, <3>3 DEF CrawlOnce
  <2>3. CASE Finish([state EXCEPT !.reachedGenesis = TRUE])
    <3>1. state'.cursor = state.cursor /\ state'.stored = state.stored /\ crPc' = "crawled"
      BY <2>3 DEF Finish, CrawlShape, States
    <3> QED
      BY <2>1, <3>1 DEF CrawlOnce, NotBefore
  <2> QED
    BY <1>4, <2>2, <2>3 DEF FetchPage
<1>5. CASE AppendSignature
  <2>1. crPc = "append" /\ UNCHANGED <<crPc, vault, state, crashes>>
    BY <1>5 DEF AppendSignature
  <2>2. page[1] \in 1..Len(vault) /\ Reached = page[1] + 1 /\ Reached' = page[1]
    BY <1>5, OneDown
  <2>3. file \in Seq(Nat) /\ found \in Nat /\ state.stored \in Nat /\ page[1] \in Nat
    BY <2>2 DEF CrawlShape, States
  <2>4. Len(file) \in Nat /\ DOMAIN file = 1..Len(file) /\ \A k \in 1..Len(file) : file[k] \in Nat
    BY <2>3
  <2> SUFFICES ASSUME crashes = 0
               PROVE  /\ IsInjective(file') /\ state.stored + found' = Len(file')
                      /\ \A k \in 1..Len(file') : file'[k] >= page[1]
    BY <2>1, <2>2 DEF CrawlOnce, NotBefore
  <2>5. /\ IsInjective(file) /\ state.stored + found = Len(file)
        /\ \A k \in 1..Len(file) : file[k] >= page[1] + 1
    BY <2>1, <2>2 DEF CrawlOnce, NotBefore
  <2>6. CASE file' = Append(file, page[1]) /\ found' = found + 1
    <3>1. /\ Len(file') = Len(file) + 1 /\ DOMAIN file' = 1..(Len(file) + 1)
          /\ file'[Len(file) + 1] = page[1] /\ \A k \in 1..Len(file) : file'[k] = file[k]
      BY <2>3, <2>6
    <3>2. \A k \in 1..(Len(file) + 1) : k \in 1..Len(file) \/ k = Len(file) + 1
      BY <2>4
    <3>3. \A k \in 1..Len(file) : file[k] # page[1] /\ file[k] >= page[1]
      BY <2>3, <2>4, <2>5
    <3>4. IsInjective(file')
      <4> SUFFICES ASSUME NEW a \in 1..(Len(file) + 1), NEW b \in 1..(Len(file) + 1), file'[a] = file'[b]
                   PROVE  a = b
        BY <3>1 DEF IsInjective
      <4>1. CASE a \in 1..Len(file) /\ b \in 1..Len(file)
        BY <2>4, <2>5, <3>1, <4>1 DEF IsInjective
      <4>2. CASE a \in 1..Len(file) /\ b = Len(file) + 1
        BY <3>1, <3>3, <4>2
      <4>3. CASE a = Len(file) + 1 /\ b \in 1..Len(file)
        BY <3>1, <3>3, <4>3
      <4> QED
        BY <3>2, <4>1, <4>2, <4>3
    <3>5. \A k \in 1..Len(file') : file'[k] >= page[1]
      BY <2>3, <3>1, <3>2, <3>3
    <3>6. state.stored + found' = Len(file')
      BY <2>3, <2>4, <2>5, <2>6, <3>1
    <3> QED
      BY <3>4, <3>5, <3>6
  <2>7. CASE file' = file /\ found' = found
    BY <2>3, <2>4, <2>5, <2>7
  <2> QED
    BY <1>5, <2>6, <2>7 DEF AppendSignature
<1>6. CASE TurnPage
  <2> DEFINE s == [state EXCEPT !.cursor = oldest, !.pages = @ + 1, !.stored = @ + found]
  <2>1. /\ crPc = "append" /\ page = <<>> /\ oldest \in 1..Len(vault) /\ state \in States
        /\ file' = file /\ crashes' = crashes
    BY <1>6 DEF TurnPage, CrawlShape, PageShape
  <2>2. /\ s.cursor = oldest /\ s.stored = state.stored + found
        /\ [s EXCEPT !.reachedGenesis = TRUE].cursor = oldest
        /\ [s EXCEPT !.reachedGenesis = TRUE].stored = state.stored + found
    BY <2>1 DEF States
  <2>3. state' \in {[s EXCEPT !.reachedGenesis = TRUE], s} /\ crPc' \in {"crawled", "fetch"}
    BY <1>6 DEF TurnPage, Finish
  <2> HIDE DEF s
  <2>4. state'.cursor = oldest /\ state'.stored = state.stored + found /\ oldest # 0
    <3>1. CASE state' = s
      BY <2>1, <2>2, <3>1
    <3>2. CASE state' = [s EXCEPT !.reachedGenesis = TRUE]
      BY <2>1, <2>2, <3>2
    <3> QED
      BY <2>3, <3>1, <3>2
  <2>5. crashes = 0 => NotBefore(oldest) /\ state.stored + found = Len(file) /\ IsInjective(file)
    BY <2>1 DEF CrawlOnce, Reached
  <2> QED
    BY <2>1, <2>3, <2>4, <2>5 DEF CrawlOnce, NotBefore
<1>7. CASE StopCrawl
  BY <1>7 DEF StopCrawl, Finish, CrawlOnce, NotBefore
<1>8. CASE CrawlDies
  <2>1. crashes' # 0
    BY <1>8 DEF CrawlDies, CrawlShape
  <2> QED
    BY <2>1 DEF CrawlOnce
<1>9. CASE Resume
  BY <1>9 DEF Resume, CrawlOnce
<1>10. CASE VaultGrows
  BY <1>10 DEF VaultGrows, CrawlOnce, NotBefore, Reached
<1>11. CASE SampleCurve
  BY <1>11 DEF SampleCurve, CrawlOnce, NotBefore
<1> QED
  BY <1>2, <1>3, <1>4, <1>5, <1>6, <1>7, <1>8, <1>9, <1>10, <1>11
  DEF CrawlNext, crawlVars

-----------------------------------------------------------------------------
\* For any vault, window, page size and number of crashes: a crawl that says it reached the
\* far edge has all of the window on file and nothing else, and without a crash once.
THEOREM CrawlIsWhole == CrawlSpec => []WindowIsWhole
<1>1. CrawlCovers /\ CrawlOnce => WindowIsWhole
  <2> SUFFICES ASSUME CrawlCovers, CrawlOnce, crPc \in {"crawled", "sampled"},
                      saved.reachedGenesis, ~cut, AllTimed
               PROVE  /\ ToSet(file) = {i \in DOMAIN vault : InStore(vault[i])}
                      /\ crashes = 0 => IsInjective(file) /\ saved.stored = Len(file)
    BY DEF WindowIsWhole, AllTimed
  <2>1. ToSet(file) = {i \in DOMAIN vault : InStore(vault[i])}
    BY DEF CrawlCovers, VaultWindow
  <2>2. crashes = 0 => IsInjective(file) /\ saved.stored = Len(file)
    BY DEF CrawlCovers, CrawlOnce
  <2> QED
    BY <2>1, <2>2
<1> QED
  BY <1>1, ShapeInductive, CoversInductive, OnceInductive, PTL DEF CrawlSpec

-----------------------------------------------------------------------------
(***************************************************************************)
(* The stake-pool verifier, for any pool, number of slots, lag and failing *)
(* calls.  Behind the theorems is what the mutation guard compares on a    *)
(* chain that moves only by the pool's operations: as long as it stays as  *)
(* it is no share is minted, and a header that was updated leaves its      *)
(* epoch in the records.                                                   *)
(***************************************************************************)

\* What is assumed of the first slot, and holds at every slot.
Recorded(p) ==
  /\ p.list.stamp <= p.updated
  /\ p.list.active = 0 /\ p.usable => p.stake.active = 0
  /\ p.list.transient = 0 => p.stake.transient = 0

\* What an operation p -> q may do to the claim and the mint.
Follows(p, q) ==
  /\ p.updated <= q.updated
  /\ \/ q.updated = p.updated /\ q.list.stamp = p.list.stamp
     \/ q.list.stamp > p.updated
  /\ Claim(q) = Claim(p) => q.mint <= p.mint

-----------------------------------------------------------------------------
(* Arithmetic of shares. *)

\* A part of the shares is worth no more than all of them.
LEMMA PartOfTotal ==
  ASSUME NEW m \in Nat, NEW s \in Nat \ {0}, NEW t \in Nat, m <= s
  PROVE  (m * t) \div s \in Nat /\ (m * t) \div s <= t
<1> DEFINE x == m * t
           q == x \div s
<1>1. x \in Nat
  OBVIOUS
<1>2. q \in Nat /\ s * q <= x
  BY <1>1
<1>3. x <= s * t
  OBVIOUS
<1> HIDE DEF x, q
<1>4. s * q <= s * t
  <2>1. s * q \in Nat /\ s * t \in Nat
    BY <1>2
  <2> QED
    BY <1>1, <1>2, <1>3, <2>1
<1>5. q <= t
  BY <1>2, <1>4
<1> QED
  BY <1>2, <1>5 DEF x, q

\* ... and neither is it when the value is rounded up.
LEMMA RoundedUp ==
  ASSUME NEW m \in Nat, NEW s \in Nat \ {0}, NEW t \in Nat, m <= s
  PROVE  (m * t + s - 1) \div s \in Nat /\ (m * t + s - 1) \div s <= t
<1> DEFINE x == m * t + s - 1
           q == x \div s
<1>1. x \in Nat
  OBVIOUS
<1>2. q \in Nat /\ s * q <= x
  BY <1>1
<1>3. x <= s * t + s - 1
  OBVIOUS
<1> HIDE DEF x, q
<1>4. s * q < s * (t + 1)
  <2>1. s * q \in Nat /\ s * t \in Nat /\ s * (t + 1) = s * t + s
    BY <1>2
  <2> QED
    BY <1>1, <1>2, <1>3, <2>1
<1>5. q < t + 1
  BY <1>2, <1>4
<1> QED
  BY <1>2, <1>5 DEF x, q

\* Of a pool that minted no share in excess, all that is required is the total.
LEMMA RequiredIsTotal ==
  ASSUME NEW p \in Pools
  PROVE  /\ Required(p) >= p.total
         /\ Inv1(p) => Required(p) = p.total
<1>1. p.mint \in Nat /\ p.supply \in Nat /\ p.total \in Nat
  BY DEF Pools
<1>2. CASE p.supply = 0
  BY <1>1, <1>2 DEF Required
<1>3. CASE p.supply # 0
  <2> DEFINE up == (p.mint * p.total + p.supply - 1) \div p.supply
  <2>1. up \in Int
    <3>1. p.mint * p.total + p.supply - 1 \in Nat
      BY <1>1, <1>3
    <3> QED
      BY <1>1, <1>3, <3>1
  <2>2. Inv1(p) => up <= p.total
    BY <1>1, <1>3, RoundedUp DEF Inv1
  <2>3. Required(p) = IF up < p.total THEN p.total ELSE up
    BY <1>3 DEF Required
  <2> HIDE DEF up
  <2> QED
    BY <1>1, <2>1, <2>2, <2>3
<1> QED
  BY <1>2, <1>3

-----------------------------------------------------------------------------
(* The operations of the pool. *)

\* Every operation leads to a pool whose records are in order, and follows.
LEMMA SuccessorFollows ==
  ASSUME NEW p \in Pools, Recorded(p), NEW q \in Successors(p)
  PROVE  q \in Pools /\ Recorded(q) /\ Follows(p, q)
<1> USE PoolAssumption
<1>0. /\ p.total \in Nat /\ p.supply \in Nat /\ p.updated \in Nat /\ p.mint \in Nat
      /\ p.reserve \in Nat /\ p.parked \in Nat /\ p.epoch \in Nat /\ p.usable \in BOOLEAN
      /\ p.list \in [active : Nat, transient : Nat, seed : Nat, stamp : Nat]
      /\ p.stake \in [active : Nat, transient : Nat]
  BY DEF Pools
<1>a. ASSUME NEW n \in Nat PROVE Shares(p, n) \in Nat
  <2>1. n * p.supply \in Nat
    BY <1>0
  <2>2. p.total # 0 => (n * p.supply) \div p.total \in Nat
    BY <1>0, <2>1
  <2> QED
    BY <2>2 DEF Shares
<1>1. ASSUME NEW x \in Amounts, q = Deposit(p, x)
      PROVE  q \in Pools /\ Recorded(q) /\ Follows(p, q)
  <2> DEFINE m == Shares(p, x)
  <2>1. m \in Nat /\ x \in Nat /\ x # 0
    BY <1>1, <1>a
  <2> HIDE DEF m
  <2>2. q = [p EXCEPT !.total = @ + x, !.reserve = @ + x, !.supply = @ + m, !.mint = @ + m]
    BY <1>1 DEF Deposit, m
  <2>3. q \in Pools
    <3>1. /\ p.total + x \in Nat /\ p.reserve + x \in Nat
          /\ p.supply + m \in Nat /\ p.mint + m \in Nat
      BY <1>0, <2>1
    <3> QED
      BY <2>2, <3>1 DEF Pools
  <2>4. /\ q.list = p.list /\ q.updated = p.updated /\ q.stake = p.stake /\ q.usable = p.usable
        /\ q.total # p.total
    BY <1>0, <2>1, <2>2 DEF Pools
  <2> QED
    BY <1>0, <2>3, <2>4 DEF Recorded, Follows, Claim
<1>2. ASSUME NEW m \in Amounts, CanWithdraw(p, m), q = Withdraw(p, m)
      PROVE  q \in Pools /\ Recorded(q) /\ Follows(p, q)
  <2> DEFINE l == Lamports(p, m)
  <2>1. m \in Nat /\ m # 0 /\ m <= p.mint /\ m <= p.supply /\ l <= p.reserve - Rent
    BY <1>2 DEF CanWithdraw
  <2>2. l \in Nat /\ l <= p.total
    <3>1. p.supply \in Nat \ {0}
      BY <1>0, <2>1
    <3>2. (m * p.total) \div p.supply \in Nat /\ (m * p.total) \div p.supply <= p.total
      BY <1>0, <2>1, <3>1, PartOfTotal
    <3> QED
      BY <3>1, <3>2 DEF Lamports
  <2> HIDE DEF l
  <2>3. q = [p EXCEPT !.total = @ - l, !.reserve = @ - l, !.supply = @ - m, !.mint = @ - m]
    BY <1>2 DEF Withdraw, l
  <2>4. p.total - l \in Nat /\ p.reserve - l \in Nat /\ p.supply - m \in Nat /\ p.mint - m \in Nat
    BY <1>0, <2>1, <2>2
  <2>5. q \in Pools
    BY <2>3, <2>4 DEF Pools
  <2>6. /\ q.list = p.list /\ q.updated = p.updated /\ q.stake = p.stake /\ q.usable = p.usable
        /\ q.supply # p.supply
    BY <1>0, <2>1, <2>3 DEF Pools
  <2> QED
    BY <1>0, <2>5, <2>6 DEF Recorded, Follows, Claim
<1>3. ASSUME NEW m \in Amounts, CanBurn(p, m), q = Burn(p, m)
      PROVE  q \in Pools /\ Recorded(q) /\ Follows(p, q)
  <2>1. m \in Nat /\ p.mint - m \in Nat /\ p.mint - m <= p.mint
    BY <1>0, <1>3 DEF CanBurn
  <2>2. q \in Pools
    BY <1>3, <2>1 DEF Burn, Pools
  <2>3. /\ q.list = p.list /\ q.updated = p.updated /\ q.stake = p.stake /\ q.usable = p.usable
        /\ q.mint <= p.mint
    BY <1>3, <2>1 DEF Burn, Pools
  <2> QED
    BY <1>0, <2>2, <2>3 DEF Recorded, Follows
<1>4. ASSUME NEW x \in Amounts, CanDelegate(p, x), q = Delegate(p, x)
      PROVE  q \in Pools /\ Recorded(q) /\ Follows(p, q)
  <2>1. x \in Nat /\ x # 0 /\ p.reserve - x \in Nat
    BY <1>0, <1>4 DEF CanDelegate
  <2>2. /\ p.stake.transient + x \in Nat /\ p.list.transient + x \in Nat /\ p.list.seed + 1 \in Nat
        /\ p.list.transient + x # 0
    BY <1>0, <2>1
  <2>3. q \in Pools
    BY <1>0, <1>4, <2>1, <2>2 DEF Delegate, Pools
  <2>4. /\ q.updated = p.updated /\ q.usable = p.usable /\ q.mint = p.mint
        /\ q.list.stamp = p.list.stamp /\ q.list.active = p.list.active
        /\ q.list.transient # 0 /\ q.stake.active = p.stake.active
    BY <1>4, <2>2 DEF Delegate, Pools
  <2> QED
    BY <1>0, <2>3, <2>4 DEF Recorded, Follows
<1>5. ASSUME NEW x \in Amounts, q \in {Donate(p, x), Park(p, x)}
      PROVE  q \in Pools /\ Recorded(q) /\ Follows(p, q)
  <2>1. p.reserve + x \in Nat /\ p.parked + x \in Nat
    BY <1>0
  <2>2. q \in Pools
    BY <1>5, <2>1 DEF Donate, Park, Pools
  <2>3. /\ q.list = p.list /\ q.updated = p.updated /\ q.stake = p.stake /\ q.usable = p.usable
        /\ q.mint = p.mint
    BY <1>5 DEF Donate, Park, Pools
  <2> QED
    BY <1>0, <2>2, <2>3 DEF Recorded, Follows
<1>6. ASSUME q = TurnEpoch(p)
      PROVE  q \in Pools /\ Recorded(q) /\ Follows(p, q)
  <2> DEFINE a == IF p.stake.active > 0 THEN p.stake.active + 1 ELSE 0
  <2>1. a \in Nat /\ p.epoch + 1 \in Nat /\ (p.stake.active = 0 => a = 0)
    BY <1>0
  <2>2. q = [p EXCEPT !.epoch = @ + 1, !.stake.active = a]
    BY <1>6 DEF TurnEpoch, Pools
  <2> HIDE DEF a
  <2>3. q \in Pools
    BY <2>1, <2>2 DEF Pools
  <2>4. /\ q.list = p.list /\ q.updated = p.updated /\ q.usable = p.usable /\ q.mint = p.mint
        /\ q.stake.active = a /\ q.stake.transient = p.stake.transient
    BY <2>2 DEF Pools
  <2> QED
    BY <1>0, <2>1, <2>3, <2>4 DEF Recorded, Follows
<1>7. ASSUME CanUpdate(p), q = Update(p)
      PROVE  q \in Pools /\ Recorded(q) /\ Follows(p, q)
  <2> DEFINE a == IF p.usable THEN p.stake.active + p.stake.transient ELSE 0
             b == p.stake.active + p.stake.transient
             t == p.reserve - Rent + a
  <2>1. a \in Nat /\ b \in Nat /\ t \in Nat /\ (p.usable => b = a) /\ p.updated < p.epoch
    BY <1>0, <1>7 DEF CanUpdate
  <2>2. q = [p EXCEPT !.list.active = a, !.list.transient = 0, !.list.stamp = p.epoch,
                      !.stake.active = b, !.stake.transient = 0,
                      !.total = t, !.updated = p.epoch]
    BY <1>7 DEF Update, Pools
  <2> HIDE DEF a, b, t
  <2>3. q \in Pools
    BY <1>0, <2>1, <2>2 DEF Pools
  <2>4. /\ q.updated = p.epoch /\ q.list.stamp = p.epoch /\ q.usable = p.usable
        /\ q.list.active = a /\ q.stake.active = b /\ q.stake.transient = 0
    BY <2>2 DEF Pools
  <2>5. q.updated # p.updated
    BY <1>0, <2>1, <2>4
  <2> QED
    BY <1>0, <2>1, <2>3, <2>4, <2>5 DEF Recorded, Follows, Claim
<1> QED
  BY <1>1, <1>2, <1>3, <1>4, <1>5, <1>6, <1>7 DEF Successors

-----------------------------------------------------------------------------
(* The slots. *)

\* Over a stretch of slots no operation went against Follows.
ChainOk ==
  /\ chain \in Seq(Pools) /\ Len(chain) >= 1
  /\ \A i \in 1..Len(chain) : Recorded(chain[i])
  /\ \A i, j \in 1..Len(chain) : i <= j =>
       /\ chain[i].updated <= chain[j].updated
       /\ chain[j].updated = chain[i].updated \/ chain[j].list.stamp > chain[i].updated
       /\ (\A k \in i..j : Claim(chain[k]) = Claim(chain[i])) => chain[j].mint <= chain[i].mint

LEMMA InitChain == Init => ChainOk
<1> SUFFICES ASSUME Init PROVE ChainOk
  OBVIOUS
<1>1. PICK p \in Genesis : chain = <<p>>
  BY DEF Init
<1>2. p \in Pools /\ Recorded(p)
  BY <1>1, GenesisAssumption DEF Recorded
<1>3. chain \in Seq(Pools) /\ Len(chain) = 1 /\ chain[1] = p
  BY <1>1, <1>2
<1>4. p.updated \in Nat /\ p.mint \in Nat
  BY <1>2 DEF Pools
<1> QED
  BY <1>2, <1>3, <1>4 DEF ChainOk

\* The past stays as it was, and the new slot follows from the last.
LEMMA NextSlotFollows ==
  ASSUME ChainOk, NextSlot
  PROVE  /\ chain' \in Seq(Pools) /\ Len(chain) \in Nat /\ Len(chain') = Len(chain) + 1
         /\ \A i \in 1..Len(chain) : chain'[i] = chain[i]
         /\ Recorded(chain'[Len(chain')]) /\ Follows(chain[Len(chain)], chain'[Len(chain')])
<1>1. PICK q \in Successors(chain[Len(chain)]) : chain' = Append(chain, q)
  BY DEF NextSlot
<1>2. chain \in Seq(Pools) /\ Len(chain) \in Nat /\ Len(chain) >= 1
  BY DEF ChainOk
<1>3. chain[Len(chain)] \in Pools /\ Recorded(chain[Len(chain)])
  BY <1>2 DEF ChainOk
<1>4. q \in Pools /\ Recorded(q) /\ Follows(chain[Len(chain)], q)
  BY <1>1, <1>3, SuccessorFollows
<1> QED
  BY <1>1, <1>2, <1>4

LEMMA NextSlotKeepsChain == ChainOk /\ NextSlot => ChainOk'
<1> SUFFICES ASSUME ChainOk, NextSlot PROVE ChainOk'
  OBVIOUS
<1> DEFINE n == Len(chain)
           last == chain[n]
           new == chain'[n + 1]
<1>1. /\ chain' \in Seq(Pools) /\ n \in Nat /\ n >= 1 /\ Len(chain') = n + 1
      /\ \A i \in 1..n : chain'[i] = chain[i]
      /\ Recorded(new) /\ Follows(last, new)
  BY NextSlotFollows DEF ChainOk
<1>2. \A i \in 1..n + 1 : chain'[i] \in Pools
  BY <1>1
<1>3. \A i \in 1..n + 1 :
        chain'[i].updated \in Nat /\ chain'[i].mint \in Nat /\ chain'[i].list.stamp \in Nat
  BY <1>2 DEF Pools
<1>4. \A i \in 1..n : Recorded(chain[i])
  BY DEF ChainOk
<1>5. ASSUME NEW i \in 1..n
      PROVE  /\ chain[i].updated <= last.updated
             /\ last.updated = chain[i].updated \/ last.list.stamp > chain[i].updated
             /\ (\A k \in i..n : Claim(chain[k]) = Claim(chain[i])) => last.mint <= chain[i].mint
  BY <1>1 DEF ChainOk
<1>6. ASSUME NEW i \in 1..n, NEW j \in 1..n, i <= j
      PROVE  /\ chain[i].updated <= chain[j].updated
             /\ chain[j].updated = chain[i].updated \/ chain[j].list.stamp > chain[i].updated
             /\ (\A k \in i..j : Claim(chain[k]) = Claim(chain[i])) => chain[j].mint <= chain[i].mint
  BY <1>6 DEF ChainOk
<1>7. n \in 1..n /\ last = chain'[n]
  BY <1>1
<1> HIDE DEF n, last, new
<1>8. ASSUME NEW i \in 1..n + 1, NEW j \in 1..n + 1, i <= j
      PROVE  /\ chain'[i].updated <= chain'[j].updated
             /\ chain'[j].updated = chain'[i].updated \/ chain'[j].list.stamp > chain'[i].updated
             /\ (\A k \in i..j : Claim(chain'[k]) = Claim(chain'[i]))
                  => chain'[j].mint <= chain'[i].mint
  <2>1. CASE j \in 1..n
    <3>1. i \in 1..n /\ \A k \in i..j : k \in 1..n
      BY <1>1, <1>8, <2>1
    <3>2. chain'[i] = chain[i] /\ chain'[j] = chain[j] /\ \A k \in i..j : chain'[k] = chain[k]
      BY <1>1, <2>1, <3>1
    <3> QED
      BY <1>6, <1>8, <2>1, <3>1, <3>2
  <2>2. CASE j = n + 1 /\ i = n + 1
    BY <1>3, <2>2
  <2>3. CASE j = n + 1 /\ i \in 1..n
    <3>1. chain'[i] = chain[i] /\ chain'[j] = new
      BY <1>1, <2>3 DEF new
    <3>2. last.updated <= new.updated
          /\ (\/ new.updated = last.updated /\ new.list.stamp = last.list.stamp
              \/ new.list.stamp > last.updated)
          /\ (Claim(new) = Claim(last) => new.mint <= last.mint)
      BY <1>1 DEF Follows
    <3>3. /\ new.updated \in Nat /\ new.mint \in Nat /\ new.list.stamp \in Nat
          /\ last.updated \in Nat /\ last.mint \in Nat /\ last.list.stamp \in Nat
          /\ chain[i].updated \in Nat /\ chain[i].mint \in Nat
      BY <1>3, <1>7, <2>3, <3>1
    <3>4. ASSUME \A k \in i..j : Claim(chain'[k]) = Claim(chain'[i])
          PROVE  new.mint <= chain[i].mint
      <4>1. n \in i..j /\ j \in i..j /\ \A k \in i..n : k \in i..j /\ k \in 1..n
        BY <1>1, <2>3
      <4>2. \A k \in i..n : Claim(chain[k]) = Claim(chain[i])
        BY <1>1, <3>1, <3>4, <4>1
      <4>3. Claim(new) = Claim(last)
        BY <1>7, <3>1, <3>4, <4>1
      <4> QED
        BY <1>5, <2>3, <3>2, <3>3, <4>2, <4>3
    <3> QED
      BY <1>5, <2>3, <3>1, <3>2, <3>3, <3>4
  <2> QED
    BY <1>1, <1>8, <2>1, <2>2, <2>3
<1>9. \A i \in 1..n + 1 : Recorded(chain'[i])
  <2>1. \A i \in 1..n + 1 : i \in 1..n \/ i = n + 1
    BY <1>1
  <2> QED
    BY <1>1, <1>4, <2>1 DEF new
<1> QED
  BY <1>1, <1>8, <1>9 DEF ChainOk, n

-----------------------------------------------------------------------------
(* The reads. *)

\* What was read rules out what the verdict denies.
Judged ==
  \/ verdict = "STALE"
  \/ /\ verdict = "RED" /\ snap \in 1..Len(chain) /\ reread = 0
     /\ ~Inv1(chain[snap]) \/ ~Inv2a(chain[snap])
  \/ /\ snap \in 1..Len(chain) /\ scan \in snap..Len(chain) /\ reread \in scan..Len(chain)
     /\ Unmutated(chain[reread], chain[snap])
     /\ \/ /\ verdict = "GREEN" /\ Inv1(chain[snap]) /\ Inv2a(chain[snap])
           /\ Inv2b(chain[scan], chain[snap])
        \/ /\ verdict = "RED"
           /\ \/ ~Inv1(chain[snap]) \/ ~Inv2a(chain[snap])
              \/ ~Inv2b(chain[scan], chain[snap])

\* How far the reads have come.
ReadsOk ==
  /\ pc \in {"first", "epoch", "snap"} => snap = 0 /\ scan = 0 /\ reread = 0
  /\ pc \in {"scan", "reread"} => snap \in 1..Len(chain) /\ reread = 0
  /\ pc = "scan" => scan = 0
  /\ pc = "reread" => scan \in snap..Len(chain)
  /\ pc # "done" => verdict = "none"
  /\ pc = "done" => Judged

IInv == TypeOK /\ ChainOk /\ ReadsOk

LEMMA InitHolds == Init => IInv
<1> SUFFICES ASSUME Init PROVE IInv
  OBVIOUS
<1>1. PICK p \in Genesis : chain = <<p>>
  BY DEF Init
<1>2. p \in Pools /\ p.epoch \in Nat /\ chain[1] = p /\ Len(chain) = 1
  BY <1>1, GenesisAssumption DEF Pools
<1>3. current \in Nat \cup {-1}
  BY <1>2 DEF Init
<1>4. ChainOk
  BY InitChain
<1>5. TypeOK
  <2>1. MaxSlots \in Nat /\ MaxSlots >= 1 /\ MaxErrors \in Nat
    BY CheckAssumption
  <2>2. chain \in Seq(Pools) /\ Len(chain) \in 1..MaxSlots
    BY <1>2, <1>4, <2>1 DEF ChainOk
  <2>3. /\ scanning \in BOOLEAN /\ pc = "first" /\ first = -1 /\ snap = 0 /\ scan = 0 /\ reread = 0
        /\ verdict = "none" /\ obstacle = FALSE /\ attempts = 1 /\ errors = 0
    BY DEF Init
  <2>4. {snap, scan, reread} \subseteq 0..Len(chain) /\ attempts \in 1..2 /\ errors \in 0..MaxErrors
    BY <1>2, <2>1, <2>3
  <2> QED
    BY <1>3, <2>2, <2>3, <2>4 DEF TypeOK
<1>6. ReadsOk
  BY DEF Init, ReadsOk
<1> QED
  BY <1>4, <1>5, <1>6 DEF IInv

\* Reads leave the slots alone.
LEMMA ChainStays == ChainOk /\ UNCHANGED chain => ChainOk'
  BY DEF ChainOk

LEMMA StepHolds == IInv /\ [Next]_vars => IInv'
<1> SUFFICES ASSUME IInv, [Next]_vars PROVE IInv'
  OBVIOUS
<1> USE DEF IInv
<1>0. /\ chain \in Seq(Pools) /\ Len(chain) \in Nat /\ Len(chain) >= 1 /\ Len(chain) <= MaxSlots
      /\ MaxSlots \in Nat
      /\ \A i \in 1..Len(chain) : /\ chain[i] \in Pools
                                  /\ chain[i].updated \in Nat /\ chain[i].epoch \in Nat
  <2>1. /\ chain \in Seq(Pools) /\ Len(chain) \in Nat /\ Len(chain) >= 1 /\ Len(chain) <= MaxSlots
        /\ MaxSlots \in Nat
    BY CheckAssumption DEF TypeOK
  <2>2. \A i \in 1..Len(chain) : chain[i] \in Pools
    BY <2>1
  <2> QED
    BY <2>1, <2>2 DEF Pools
<1>1. CASE UNCHANGED vars
  BY <1>1 DEF vars, reads, TypeOK, ChainOk, ReadsOk, Judged, Unmutated
<1>2. CASE ReadFirst
  <2>1. /\ pc = "first" /\ pc' = "epoch" /\ first' \in Nat
        /\ UNCHANGED <<scanning, chain, current, snap, scan, reread, verdict, obstacle, attempts, errors>>
    BY <1>0, <1>2 DEF ReadFirst, Answered, Proceed
  <2> QED
    BY <2>1, ChainStays DEF TypeOK, ReadsOk
<1>3. CASE ReadEpoch
  <2>1. /\ pc = "epoch" /\ UNCHANGED <<scanning, chain, first, snap, scan, reread, attempts, errors>>
        /\ \/ pc' = "done" /\ verdict' = "STALE" /\ obstacle' = FALSE
           \/ pc' = "snap" /\ UNCHANGED <<verdict, obstacle>>
    BY <1>3 DEF ReadEpoch, Render, Proceed
  <2>2. current' \in Nat \cup {-1}
    <3>1. CASE scanning
      BY <1>3, <3>1 DEF ReadEpoch, TypeOK
    <3>2. CASE ~scanning
      BY <1>0, <1>3, <3>2 DEF ReadEpoch, Answered
    <3> QED
      BY <3>1, <3>2
  <2> QED
    BY <2>1, <2>2, ChainStays DEF TypeOK, ReadsOk, Judged
<1>4. CASE ReadSnap
  <2>1. /\ pc = "snap" /\ pc' = "scan" /\ snap' \in 1..Len(chain)
        /\ UNCHANGED <<scanning, chain, first, current, scan, reread, verdict, obstacle, attempts, errors>>
    BY <1>4 DEF ReadSnap, Answered, Proceed
  <2>2. scan = 0 /\ reread = 0
    BY <2>1 DEF ReadsOk
  <2> QED
    BY <1>0, <2>1, <2>2, ChainStays DEF TypeOK, ReadsOk
<1>5. CASE ReadScan
  <2>1. /\ pc = "scan" /\ pc' = "reread" /\ scan' \in 1..Len(chain) /\ scan' >= snap
        /\ UNCHANGED <<scanning, chain, first, current, snap, reread, verdict, obstacle, attempts, errors>>
    BY <1>5 DEF ReadScan, Answered, Proceed
  <2>2. snap \in 1..Len(chain) /\ reread = 0
    BY <2>1 DEF ReadsOk
  <2>3. scan' \in snap..Len(chain)
    BY <1>0, <2>1, <2>2
  <2> QED
    BY <1>0, <2>1, <2>2, <2>3, ChainStays DEF TypeOK, ReadsOk
<1>6. CASE ReadAgain
  <2>1. /\ pc = "reread" /\ pc' = "done" /\ reread' \in 1..Len(chain) /\ reread' >= scan
        /\ UNCHANGED <<scanning, chain, first, current, snap, scan, attempts, errors>>
        /\ verdict' \in {"GREEN", "RED", "STALE"} /\ obstacle' = FALSE
    BY <1>6 DEF ReadAgain, Answered, Render
  <2>2. snap \in 1..Len(chain) /\ scan \in snap..Len(chain)
    BY <2>1 DEF ReadsOk
  <2>3. reread' \in scan..Len(chain)
    BY <1>0, <2>1, <2>2
  <2>4. Judged'
    <3>1. CASE ~Unmutated(chain[reread'], chain[snap]) /\ verdict' = "STALE"
      BY <3>1 DEF Judged
    <3>2. CASE /\ Unmutated(chain[reread'], chain[snap])
               /\ \/ /\ verdict' = "RED"
                     /\ \/ ~Inv1(chain[snap]) \/ ~Inv2a(chain[snap])
                        \/ ~Inv2b(chain[scan], chain[snap])
                  \/ /\ verdict' = "GREEN" /\ Inv1(chain[snap]) /\ Inv2a(chain[snap])
                     /\ Inv2b(chain[scan], chain[snap])
      <4>1. Unmutated(chain[reread], chain[snap])'
        BY <2>1, <3>2 DEF Unmutated
      <4> QED
        BY <2>1, <2>2, <2>3, <3>2, <4>1 DEF Judged
    <3> QED
      BY <1>6, <3>1, <3>2 DEF ReadAgain, Render
  <2>5. TypeOK'
    <3>1. snap \in 0..Len(chain) /\ scan \in 0..Len(chain) /\ reread' \in 0..Len(chain)
      BY <1>0, <2>1, <2>2
    <3>2. snap <= scan /\ scan <= reread'
      BY <2>1, <2>2
    <3> QED
      BY <2>1, <3>1, <3>2 DEF TypeOK
  <2> QED
    BY <2>1, <2>4, <2>5, ChainStays DEF ReadsOk
<1>7. CASE ReadFails
  <2>1. /\ pc' = "done" /\ UNCHANGED <<scanning, chain, first, current, snap, scan, reread, attempts>>
        /\ errors' = errors + 1 /\ errors < MaxErrors /\ obstacle' \in BOOLEAN
        /\ \/ verdict' = "STALE"
           \/ /\ pc \in {"scan", "reread"} /\ verdict' = "RED"
              /\ ~Inv1(chain[snap]) \/ ~Inv2a(chain[snap])
    BY <1>7 DEF ReadFails, Render, reads
  <2>2. TypeOK'
    BY <2>1, CheckAssumption DEF TypeOK
  <2>3. Judged'
    BY <2>1 DEF Judged, ReadsOk
  <2> QED
    BY <2>1, <2>2, <2>3, ChainStays DEF ReadsOk
<1>8. CASE Retry
  <2>1. /\ pc' = "first" /\ verdict' = "none" /\ obstacle' = FALSE /\ attempts < 2
        /\ attempts' = attempts + 1 /\ first' = -1 /\ snap' = 0 /\ scan' = 0 /\ reread' = 0
        /\ UNCHANGED <<scanning, chain, current, errors>>
    BY <1>8 DEF Retry
  <2>2. attempts' \in 1..2
    BY <2>1 DEF TypeOK
  <2>3. 0 \in 0..Len(chain)
    BY <1>0
  <2>4. TypeOK'
    BY <2>1, <2>2, <2>3 DEF TypeOK
  <2> QED
    BY <2>1, <2>4, ChainStays DEF ReadsOk
<1>9. CASE NextSlot
  <2>1. /\ pc # "done" /\ Len(chain) < MaxSlots
        /\ UNCHANGED <<scanning, pc, first, current, snap, scan, reread, verdict, obstacle, attempts, errors>>
    BY <1>9 DEF NextSlot, reads
  <2>2. chain' \in Seq(Pools) /\ Len(chain') = Len(chain) + 1
    BY <1>9, NextSlotFollows
  <2>3. ChainOk'
    BY <1>9, NextSlotKeepsChain
  <2>4. TypeOK'
    BY <1>0, <2>1, <2>2 DEF TypeOK
  <2>5. ReadsOk'
    BY <1>0, <2>1, <2>2 DEF ReadsOk, TypeOK
  <2> QED
    BY <2>3, <2>4, <2>5
<1> QED
  BY <1>1, <1>2, <1>3, <1>4, <1>5, <1>6, <1>7, <1>8, <1>9 DEF Next

\* The checker's state is what it should be in any run of it, with or without the scan.
THEOREM CheckIsTyped == Spec => []TypeOK
<1>1. IInv => TypeOK
  BY DEF IInv
<1> QED
  BY <1>1, InitHolds, StepHolds, PTL DEF Spec

-----------------------------------------------------------------------------
(* The verdict. *)

\* What the guard lets pass without a claim that returned is a claim that stayed.
LEMMA ClaimStays ==
  ASSUME IInv, ~ClaimReturned, snap \in 1..Len(chain), scan \in snap..Len(chain),
         reread \in scan..Len(chain), Unmutated(chain[reread], chain[snap])
  PROVE  /\ Claim(chain[scan]) = Claim(chain[snap]) /\ chain[scan].mint <= chain[snap].mint
         /\ snap \in Window /\ scan \in Window
<1>1. /\ Len(chain) \in Nat /\ reread # 0 /\ snap <= scan /\ scan <= reread
      /\ scan \in 1..Len(chain) /\ reread \in 1..Len(chain) /\ snap \in Nat
  BY DEF IInv, TypeOK
<1>2. Window = snap..reread
  BY <1>1 DEF Window
<1>3. chain[reread].updated = chain[snap].updated
  <2>1. \/ chain[reread].updated = chain[snap].updated
        \/ chain[reread].list.stamp > chain[snap].updated
    <3>1. snap <= reread
      BY <1>1
    <3> QED
      BY <1>1, <3>1 DEF IInv, ChainOk
  <2>2. chain[reread].list = chain[snap].list
    BY DEF Unmutated
  <2>3. chain[snap].list.stamp <= chain[snap].updated
    BY DEF IInv, ChainOk, Recorded
  <2>4. chain[snap].list.stamp \in Nat /\ chain[snap].updated \in Nat
    <3>1. chain[snap] \in Pools
      BY DEF IInv, TypeOK
    <3> QED
      BY <3>1 DEF Pools
  <2> QED
    BY <2>1, <2>2, <2>3, <2>4
<1>4. Claim(chain[snap]) = Claim(chain[reread])
  BY <1>3 DEF Claim, Unmutated
<1>5. \A s \in snap..reread : Claim(chain[s]) = Claim(chain[snap])
  BY <1>1, <1>2, <1>4 DEF ClaimReturned
<1>6. scan \in snap..reread /\ snap \in snap..reread /\ \A k \in snap..scan : k \in snap..reread
  BY <1>1
<1>7. chain[scan].mint <= chain[snap].mint
  <2>1. \A k \in snap..scan : Claim(chain[k]) = Claim(chain[snap])
    BY <1>5, <1>6
  <2> QED
    BY <1>1, <2>1 DEF IInv, ChainOk
<1> QED
  BY <1>2, <1>5, <1>6, <1>7

\* What can be redeemed is what backs the pool, as far as the records of one claim tell.
LEMMA RedeemableIsBacking ==
  ASSUME NEW p \in Pools, NEW q \in Pools, Recorded(q), q.list = p.list
  PROVE  Redeemable(q, p) = Backing(q)
<1>1. /\ q.reserve \in Nat /\ q.stake.active \in Nat /\ q.stake.transient \in Nat
      /\ q.list.active \in Nat /\ q.list.transient \in Nat /\ q.usable \in BOOLEAN
  BY DEF Pools
<1>2. Rent \in Nat
  BY PoolAssumption
<1>3. (IF q.list.active > 0 /\ q.usable THEN q.stake.active ELSE 0)
        = (IF q.usable THEN q.stake.active ELSE 0)
  BY <1>1 DEF Recorded
<1>4. (IF q.list.transient > 0 THEN q.stake.transient ELSE 0) = q.stake.transient
  BY <1>1 DEF Recorded
<1> QED
  BY <1>3, <1>4 DEF Redeemable, Backing

\* The three invariants, read at two slots of one claim, are the truth at the second.
LEMMA InvariantsTellTheTruth ==
  ASSUME NEW p \in Pools, NEW q \in Pools, Recorded(q), Claim(q) = Claim(p), q.mint <= p.mint,
         Inv1(p)
  PROVE  Inv2b(q, p) <=> Sound(q)
<1>1. q.list = p.list /\ q.total = p.total /\ q.supply = p.supply
  BY DEF Claim
<1>2. /\ p.total \in Nat /\ p.supply \in Nat /\ p.mint \in Nat /\ q.mint \in Nat
      /\ q.mint <= q.supply
  BY <1>1 DEF Pools, Inv1
<1>3. Required(p) = q.total
  BY <1>1, RequiredIsTotal
<1>4. Redeemable(q, p) = Backing(q)
  BY <1>1, RedeemableIsBacking
<1> QED
  BY <1>2, <1>3, <1>4 DEF Inv2b, Sound

\* For any pool and any operations between the reads: GREEN was true of some slot of the
\* window, if no claim changed in it and came back.
THEOREM GreenWasTrue == Spec => []GreenIsEarned
<1>1. IInv => GreenIsEarned
  <2> SUFFICES ASSUME IInv, verdict = "GREEN", ~ClaimReturned
               PROVE  \E s \in Window : Sound(chain[s])
    BY DEF GreenIsEarned
  <2>1. pc = "done"
    BY DEF IInv, ReadsOk
  <2>2. /\ snap \in 1..Len(chain) /\ scan \in snap..Len(chain) /\ reread \in scan..Len(chain)
        /\ Unmutated(chain[reread], chain[snap])
        /\ Inv1(chain[snap]) /\ Inv2b(chain[scan], chain[snap])
    BY <2>1 DEF IInv, ReadsOk, Judged
  <2>3. /\ Claim(chain[scan]) = Claim(chain[snap]) /\ chain[scan].mint <= chain[snap].mint
        /\ scan \in Window
    BY <2>2, ClaimStays
  <2>4. scan \in 1..Len(chain)
    BY <2>2 DEF IInv, TypeOK
  <2>5. chain[snap] \in Pools /\ chain[scan] \in Pools /\ Recorded(chain[scan])
    BY <2>2, <2>4 DEF IInv, TypeOK, ChainOk
  <2> QED
    BY <2>2, <2>3, <2>5, InvariantsTellTheTruth
<1> QED
  BY <1>1, InitHolds, StepHolds, PTL DEF Spec

\* ... and RED was no false alarm: at some slot of the window the pool was not sound, or
\* its header was above its own records.
THEOREM RedWasTrue == Spec => []RedIsEarned
<1>1. IInv => RedIsEarned
  <2> SUFFICES ASSUME IInv, verdict = "RED", ~ClaimReturned
               PROVE  \E s \in Window : ~Sound(chain[s]) \/ SelfContradictory(chain[s])
    BY DEF RedIsEarned
  <2>1. pc = "done"
    BY DEF IInv, ReadsOk
  <2>2. ASSUME snap \in 1..Len(chain), ~Inv1(chain[snap]) \/ ~Inv2a(chain[snap])
        PROVE  ~Sound(chain[snap]) \/ SelfContradictory(chain[snap])
    <3>1. chain[snap] \in Pools
      BY <2>2 DEF IInv, TypeOK
    <3>2. /\ chain[snap].reserve \in Nat /\ chain[snap].list.active \in Nat
          /\ chain[snap].list.transient \in Nat /\ chain[snap].total \in Nat
      BY <3>1 DEF Pools
    <3> QED
      BY <2>2, <3>2 DEF Inv1, Inv2a, Sound, SelfContradictory
  <2>3. CASE snap \in 1..Len(chain) /\ reread = 0 /\ (~Inv1(chain[snap]) \/ ~Inv2a(chain[snap]))
    <3>1. snap \in Window
      BY <2>3 DEF Window
    <3> QED
      BY <2>2, <2>3, <3>1
  <2>4. CASE /\ snap \in 1..Len(chain) /\ scan \in snap..Len(chain) /\ reread \in scan..Len(chain)
             /\ Unmutated(chain[reread], chain[snap])
             /\ \/ ~Inv1(chain[snap]) \/ ~Inv2a(chain[snap])
                \/ ~Inv2b(chain[scan], chain[snap])
    <3>1. /\ Claim(chain[scan]) = Claim(chain[snap]) /\ chain[scan].mint <= chain[snap].mint
          /\ snap \in Window /\ scan \in Window
      BY <2>4, ClaimStays
    <3>2. scan \in 1..Len(chain)
      BY <2>4 DEF IInv, TypeOK
    <3>3. chain[snap] \in Pools /\ chain[scan] \in Pools /\ Recorded(chain[scan])
      BY <2>4, <3>2 DEF IInv, TypeOK, ChainOk
    <3>4. CASE Inv1(chain[snap]) /\ ~Inv2b(chain[scan], chain[snap])
      BY <3>1, <3>3, <3>4, InvariantsTellTheTruth
    <3>5. CASE ~Inv1(chain[snap]) \/ ~Inv2a(chain[snap])
      BY <2>2, <2>4, <3>1, <3>5
    <3> QED
      BY <2>4, <3>4, <3>5
  <2> QED
    BY <2>1, <2>3, <2>4 DEF IInv, ReadsOk, Judged
<1> QED
  BY <1>1, InitHolds, StepHolds, PTL DEF Spec

-----------------------------------------------------------------------------
(***************************************************************************)
(* Wrapped bitcoin.  What a row can be wrong by is kept while it is made:  *)
(* what was read so far and what is there now differ by what moved since,  *)
(* and by the rounding of the legs.                                        *)
(***************************************************************************)

\* What the legs read are of now, and what they were read as.
LegSupply == [i \in DOMAIN issuer.legs |-> supply[issuer.legs[i]]]
LegsRead == 1 .. Len(legs)
OwedRead == Over(LegSupply, LegsRead)
LiabilityRead == Over(legs, LegsRead)
FineRead == {i \in LegsRead : issuer.legs[i] \in FineChains}

\* The addresses read, and the coins they had and have.
AddressesRead == {addrs[j] : j \in 1 .. Len(per)}
ReserveRead == Over(per, 1 .. Len(per))
HeldRead == Over(balance, AddressesRead)

WorldTypes ==
  /\ supply \in [Chains -> Nat] /\ balance \in [Addresses -> Nat] /\ buckets \in Seq(Addresses)
  /\ skew \in Nat
  /\ \A c \in Chains \ FineChains : \E k \in Nat : supply[c] = Fine * k

BtcTypes ==
  /\ btcPc \in {"start", "legs", "derive", "reserve", "done"}
  /\ btcPc # "start" => WorldTypes /\ issuer \in REGISTRY
  /\ btcPc = "start" => skew = 0 /\ legs = <<>>
  /\ legs \in Seq(Nat \cup {-1}) /\ addrs \in Seq(Addresses) /\ per \in Seq(Nat)
  /\ Len(per) <= Len(addrs)
  /\ btcPc # "start" => Len(legs) <= Len(issuer.legs)
  /\ btcPc \in {"derive", "reserve"} => Len(legs) = Len(issuer.legs)
  /\ btcPc \notin {"reserve", "done"} => per = <<>> /\ addrs = <<>>
  /\ btcPc # "done" => row = NoRow
  /\ blank \in BOOLEAN

\* What was read, what is there, and what moved.
ReadsWithin ==
  LiabilityComplete(legs) =>
    /\ IsInjective(addrs) =>
         OwedRead + Fine * ReserveRead
           <= Fine * LiabilityRead + Fine * HeldRead + skew + (Fine - 1) * Cardinality(FineRead)
    /\ ~blank => Fine * LiabilityRead + Fine * HeldRead <= OwedRead + Fine * ReserveRead + skew

BtcInv == BtcTypes /\ ReadsWithin /\ CoverageWithinSkew

-----------------------------------------------------------------------------
\* Division rounds down by less than the divisor.
LEMMA SatsRound ==
  ASSUME NEW x \in Nat
  PROVE  ToSats(x) \in Nat /\ Fine * ToSats(x) <= x /\ x <= Fine * ToSats(x) + (Fine - 1)
<1>1. Fine \in Nat \ {0}
  BY WrappedAssumption
<1>2. x \div Fine \in Int /\ Fine * (x \div Fine) <= x /\ x < Fine * (x \div Fine) + Fine
  BY <1>1
<1>3. x \div Fine >= 0
  <2> DEFINE q == x \div Fine
  <2> SUFFICES ASSUME q < 0 PROVE FALSE
    BY <1>2
  <2> HIDE DEF q
  <2>1. Fine * q <= Fine * (-1)
    BY <1>1, <1>2 DEF q
  <2>2. Fine * q \in Int /\ x < Fine * q + Fine
    BY <1>1, <1>2 DEF q
  <2> QED
    BY <1>1, <2>1, <2>2
<1> DEFINE p == Fine * (x \div Fine)
<1>4. p \in Int /\ p <= x /\ x < p + Fine
  BY <1>1, <1>2
<1> HIDE DEF p
<1>5. p <= x /\ x <= p + (Fine - 1)
  BY <1>1, <1>4
<1> QED
  BY <1>2, <1>3, <1>5 DEF ToSats, p

\* Multiplying keeps the order.
LEMMA Scaled ==
  ASSUME NEW f \in Nat, NEW a \in Int, NEW b \in Int, a <= b
  PROVE  f * a <= f * b
<1>1. \A d \in Nat : f * d \in Nat
  OBVIOUS
<1>2. b - a \in Nat /\ f * (b - a) = f * b - f * a
  OBVIOUS
<1>3. f * (b - a) \in Nat /\ f * a \in Int /\ f * b \in Int
  BY <1>1, <1>2
<1> QED
  BY <1>2, <1>3

\* A supply in whole satoshis is not rounded.
LEMMA WholeSats ==
  ASSUME NEW k \in Nat
  PROVE  Fine * ToSats(Fine * k) = Fine * k
<1>1. Fine \in Nat \ {0} /\ Fine * k \in Nat
  BY WrappedAssumption
<1> DEFINE q == ToSats(Fine * k)
<1>2. q \in Nat /\ Fine * q <= Fine * k /\ Fine * k <= Fine * q + (Fine - 1)
  BY <1>1, SatsRound
<1> HIDE DEF q
<1>3. q <= k
  <2> SUFFICES ASSUME k + 1 <= q PROVE FALSE
    BY <1>2
  <2>1. Fine * (k + 1) <= Fine * q
    BY <1>1, <1>2, Scaled
  <2>2. Fine * (k + 1) = Fine * k + Fine
    BY <1>1
  <2> QED
    BY <1>1, <1>2, <2>1, <2>2
<1>4. k <= q
  <2> SUFFICES ASSUME q + 1 <= k PROVE FALSE
    BY <1>2
  <2>1. Fine * (q + 1) <= Fine * k
    BY <1>1, <1>2, Scaled
  <2>2. Fine * (q + 1) = Fine * q + Fine
    BY <1>1, <1>2
  <2> QED
    BY <1>1, <1>2, <2>1, <2>2
<1> QED
  BY <1>2, <1>3, <1>4 DEF q

-----------------------------------------------------------------------------
(* The folds of the verifier are sums. *)

LEMMA ReserveIsSum ==
  ASSUME NEW read
  PROVE  ReserveSats(read) = Over(read, DOMAIN read)
  BY DEF ReserveSats, FoldSeq, FoldFunction, FoldFunctionOnSet, MapThenFoldSet, Over, Adds, AnyOf

LEMMA HeldIsSum == Held = Over(balance, ToSet(addrs))
  BY DEF Held, SumFunctionOnSet, FoldFunctionOnSet, MapThenFoldSet, Over, Adds, AnyOf

LEMMA LiabilityIsSum ==
  ASSUME NEW read, LiabilityComplete(read)
  PROVE  LiabilitySats(read) = Over(read, DOMAIN read)
<1> DEFINE D == DOMAIN read
           Kept(g) == [s \in SUBSET D |-> IF s = {} THEN 0
                        ELSE IF read[AnyOf(s)] >= 0 THEN read[AnyOf(s)] + g[s \ {AnyOf(s)}]
                             ELSE g[s \ {AnyOf(s)}]]
           Summing(g) == [s \in SUBSET D |-> IF s = {} THEN 0 ELSE read[AnyOf(s)] + g[s \ {AnyOf(s)}]]
<1>1. LiabilitySats(read) = (CHOOSE g : g = Kept(g))[D]
  BY DEF LiabilitySats, FoldSeq, FoldFunction, FoldFunctionOnSet, MapThenFoldSet, AnyOf
<1>2. \A g : Kept(g) = Summing(g)
  <2>1. \A s \in SUBSET D : s # {} => read[AnyOf(s)] >= 0
    BY AnyIsIn DEF LiabilityComplete
  <2> QED
    BY <2>1
<1>3. Over(read, D) = (CHOOSE g : g = Summing(g))[D]
  BY DEF Over, Adds
<1> HIDE DEF Kept, Summing, D
<1>4. (CHOOSE g : g = Kept(g)) = (CHOOSE g : g = Summing(g))
  BY <1>2
<1> QED
  BY <1>1, <1>3, <1>4 DEF D

LEMMA OwedIsSum == Owed = Over(LegSupply, DOMAIN issuer.legs)
  BY SumIsIter DEF Owed, LegSupply, Over

-----------------------------------------------------------------------------
(* The steps. *)

LEMMA BtcInitHolds == WrappedInit => BtcInv
<1> SUFFICES ASSUME WrappedInit PROVE BtcInv
  OBVIOUS
<1>1. BtcTypes
  <2>1. /\ legs \in Seq(Nat \cup {-1}) /\ addrs \in Seq(Addresses) /\ per \in Seq(Nat)
        /\ Len(per) <= Len(addrs)
    BY DEF WrappedInit
  <2>2. btcPc = "start" /\ skew = 0 /\ legs = <<>> /\ per = <<>> /\ addrs = <<>> /\ row = NoRow
    BY DEF WrappedInit
  <2>3. blank \in BOOLEAN
    BY DEF WrappedInit
  <2> QED
    BY <2>1, <2>2, <2>3 DEF BtcTypes
<1>2. LegsRead = {} /\ AddressesRead = {} /\ 1 .. Len(per) = {} /\ FineRead = {} /\ skew = 0
  BY DEF WrappedInit, LegsRead, AddressesRead, FineRead
<1>3. OwedRead = 0 /\ LiabilityRead = 0 /\ ReserveRead = 0 /\ HeldRead = 0
      /\ Cardinality(FineRead) = 0
  BY <1>2, OverNothing, FS_EmptySet DEF OwedRead, LiabilityRead, ReserveRead, HeldRead
<1>4. ReadsWithin
  BY <1>2, <1>3, WrappedAssumption DEF ReadsWithin
<1> QED
  BY <1>1, <1>4 DEF BtcInv, CoverageWithinSkew, WrappedInit

\* What the sums are sums of.
LEMMA SumsAreTyped ==
  ASSUME BtcTypes, btcPc # "start"
  PROVE  /\ issuer.legs \in Seq(Chains) /\ LegsRead \subseteq DOMAIN issuer.legs
         /\ IsInjective(issuer.legs)
         /\ DOMAIN issuer.legs = 1 .. Len(issuer.legs)
         /\ IsFiniteSet(LegsRead) /\ IsFiniteSet(AddressesRead) /\ IsFiniteSet(FineRead)
         /\ IsFiniteSet(1 .. Len(per)) /\ AddressesRead \subseteq Addresses
         /\ \A i \in DOMAIN issuer.legs : LegSupply[i] = supply[issuer.legs[i]] /\ LegSupply[i] \in Nat
         /\ \A i \in LegsRead : legs[i] \in Int
         /\ \A j \in 1 .. Len(per) : per[j] \in Nat
         /\ \A a \in Addresses : balance[a] \in Nat
         /\ OwedRead \in Int /\ LiabilityRead \in Int /\ ReserveRead \in Int /\ HeldRead \in Int
         /\ Cardinality(FineRead) \in Nat
<1>1. issuer \in REGISTRY /\ WorldTypes
  BY DEF BtcTypes
<1>2. issuer.legs \in Seq(Chains) /\ IsInjective(issuer.legs)
  BY <1>1, WrappedAssumption
<1>3. DOMAIN issuer.legs = 1 .. Len(issuer.legs) /\ LegsRead \subseteq DOMAIN issuer.legs
  BY <1>2 DEF BtcTypes, LegsRead
<1>4. IsFiniteSet(LegsRead) /\ IsFiniteSet(1 .. Len(per)) /\ IsFiniteSet(FineRead)
  <2>1. Len(legs) \in Nat /\ Len(per) \in Nat
    BY DEF BtcTypes
  <2>2. IsFiniteSet(LegsRead) /\ IsFiniteSet(1 .. Len(per))
    BY <2>1, FS_Interval DEF LegsRead
  <2>3. FineRead \subseteq LegsRead
    BY DEF FineRead
  <2> QED
    BY <2>2, <2>3, FS_Subset
<1>5. IsFiniteSet(AddressesRead) /\ AddressesRead \subseteq Addresses
  <2> DEFINE f == [j \in 1 .. Len(per) |-> addrs[j]]
  <2>1. f \in Surjection(1 .. Len(per), AddressesRead)
    BY DEF AddressesRead, Surjection
  <2>2. IsFiniteSet(AddressesRead)
    BY <1>4, <2>1, FS_Surjection
  <2> QED
    BY <2>2 DEF BtcTypes, AddressesRead
<1>6. \A i \in DOMAIN issuer.legs : LegSupply[i] = supply[issuer.legs[i]] /\ LegSupply[i] \in Nat
  BY <1>1, <1>2 DEF LegSupply, WorldTypes
<1>7. \A i \in LegsRead : legs[i] \in Int
  BY DEF BtcTypes, LegsRead
<1>8. \A j \in 1 .. Len(per) : per[j] \in Nat
  BY DEF BtcTypes
<1>9. \A a \in Addresses : balance[a] \in Nat
  BY <1>1 DEF WorldTypes
<1>10. OwedRead \in Int
  BY <1>3, <1>4, <1>6, OverIsInt DEF OwedRead
<1>11. LiabilityRead \in Int
  BY <1>4, <1>7, OverIsInt DEF LiabilityRead
<1>12. ReserveRead \in Int
  BY <1>4, <1>8, OverIsInt DEF ReserveRead
<1>13. HeldRead \in Int
  BY <1>5, <1>9, OverIsInt DEF HeldRead
<1>14. Cardinality(FineRead) \in Nat
  BY <1>4, FS_CardinalityType
<1> QED
  BY <1>2, <1>3, <1>4, <1>5, <1>6, <1>7, <1>8, <1>9, <1>10, <1>11, <1>12, <1>13, <1>14

LEMMA VerifyIssuerKeeps == BtcInv /\ VerifyIssuer => BtcInv'
<1> SUFFICES ASSUME BtcInv, VerifyIssuer PROVE BtcInv'
  OBVIOUS
<1>1. BtcTypes'
  <2>1. PICK w \in Bitcoin : supply' = w.supply /\ balance' = w.balance /\ buckets' = w.buckets
    BY DEF VerifyIssuer
  <2>2. \A c \in Chains \ FineChains : \E k \in Nat : w.supply[c] = Fine * k
    <3> SUFFICES ASSUME NEW c \in Chains \ FineChains
                 PROVE  \E k \in Nat : w.supply[c] = Fine * k
      OBVIOUS
    <3>1. w.supply[c] \in Nat /\ w.supply[c] % Fine = 0 /\ Fine \in Nat \ {0}
      BY BitcoinAssumption, WrappedAssumption
    <3> DEFINE x == w.supply[c]
    <3>2. x = Fine * (x \div Fine)
      BY <3>1
    <3>3. x \div Fine \in Nat
      BY <3>1, SatsRound DEF ToSats
    <3> QED
      BY <3>2, <3>3
  <2>3. WorldTypes'
    BY <2>1, <2>2, BitcoinAssumption DEF WorldTypes, VerifyIssuer, BtcInv, BtcTypes
  <2>4. issuer'.legs \in Seq(Chains) /\ issuer' \in REGISTRY
    BY WrappedAssumption DEF VerifyIssuer
  <2> QED
    BY <2>3, <2>4 DEF BtcInv, BtcTypes, VerifyIssuer
<1>2. legs' = <<>> /\ per' = <<>> /\ skew' \in Nat
  BY DEF BtcInv, BtcTypes, VerifyIssuer
<1>3. ReadsWithin'
  <2>1. LegsRead' = {} /\ AddressesRead' = {} /\ 1 .. Len(per') = {} /\ FineRead' = {}
    BY <1>2 DEF LegsRead, AddressesRead, FineRead
  <2>2. OwedRead' = 0 /\ LiabilityRead' = 0 /\ ReserveRead' = 0 /\ HeldRead' = 0
        /\ Cardinality(FineRead') = 0
    BY <2>1, OverNothing, FS_EmptySet DEF OwedRead, LiabilityRead, ReserveRead, HeldRead
  <2>3. Fine * 0 = 0 /\ (Fine - 1) * 0 = 0 /\ skew' \in Nat
    BY <1>2, WrappedAssumption
  <2> QED
    BY <2>2, <2>3 DEF ReadsWithin
<1> QED
  BY <1>1, <1>3 DEF BtcInv, BtcTypes, VerifyIssuer, CoverageWithinSkew

\* The sums when another leg is read.
LEMMA LegRead ==
  ASSUME BtcTypes, BtcTypes', btcPc = "legs", Len(legs) < Len(issuer.legs),
         NEW q \in Nat \cup {-1}, legs' = Append(legs, q),
         UNCHANGED <<issuer, supply>>
  PROVE  LET c == issuer.legs[Len(legs) + 1]
         IN /\ LiabilityComplete(legs') => LiabilityComplete(legs) /\ q >= 0
            /\ OwedRead' = OwedRead + supply[c] /\ LiabilityRead' = LiabilityRead + q
            /\ Cardinality(FineRead') = Cardinality(FineRead) + (IF c \in FineChains THEN 1 ELSE 0)
<1> DEFINE n == Len(legs) + 1
           c == issuer.legs[n]
<1>1. legs \in Seq(Nat \cup {-1}) /\ Len(legs) \in Nat
  BY DEF BtcTypes
<1>2. /\ LegsRead' = LegsRead \cup {n} /\ n \notin LegsRead
      /\ legs'[n] = q /\ \A i \in LegsRead : legs'[i] = legs[i]
      /\ DOMAIN legs' = LegsRead' /\ DOMAIN legs = LegsRead
  BY <1>1 DEF LegsRead
<1>3. LiabilityComplete(legs') => LiabilityComplete(legs) /\ q >= 0
  BY <1>2 DEF LiabilityComplete
<1>4. n \in DOMAIN issuer.legs /\ IsFiniteSet(LegsRead) /\ IsFiniteSet(FineRead)
      /\ LegsRead \subseteq DOMAIN issuer.legs
  BY <1>1, SumsAreTyped
<1>5. OwedRead' = OwedRead + supply[c]
  <2>1. LegSupply' = LegSupply /\ LegSupply[n] = supply[c]
    BY <1>4, SumsAreTyped DEF LegSupply
  <2>2. \A i \in 1 .. Len(legs) + 1 : LegSupply[i] \in Int
    BY <1>1, <1>4, SumsAreTyped
  <2>3. Over(LegSupply, 1 .. Len(legs) + 1) = Over(LegSupply, 1 .. Len(legs)) + LegSupply[n]
    BY <1>1, <2>2, OverNext
  <2> QED
    BY <1>1, <2>1, <2>3 DEF OwedRead, LegsRead
<1>6. LiabilityRead' = LiabilityRead + q
  <2>1. \A i \in 1 .. Len(legs) + 1 : legs'[i] \in Int
    BY <1>1 DEF LegsRead
  <2>2. Over(legs', 1 .. Len(legs) + 1) = Over(legs', 1 .. Len(legs)) + legs'[n]
    BY <1>1, <2>1, OverNext
  <2>3. Over(legs', LegsRead) = Over(legs, LegsRead)
    BY <1>2, <1>4, OverSame
  <2> QED
    BY <1>1, <1>2, <2>2, <2>3 DEF LiabilityRead, LegsRead
<1>7. Cardinality(FineRead') = Cardinality(FineRead) + (IF c \in FineChains THEN 1 ELSE 0)
  <2>1. n \notin FineRead
    BY <1>2 DEF FineRead
  <2>2. FineRead' = IF c \in FineChains THEN FineRead \cup {n} ELSE FineRead
    BY <1>2 DEF FineRead
  <2>3. Cardinality(FineRead \cup {n}) = Cardinality(FineRead) + 1 /\ Cardinality(FineRead) \in Nat
    BY <1>4, <2>1, FS_AddElement, FS_CardinalityType
  <2> HIDE DEF n, c
  <2> QED
    BY <2>2, <2>3
<1> QED
  BY <1>3, <1>5, <1>6, <1>7

LEMMA ReadLegKeeps == BtcInv /\ ReadLeg => BtcInv'
<1> SUFFICES ASSUME BtcInv, ReadLeg PROVE BtcInv'
  OBVIOUS
<1> DEFINE c == issuer.legs[Len(legs) + 1]
<1>1. BtcTypes /\ ReadsWithin /\ btcPc = "legs" /\ Len(legs) < Len(issuer.legs)
  BY DEF BtcInv, ReadLeg
<1>2. UNCHANGED <<btcPc, supply, balance, buckets, moves, skew, issuer, addrs, per, blank, row>>
  BY DEF ReadLeg, world
<1>3. WorldTypes /\ WorldTypes'
  BY <1>1, <1>2 DEF BtcTypes, WorldTypes
<1>4. issuer.legs \in Seq(Chains) /\ Len(legs) + 1 \in DOMAIN issuer.legs
  BY <1>1, SumsAreTyped DEF BtcTypes
<1>5. c \in Chains
  BY <1>4
<1> HIDE DEF c
<1>6. supply[c] \in Nat /\ ToSats(supply[c]) \in Nat
  BY <1>3, <1>5, SatsRound DEF WorldTypes
<1>7. PICK q \in Nat \cup {-1} : legs' = Append(legs, q) /\ (q # -1 => q = ToSats(supply[c]))
  BY <1>6 DEF ReadLeg, c
<1>8. BtcTypes'
  <2>1. legs' \in Seq(Nat \cup {-1}) /\ Len(legs') = Len(legs) + 1
    BY <1>1, <1>7 DEF BtcTypes
  <2> QED
    BY <1>1, <1>2, <1>3, <1>4, <2>1 DEF BtcTypes
<1>9. /\ LiabilityComplete(legs') => LiabilityComplete(legs) /\ q >= 0
      /\ OwedRead' = OwedRead + supply[c] /\ LiabilityRead' = LiabilityRead + q
      /\ Cardinality(FineRead') = Cardinality(FineRead) + (IF c \in FineChains THEN 1 ELSE 0)
  BY <1>1, <1>2, <1>7, <1>8, LegRead DEF c
<1>10. ReserveRead' = ReserveRead /\ HeldRead' = HeldRead
  BY <1>2 DEF ReserveRead, HeldRead, AddressesRead
<1>11. q # -1 => /\ Fine * q <= supply[c]
                 /\ supply[c] <= Fine * q + (IF c \in FineChains THEN Fine - 1 ELSE 0)
  <2> SUFFICES ASSUME q # -1
               PROVE  /\ Fine * q <= supply[c]
                      /\ supply[c] <= Fine * q + (IF c \in FineChains THEN Fine - 1 ELSE 0)
    OBVIOUS
  <2>1. q = ToSats(supply[c])
    BY <1>7
  <2>2. CASE c \in FineChains
    BY <1>6, <2>1, <2>2, SatsRound
  <2>3. CASE c \notin FineChains
    <3>1. PICK k \in Nat : supply[c] = Fine * k
      BY <1>3, <1>5, <2>3 DEF WorldTypes
    <3>2. Fine * q = supply[c]
      BY <2>1, <3>1, WholeSats
    <3> QED
      BY <1>6, <2>3, <3>2
  <2> QED
    BY <2>2, <2>3
<1>12. ReadsWithin'
  <2> SUFFICES ASSUME LiabilityComplete(legs')
               PROVE  /\ IsInjective(addrs') =>
                           OwedRead' + Fine * ReserveRead'
                             <= Fine * LiabilityRead' + Fine * HeldRead' + skew'
                                + (Fine - 1) * Cardinality(FineRead')
                      /\ ~blank' => Fine * LiabilityRead' + Fine * HeldRead'
                                      <= OwedRead' + Fine * ReserveRead' + skew'
    BY DEF ReadsWithin
  <2>1. LiabilityComplete(legs) /\ q \in Nat
    BY <1>9
  <2> DEFINE f == IF c \in FineChains THEN 1 ELSE 0
  <2>2. Fine * LiabilityRead' = Fine * LiabilityRead + Fine * q
    BY <1>1, <1>9, <2>1, SumsAreTyped, WrappedAssumption
  <2>3. (Fine - 1) * Cardinality(FineRead')
          = (Fine - 1) * Cardinality(FineRead) + (IF c \in FineChains THEN Fine - 1 ELSE 0)
    BY <1>1, <1>9, SumsAreTyped, WrappedAssumption
  <2>4. /\ Fine * q <= supply[c]
        /\ supply[c] <= Fine * q + (IF c \in FineChains THEN Fine - 1 ELSE 0)
    BY <1>11, <2>1
  <2> DEFINE dust == IF c \in FineChains THEN Fine - 1 ELSE 0
             fq == Fine * q
             liab == Fine * LiabilityRead
             held == Fine * HeldRead
             res == Fine * ReserveRead
             fines == (Fine - 1) * Cardinality(FineRead)
  <2>5. /\ dust \in Int /\ fq \in Int /\ liab \in Int /\ held \in Int /\ res \in Int
        /\ fines \in Int /\ OwedRead \in Int /\ skew \in Int
    <3>1. /\ OwedRead \in Int /\ LiabilityRead \in Int /\ ReserveRead \in Int /\ HeldRead \in Int
          /\ Cardinality(FineRead) \in Nat
      BY <1>1, SumsAreTyped
    <3>2. Fine \in Nat \ {0} /\ Fine - 1 \in Int /\ skew \in Int
      BY <1>3, WrappedAssumption DEF WorldTypes
    <3> QED
      BY <2>1, <3>1, <3>2
  <2>6. /\ IsInjective(addrs) => OwedRead + res <= liab + held + skew + fines
        /\ ~blank => liab + held <= OwedRead + res + skew
    BY <1>1, <2>1 DEF ReadsWithin
  <2>7. /\ Fine * LiabilityRead' = liab + fq /\ Fine * HeldRead' = held
        /\ Fine * ReserveRead' = res /\ (Fine - 1) * Cardinality(FineRead') = fines + dust
        /\ OwedRead' = OwedRead + supply[c] /\ skew' = skew /\ addrs' = addrs
        /\ blank' = blank
    BY <1>2, <1>9, <1>10, <2>2, <2>3
  <2>8. fq <= supply[c] /\ supply[c] <= fq + dust
    BY <2>4
  <2> HIDE DEF dust, fq, liab, held, res, fines, f
  <2> QED
    BY <1>6, <2>5, <2>6, <2>7, <2>8
<1> QED
  BY <1>1, <1>2, <1>8, <1>12 DEF BtcInv, BtcTypes, CoverageWithinSkew

-----------------------------------------------------------------------------
\* What a row says once it is made: nothing, or what the sums have become.
LEMMA NoReserveSaysNothing ==
  ASSUME NEW permanent
  PROVE  /\ Row(NoReserve(permanent)).verdict # "GREEN"
         /\ Row(NoReserve(permanent)).cls # "coverage-unconfirmed"
  BY DEF Row, VerdictOf, Verdict, NoReserve

LEMMA RefusedRow ==
  ASSUME NEW permanent, Conclude(NoReserve(permanent))
  PROVE  CoverageWithinSkew'
  BY NoReserveSaysNothing DEF Conclude, CoverageWithinSkew

\* A step that reads nothing and that nothing happens in.
LEMMA SumsStay ==
  ASSUME ReadsWithin, UNCHANGED <<world, issuer, legs, addrs, per, blank>>
  PROVE  ReadsWithin'
  BY DEF world, ReadsWithin, OwedRead, LiabilityRead, ReserveRead, HeldRead, LegSupply, LegsRead,
         AddressesRead, FineRead

\* The addresses are chosen before any is read.
LEMMA AddressesChosen ==
  ASSUME ReadsWithin, UNCHANGED <<world, issuer, legs, per, blank>>, per = <<>>, addrs = <<>>
  PROVE  ReadsWithin'
<1>1. AddressesRead = {} /\ AddressesRead' = {}
  BY DEF AddressesRead
<1>2. HeldRead' = HeldRead
  BY <1>1, OverNothing DEF HeldRead
<1>3. /\ OwedRead' = OwedRead /\ LiabilityRead' = LiabilityRead /\ ReserveRead' = ReserveRead
      /\ Cardinality(FineRead') = Cardinality(FineRead)
      /\ skew' = skew /\ legs' = legs /\ blank' = blank
  BY DEF world, OwedRead, LiabilityRead, ReserveRead, LegSupply, LegsRead, FineRead
<1>4. IsInjective(addrs)
  BY DEF IsInjective
<1> QED
  BY <1>2, <1>3, <1>4 DEF ReadsWithin

LEMMA ChooseReserveKeeps == BtcInv /\ ChooseReserve => BtcInv'
<1> SUFFICES ASSUME BtcInv, ChooseReserve PROVE BtcInv'
  OBVIOUS
<1>1. /\ BtcTypes /\ ReadsWithin /\ btcPc = "legs" /\ per = <<>> /\ addrs = <<>> /\ row = NoRow
      /\ UNCHANGED <<world, issuer, legs, per, blank>> /\ Len(legs) = Len(issuer.legs)
  BY DEF BtcInv, BtcTypes, ChooseReserve
<1>2. ReadsWithin'
  BY <1>1, AddressesChosen
<1>3. WorldTypes' /\ issuer' \in REGISTRY /\ issuer.addrs \in Seq(Addresses)
  BY <1>1, WrappedAssumption DEF BtcTypes, WorldTypes, world
<1>4. CASE \E permanent \in BOOLEAN : Conclude(NoReserve(permanent)) /\ UNCHANGED addrs
  <2>1. CoverageWithinSkew'
    BY <1>4, RefusedRow
  <2>2. BtcTypes'
    BY <1>1, <1>3, <1>4 DEF BtcTypes, Conclude
  <2> QED
    BY <1>2, <2>1, <2>2 DEF BtcInv
<1>5. CASE btcPc' = "derive" /\ UNCHANGED <<addrs, row>>
  BY <1>1, <1>2, <1>3, <1>5 DEF BtcInv, BtcTypes, CoverageWithinSkew
<1>6. CASE btcPc' = "reserve" /\ addrs' = issuer.addrs /\ UNCHANGED row
  BY <1>1, <1>2, <1>3, <1>6 DEF BtcInv, BtcTypes, CoverageWithinSkew
<1> QED
  BY <1>4, <1>5, <1>6 DEF ChooseReserve

LEMMA DeriveKeeps == BtcInv /\ DeriveZbtcColdReserves => BtcInv'
<1> SUFFICES ASSUME BtcInv, DeriveZbtcColdReserves PROVE BtcInv'
  OBVIOUS
<1>1. /\ BtcTypes /\ ReadsWithin /\ btcPc = "derive" /\ per = <<>> /\ addrs = <<>> /\ row = NoRow
      /\ UNCHANGED <<world, issuer, legs, per, blank, row>>
      /\ btcPc' = "reserve" /\ addrs' = buckets
  BY DEF BtcInv, BtcTypes, DeriveZbtcColdReserves
<1>2. ReadsWithin'
  BY <1>1, AddressesChosen
<1>3. WorldTypes /\ WorldTypes'
  BY <1>1 DEF BtcTypes, WorldTypes, world
<1>4. BtcTypes'
  BY <1>1, <1>3 DEF BtcTypes, WorldTypes
<1> QED
  BY <1>1, <1>2, <1>4 DEF BtcInv, CoverageWithinSkew

LEMMA ReserveFailsKeeps == BtcInv /\ ReserveFails => BtcInv'
<1> SUFFICES ASSUME BtcInv, ReserveFails PROVE BtcInv'
  OBVIOUS
<1>1. /\ BtcTypes /\ ReadsWithin /\ btcPc \in {"derive", "reserve"}
      /\ UNCHANGED <<world, issuer, legs, addrs, per, blank>> /\ Conclude(NoReserve(FALSE))
  BY DEF BtcInv, ReserveFails
<1>2. ReadsWithin' /\ CoverageWithinSkew'
  BY <1>1, SumsStay, RefusedRow
<1>3. BtcTypes'
  BY <1>1 DEF BtcTypes, WorldTypes, world, Conclude
<1> QED
  BY <1>2, <1>3 DEF BtcInv

LEMMA ReadAddressKeeps == BtcInv /\ ReadAddress => BtcInv'
<1> SUFFICES ASSUME BtcInv, ReadAddress PROVE BtcInv'
  OBVIOUS
<1> DEFINE n == Len(per) + 1
           a == addrs[n]
<1>0. PICK q : /\ per' = Append(per, q)
               /\ (q = balance[a] /\ blank' = blank) \/ (q = 0 /\ blank' = TRUE)
  BY DEF ReadAddress
<1>1. /\ BtcTypes /\ ReadsWithin /\ btcPc = "reserve" /\ Len(per) < Len(addrs)
      /\ UNCHANGED <<btcPc, supply, balance, buckets, moves, skew, issuer, legs, addrs, row>>
  BY DEF BtcInv, ReadAddress, world
<1>2. WorldTypes /\ WorldTypes'
  BY <1>1 DEF BtcTypes, WorldTypes
<1>3. per \in Seq(Nat) /\ addrs \in Seq(Addresses) /\ Len(per) \in Nat
  BY <1>1 DEF BtcTypes
<1>4. a \in Addresses /\ balance[a] \in Nat
  BY <1>1, <1>2, <1>3 DEF WorldTypes
<1>a. /\ q \in Nat /\ q <= balance[a] /\ blank' \in BOOLEAN
      /\ ~blank' => ~blank /\ q = balance[a]
  <2> HIDE DEF a
  <2>1. q = balance[a] \/ q = 0
    BY <1>0, Zenon
  <2>2. q \in Nat /\ q <= balance[a]
    BY <1>4, <2>1
  <2>3. blank \in BOOLEAN
    BY <1>1 DEF BtcTypes
  <2>4. blank' \in BOOLEAN /\ (~blank' => ~blank /\ q = balance[a])
    <3>1. CASE q = balance[a] /\ blank' = blank
      BY <2>3, <3>1
    <3>2. CASE q = 0 /\ blank' = TRUE
      BY <3>2
    <3> QED
      BY <1>0, <3>1, <3>2, Zenon
  <2> QED
    BY <2>2, <2>4
<1>5. /\ per' \in Seq(Nat) /\ Len(per') = Len(per) + 1 /\ per'[n] = q
      /\ \A j \in 1 .. Len(per) : per'[j] = per[j]
  BY <1>0, <1>3, <1>a
<1>6. BtcTypes'
  BY <1>1, <1>2, <1>5, <1>a DEF BtcTypes
<1>7. ReserveRead' = ReserveRead + q
  <2>1. \A j \in 1 .. Len(per) + 1 : per'[j] \in Int
    BY <1>3, <1>5, <1>a
  <2>2. Over(per', 1 .. Len(per) + 1) = Over(per', 1 .. Len(per)) + per'[n]
    BY <1>3, <2>1, OverNext
  <2>3. Over(per', 1 .. Len(per)) = Over(per, 1 .. Len(per))
    <3>1. IsFiniteSet(1 .. Len(per))
      BY <1>3, FS_Interval
    <3> QED
      BY <1>5, <3>1, OverSame
  <2> QED
    BY <1>5, <2>2, <2>3 DEF ReserveRead
<1>8. AddressesRead' = AddressesRead \cup {a}
  BY <1>1, <1>3, <1>5 DEF AddressesRead
<1>9. IsInjective(addrs) => a \notin AddressesRead
  BY <1>1, <1>3 DEF AddressesRead, IsInjective
<1>10. HeldRead' = IF a \in AddressesRead THEN HeldRead ELSE HeldRead + balance[a]
  <2>1. IsFiniteSet(AddressesRead) /\ AddressesRead \subseteq Addresses
        /\ \A e \in Addresses : balance[e] \in Int
    BY <1>1, SumsAreTyped
  <2> HIDE DEF a
  <2>2. CASE a \in AddressesRead
    BY <1>1, <1>8, <2>2 DEF HeldRead
  <2>3. CASE a \notin AddressesRead
    <3>1. Over(balance, AddressesRead \cup {a}) = Over(balance, AddressesRead) + balance[a]
      BY <1>4, <2>1, <2>3, OverMore
    <3> QED
      BY <1>1, <1>8, <2>3, <3>1 DEF HeldRead
  <2> QED
    BY <2>2, <2>3
<1>11. /\ OwedRead' = OwedRead /\ LiabilityRead' = LiabilityRead
       /\ Cardinality(FineRead') = Cardinality(FineRead)
  BY <1>1 DEF OwedRead, LiabilityRead, LegSupply, LegsRead, FineRead
<1>12. ReadsWithin'
  <2>1. /\ OwedRead \in Int /\ LiabilityRead \in Int /\ ReserveRead \in Int /\ HeldRead \in Int
        /\ Cardinality(FineRead) \in Nat
    BY <1>1, SumsAreTyped
  <2>2. Fine \in Nat \ {0} /\ skew \in Nat
    BY <1>2, WrappedAssumption DEF WorldTypes
  <2> DEFINE b == Fine * balance[a]
             fq == Fine * q
             liab == Fine * LiabilityRead
             held == Fine * HeldRead
             res == Fine * ReserveRead
             fines == (Fine - 1) * Cardinality(FineRead)
  <2>3. /\ b \in Nat /\ liab \in Int /\ held \in Int /\ res \in Int /\ fines \in Int
        /\ fq \in Nat /\ fq <= b /\ (~blank' => ~blank /\ fq = b)
    <3> HIDE DEF a
    <3>1. b \in Nat /\ liab \in Int /\ held \in Int /\ res \in Int /\ fines \in Int
      BY <1>4, <2>1, <2>2
    <3>2. fq \in Nat /\ fq <= b
      BY <1>4, <1>a, <2>2, Scaled
    <3>3. ~blank' => ~blank /\ fq = b
      BY <1>a, Zenon
    <3> QED
      BY <3>1, <3>2, <3>3
  <2>4. /\ Fine * LiabilityRead' = liab /\ Fine * ReserveRead' = res + fq
        /\ Fine * HeldRead' = IF a \in AddressesRead THEN held ELSE held + b
        /\ (Fine - 1) * Cardinality(FineRead') = fines
    <3>1. Fine * (ReserveRead + q) = res + fq /\ Fine * (HeldRead + balance[a]) = held + b
      BY <1>4, <1>a, <2>1, <2>2
    <3> QED
      BY <1>7, <1>10, <1>11, <3>1
  <2>5. LiabilityComplete(legs) =>
          /\ IsInjective(addrs) => OwedRead + res <= liab + held + skew + fines
          /\ ~blank => liab + held <= OwedRead + res + skew
    BY <1>1 DEF ReadsWithin
  <2>6. LiabilityComplete(legs)' = LiabilityComplete(legs) /\ IsInjective(addrs)' = IsInjective(addrs)
        /\ skew' = skew
    BY <1>1
  <2> HIDE DEF a, b, fq, liab, held, res, fines
  <2> QED
    BY <1>9, <1>11, <2>1, <2>2, <2>3, <2>4, <2>5, <2>6 DEF ReadsWithin
<1> QED
  BY <1>1, <1>6, <1>12 DEF BtcInv, BtcTypes, CoverageWithinSkew

\* At the end the sums are those of the row.
LEMMA SumReserveKeeps == BtcInv /\ SumReserve => BtcInv'
<1> SUFFICES ASSUME BtcInv, SumReserve PROVE BtcInv'
  OBVIOUS
<1>1. /\ BtcTypes /\ ReadsWithin /\ btcPc = "reserve" /\ Len(per) = Len(addrs)
      /\ UNCHANGED <<world, issuer, legs, addrs, per, blank>> /\ btcPc' = "done"
      /\ row' = Row(Summed(per))
  BY DEF BtcInv, SumReserve, Conclude
<1>2. ReadsWithin'
  BY <1>1, SumsStay
<1>3. BtcTypes'
  BY <1>1 DEF BtcTypes, WorldTypes, world
<1>4. CoverageWithinSkew'
  <2>1. UNCHANGED <<Owed, Held, Dust, addrs, skew, blank>>
    BY <1>1 DEF Owed, Held, Dust, world
  <2>2. /\ legs \in Seq(Nat \cup {-1}) /\ Len(legs) = Len(issuer.legs) /\ addrs \in Seq(Addresses)
        /\ per \in Seq(Nat) /\ WorldTypes
    BY <1>1 DEF BtcTypes
  <2>3. Held = HeldRead
    <3>1. ToSet(addrs) = AddressesRead
      <4>1. DOMAIN addrs = 1 .. Len(per)
        BY <1>1, <2>2
      <4> QED
        BY <4>1, Zenon DEF ToSet, AddressesRead
    <3> QED
      BY <3>1, HeldIsSum DEF HeldRead
  <2>4. ReserveSats(per) = ReserveRead
    BY <2>2, ReserveIsSum DEF ReserveRead
  <2>5. LiabilityComplete(legs) => LiabilitySats(legs) = LiabilityRead
    BY <2>2, LiabilityIsSum DEF LiabilityRead, LegsRead
  <2>6. DOMAIN issuer.legs = LegsRead
    BY <1>1, <2>2, SumsAreTyped DEF LegsRead
  <2>7. Owed = OwedRead
    BY <2>6, OwedIsSum DEF OwedRead
  <2>8. Dust = (Fine - 1) * Cardinality(FineRead)
    BY <2>6 DEF Dust, FineRead
  <2>9. row'.verdict = "GREEN" => LiabilityComplete(legs) /\ LiabilityRead <= ReserveRead
    BY <1>1, <2>4, <2>5 DEF Row, VerdictOf, Verdict, Summed
  <2>10. row'.cls = "coverage-unconfirmed" =>
           LiabilityComplete(legs) /\ ~(ReserveRead >= LiabilityRead)
    BY <1>1, <2>4, <2>5 DEF Row, VerdictOf, Verdict, Summed
  <2>11. /\ OwedRead \in Int /\ LiabilityRead \in Int /\ ReserveRead \in Int /\ HeldRead \in Int
         /\ Cardinality(FineRead) \in Nat
    BY <1>1, SumsAreTyped
  <2>12. Fine \in Nat \ {0} /\ skew \in Nat
    BY <2>2, WrappedAssumption DEF WorldTypes
  <2> DEFINE liab == Fine * LiabilityRead
             held == Fine * HeldRead
             res == Fine * ReserveRead
             fines == (Fine - 1) * Cardinality(FineRead)
  <2>13. liab \in Int /\ held \in Int /\ res \in Int /\ fines \in Int
    BY <2>11, <2>12
  <2>14. LiabilityRead <= ReserveRead => liab <= res
    BY <2>11, <2>12, Scaled
  <2>15. ~(ReserveRead >= LiabilityRead) => res + Fine <= liab
    <3> SUFFICES ASSUME ReserveRead + 1 <= LiabilityRead PROVE res + Fine <= liab
      BY <2>11
    <3>1. Fine * (ReserveRead + 1) <= liab
      BY <2>11, <2>12, Scaled
    <3>2. Fine * (ReserveRead + 1) = res + Fine
      BY <2>11, <2>12
    <3> QED
      BY <3>1, <3>2
  <2>16. LiabilityComplete(legs) =>
          /\ IsInjective(addrs) => OwedRead + res <= liab + held + skew + fines
          /\ ~blank => liab + held <= OwedRead + res + skew
    BY <1>1 DEF ReadsWithin
  <2>17. Fine * Held = held /\ Dust = fines
    BY <2>3, <2>8
  <2> HIDE DEF liab, held, res, fines
  <2>18. row'.verdict = "GREEN" /\ IsInjective(addrs) => Owed <= Fine * Held + skew + Dust
    BY <2>7, <2>9, <2>11, <2>12, <2>13, <2>14, <2>16, <2>17
  <2>19. row'.cls = "coverage-unconfirmed" /\ ~blank => Fine * Held < Owed + skew
    BY <2>7, <2>10, <2>11, <2>12, <2>13, <2>15, <2>16, <2>17
  <2> QED
    BY <2>1, <2>18, <2>19 DEF CoverageWithinSkew
<1> QED
  BY <1>2, <1>3, <1>4 DEF BtcInv

-----------------------------------------------------------------------------
(* What happens on the chains meanwhile. *)

\* A mint or a burn on one chain changes one leg at most, by what it adds to the skew.
LEMMA TokenMovesKeeps ==
  ASSUME BtcInv, TokenMoves, btcPc \notin {"start", "done"},
         UNCHANGED <<btcPc, issuer, legs, addrs, per, blank, row>>
  PROVE  WorldTypes' /\ ReadsWithin'
<1>1. PICK c \in Chains, d \in {-1, 1} :
        /\ supply[c] + d * Quantum(c) >= 0
        /\ supply' = [supply EXCEPT ![c] = @ + d * Quantum(c)]
        /\ skew' = skew + Quantum(c)
        /\ UNCHANGED <<balance, buckets>>
  BY DEF TokenMoves
<1> DEFINE step == d * Quantum(c)
<1>2. BtcTypes /\ ReadsWithin /\ WorldTypes
  BY DEF BtcInv, BtcTypes
<1>3. Fine \in Nat \ {0} /\ Quantum(c) \in Nat /\ step \in {-Quantum(c), Quantum(c)}
  BY WrappedAssumption DEF Quantum
<1>4. supply[c] \in Nat /\ supply[c] + step \in Nat
  BY <1>1, <1>2, <1>3 DEF WorldTypes
<1>5. WorldTypes'
  <2>1. supply' \in [Chains -> Nat] /\ skew' \in Nat
    BY <1>1, <1>2, <1>3, <1>4 DEF WorldTypes
  <2>2. ASSUME NEW b \in Chains \ FineChains
        PROVE  \E k \in Nat : supply'[b] = Fine * k
    <3>1. PICK k \in Nat : supply[b] = Fine * k
      BY <1>2 DEF WorldTypes
    <3>2. CASE b # c
      BY <1>1, <1>2, <3>1, <3>2 DEF WorldTypes
    <3>3. CASE b = c
      <4>1. Quantum(c) = Fine
        BY <2>2, <3>3 DEF Quantum
      <4>2. supply'[b] = supply[b] + d * Fine /\ supply[b] + d * Fine >= 0
        BY <1>1, <1>2, <3>3, <4>1 DEF WorldTypes
      <4>3. Fine * (k + d) = Fine * k + d * Fine
        BY <1>3
      <4>4. k + d \in Nat
        <5> SUFFICES ASSUME k = 0, d = -1 PROVE FALSE
          OBVIOUS
        <5>1. Fine * 0 = 0 /\ -1 * Fine < 0
          BY <1>3
        <5> QED
          BY <3>1, <4>2, <5>1, <1>3
      <4> QED
        BY <3>1, <4>2, <4>3, <4>4
    <3> QED
      BY <3>2, <3>3
  <2> QED
    BY <1>1, <1>2, <2>1, <2>2 DEF WorldTypes
<1>6. \E delta \in {0, step} : OwedRead' = OwedRead + delta
  <2>1. /\ IsFiniteSet(LegsRead) /\ LegsRead \subseteq DOMAIN issuer.legs
        /\ \A i \in DOMAIN issuer.legs : LegSupply[i] = supply[issuer.legs[i]] /\ LegSupply[i] \in Int
        /\ IsInjective(issuer.legs) /\ issuer.legs \in Seq(Chains) /\ OwedRead \in Int
    BY <1>2, SumsAreTyped
  <2>2. LegsRead' = LegsRead /\ \A i \in DOMAIN issuer.legs : LegSupply'[i] = supply'[issuer.legs[i]]
    BY DEF LegsRead, LegSupply
  <2>3. \A i \in DOMAIN issuer.legs : LegSupply'[i] \in Int
    BY <1>5, <2>1, <2>2 DEF WorldTypes
  <2>4. \A i \in DOMAIN issuer.legs : issuer.legs[i] # c => LegSupply'[i] = LegSupply[i]
    BY <1>1, <1>2, <2>1, <2>2 DEF WorldTypes
  <2>5. CASE \E i \in LegsRead : issuer.legs[i] = c
    <3>1. PICK i \in LegsRead : issuer.legs[i] = c
      BY <2>5
    <3>2. \A j \in LegsRead \ {i} : LegSupply'[j] = LegSupply[j]
      BY <2>1, <2>4, <3>1 DEF IsInjective
    <3>3. LegSupply[i] = supply[c] /\ LegSupply'[i] = supply[c] + step
      BY <1>1, <1>2, <2>1, <2>2, <3>1 DEF WorldTypes
    <3>4. Over(LegSupply', LegsRead) = Over(LegSupply, LegsRead) - LegSupply[i] + LegSupply'[i]
      <4>1. \A j \in LegsRead : LegSupply[j] \in Int /\ LegSupply'[j] \in Int
        BY <2>1, <2>3
      <4>2. PICK w, x : w = LegSupply /\ x = LegSupply'
        OBVIOUS
      <4>3. /\ \A j \in LegsRead : w[j] \in Int /\ x[j] \in Int
            /\ \A j \in LegsRead \ {i} : x[j] = w[j]
        BY <3>2, <4>1, <4>2
      <4>4. IsFiniteSet(LegsRead) /\ i \in LegsRead
        BY <2>1, <3>1
      <4>5. Over(x, LegsRead) = Over(w, LegsRead) - w[i] + x[i]
        <5>1. PICK D : D = LegsRead
          OBVIOUS
        <5>2. /\ IsFiniteSet(D) /\ i \in D
              /\ \A e \in D : w[e] \in Int /\ x[e] \in Int
              /\ \A e \in D \ {i} : x[e] = w[e]
          BY <4>3, <4>4, <5>1
        <5>3. Over(x, D) = Over(w, D) - w[i] + x[i]
          BY <5>2, OverChanged
        <5> QED
          BY <5>1, <5>3
      <4> QED
        BY <4>2, <4>5
    <3> HIDE DEF step
    <3> QED
      BY <1>3, <1>4, <2>1, <2>2, <3>3, <3>4 DEF OwedRead
  <2>6. CASE ~ \E i \in LegsRead : issuer.legs[i] = c
    <3>1. Over(LegSupply', LegsRead) = Over(LegSupply, LegsRead)
      BY <2>1, <2>4, <2>6, OverSame
    <3> QED
      BY <2>1, <2>2, <3>1 DEF OwedRead
  <2> QED
    BY <2>5, <2>6
<1>7. /\ LiabilityRead' = LiabilityRead /\ ReserveRead' = ReserveRead /\ HeldRead' = HeldRead
      /\ Cardinality(FineRead') = Cardinality(FineRead)
  BY <1>1 DEF LiabilityRead, ReserveRead, HeldRead, LegsRead, AddressesRead, FineRead
<1>8. ReadsWithin'
  <2>1. PICK delta \in {0, step} : OwedRead' = OwedRead + delta
    BY <1>6
  <2>2. /\ OwedRead \in Int /\ LiabilityRead \in Int /\ ReserveRead \in Int /\ HeldRead \in Int
        /\ Cardinality(FineRead) \in Nat
    BY <1>2, SumsAreTyped
  <2>3. skew \in Nat /\ delta \in Int /\ -Quantum(c) <= delta /\ delta <= Quantum(c)
    BY <1>2, <1>3, SMTT(30) DEF WorldTypes
  <2> DEFINE liab == Fine * LiabilityRead
             held == Fine * HeldRead
             res == Fine * ReserveRead
             fines == (Fine - 1) * Cardinality(FineRead)
  <2>4. liab \in Int /\ held \in Int /\ res \in Int /\ fines \in Int
    BY <1>3, <2>2
  <2>5. LiabilityComplete(legs) =>
          /\ IsInjective(addrs) => OwedRead + res <= liab + held + skew + fines
          /\ ~blank => liab + held <= OwedRead + res + skew
    BY <1>2 DEF ReadsWithin
  <2>6. /\ Fine * LiabilityRead' = liab /\ Fine * HeldRead' = held /\ Fine * ReserveRead' = res
        /\ (Fine - 1) * Cardinality(FineRead') = fines /\ skew' = skew + Quantum(c)
        /\ legs' = legs /\ addrs' = addrs /\ blank' = blank
    BY <1>1, <1>7
  <2> HIDE DEF liab, held, res, fines, step
  <2> QED
    BY <1>3, <2>1, <2>2, <2>3, <2>4, <2>5, <2>6 DEF ReadsWithin
<1> QED
  BY <1>5, <1>8

\* Coins that come or go change the balance of one address.
LEMMA CoinMovesKeeps ==
  ASSUME BtcInv, CoinMoves, btcPc \notin {"start", "done"},
         UNCHANGED <<btcPc, issuer, legs, addrs, per, blank, row>>
  PROVE  WorldTypes' /\ ReadsWithin'
<1>1. PICK a \in Addresses, d \in {-1, 1} :
        /\ balance[a] + d >= 0
        /\ balance' = [balance EXCEPT ![a] = @ + d]
        /\ skew' = skew + Fine
        /\ UNCHANGED <<supply, buckets>>
  BY DEF CoinMoves
<1>2. BtcTypes /\ ReadsWithin /\ WorldTypes
  BY DEF BtcInv, BtcTypes
<1>3. Fine \in Nat \ {0}
  BY WrappedAssumption
<1>4. balance[a] \in Nat /\ balance[a] + d \in Nat
  BY <1>1, <1>2 DEF WorldTypes
<1>5. WorldTypes'
  BY <1>1, <1>2, <1>3, <1>4 DEF WorldTypes
<1>6. \E delta \in {0, d} : HeldRead' = HeldRead + delta
  <2>1. /\ IsFiniteSet(AddressesRead) /\ AddressesRead \subseteq Addresses /\ HeldRead \in Int
        /\ \A b \in Addresses : balance[b] \in Int
    BY <1>2, SumsAreTyped
  <2>2. AddressesRead' = AddressesRead
    BY DEF AddressesRead
  <2>3. /\ \A b \in Addresses : balance'[b] \in Int
        /\ \A b \in Addresses \ {a} : balance'[b] = balance[b]
        /\ balance'[a] = balance[a] + d
    BY <1>1, <1>2, <1>5 DEF WorldTypes
  <2>4. CASE a \in AddressesRead
    <3>1. \A b \in AddressesRead : balance[b] \in Int /\ balance'[b] \in Int
      BY <2>1, <2>3
    <3>2. \A b \in AddressesRead \ {a} : balance'[b] = balance[b]
      BY <2>1, <2>3
    <3>3. Over(balance', AddressesRead) = Over(balance, AddressesRead) - balance[a] + balance'[a]
      BY <2>1, <2>4, <3>1, <3>2, OverChanged
    <3> QED
      BY <1>4, <2>1, <2>2, <2>3, <3>3 DEF HeldRead
  <2>5. CASE a \notin AddressesRead
    <3>1. Over(balance', AddressesRead) = Over(balance, AddressesRead)
      BY <2>1, <2>3, <2>5, OverSame
    <3> QED
      BY <2>1, <2>2, <3>1 DEF HeldRead
  <2> QED
    BY <2>4, <2>5
<1>7. /\ LiabilityRead' = LiabilityRead /\ ReserveRead' = ReserveRead /\ OwedRead' = OwedRead
      /\ Cardinality(FineRead') = Cardinality(FineRead)
  BY <1>1 DEF LiabilityRead, ReserveRead, OwedRead, LegSupply, LegsRead, FineRead
<1>8. ReadsWithin'
  <2>1. PICK delta \in {0, d} : HeldRead' = HeldRead + delta
    BY <1>6
  <2>2. /\ OwedRead \in Int /\ LiabilityRead \in Int /\ ReserveRead \in Int /\ HeldRead \in Int
        /\ Cardinality(FineRead) \in Nat
    BY <1>2, SumsAreTyped
  <2>3. skew \in Nat /\ delta \in {-1, 0, 1}
    BY <1>2 DEF WorldTypes
  <2> DEFINE liab == Fine * LiabilityRead
             held == Fine * HeldRead
             res == Fine * ReserveRead
             fines == (Fine - 1) * Cardinality(FineRead)
             step == Fine * delta
  <2>4. /\ liab \in Int /\ held \in Int /\ res \in Int /\ fines \in Int
        /\ step \in Int /\ -Fine <= step /\ step <= Fine
    BY <1>3, <2>2, <2>3
  <2>5. LiabilityComplete(legs) =>
          /\ IsInjective(addrs) => OwedRead + res <= liab + held + skew + fines
          /\ ~blank => liab + held <= OwedRead + res + skew
    BY <1>2 DEF ReadsWithin
  <2>6. Fine * HeldRead' = held + step
    BY <1>3, <2>1, <2>2, <2>3
  <2>7. /\ Fine * LiabilityRead' = liab /\ Fine * ReserveRead' = res
        /\ (Fine - 1) * Cardinality(FineRead') = fines /\ skew' = skew + Fine
        /\ legs' = legs /\ addrs' = addrs /\ OwedRead' = OwedRead /\ blank' = blank
    BY <1>1, <1>7
  <2> HIDE DEF liab, held, res, fines, step
  <2> QED
    BY <1>3, <2>2, <2>3, <2>4, <2>5, <2>6, <2>7 DEF ReadsWithin
<1> QED
  BY <1>5, <1>8

LEMMA WorldMovesKeeps == BtcInv /\ WorldMoves => BtcInv'
<1> SUFFICES ASSUME BtcInv, WorldMoves PROVE BtcInv'
  OBVIOUS
<1>1. /\ BtcTypes /\ ReadsWithin /\ WorldTypes /\ btcPc \notin {"start", "done"}
      /\ UNCHANGED <<btcPc, issuer, legs, addrs, per, blank, row>>
  BY DEF BtcInv, BtcTypes, WorldMoves
<1>2. WorldTypes' /\ ReadsWithin'
  <2>1. CASE TokenMoves
    BY <1>1, <2>1, TokenMovesKeeps
  <2>2. CASE CoinMoves
    BY <1>1, <2>2, CoinMovesKeeps
  <2>3. CASE AddBucket
    <3>1. UNCHANGED <<supply, balance, skew>> /\ buckets' \in Seq(Addresses)
      BY <1>1, <2>3 DEF AddBucket, WorldTypes
    <3>2. WorldTypes'
      BY <1>1, <3>1 DEF WorldTypes
    <3> QED
      BY <1>1, <3>1, <3>2 DEF ReadsWithin, OwedRead, LiabilityRead, ReserveRead, HeldRead,
         LegSupply, LegsRead, AddressesRead, FineRead
  <2> QED
    BY <2>1, <2>2, <2>3 DEF WorldMoves
<1>3. BtcTypes'
  BY <1>1, <1>2 DEF BtcTypes
<1>4. row' = NoRow
  BY <1>1 DEF BtcTypes
<1> QED
  BY <1>2, <1>3, <1>4 DEF BtcInv, CoverageWithinSkew

LEMMA BtcStepKeeps == BtcInv /\ [WrappedNext]_btcVars => BtcInv'
<1> SUFFICES ASSUME BtcInv, [WrappedNext]_btcVars PROVE BtcInv'
  OBVIOUS
<1>1. CASE UNCHANGED btcVars
  <2>1. /\ UNCHANGED <<world, issuer, legs, addrs, per, blank>> /\ UNCHANGED <<btcPc, row>>
        /\ UNCHANGED <<supply, balance, buckets, moves, skew>>
    BY <1>1 DEF btcVars, world
  <2>2. ReadsWithin'
    BY <2>1, SumsStay DEF BtcInv
  <2>3. BtcTypes'
    BY <2>1 DEF BtcInv, BtcTypes, WorldTypes
  <2>4. CoverageWithinSkew'
    BY <2>1 DEF BtcInv, CoverageWithinSkew, Owed, Held, Dust
  <2> QED
    BY <2>2, <2>3, <2>4 DEF BtcInv
<1> QED
  BY <1>1, VerifyIssuerKeeps, ReadLegKeeps, ChooseReserveKeeps, DeriveKeeps, ReadAddressKeeps,
     SumReserveKeeps, ReserveFailsKeeps, WorldMovesKeeps DEF WrappedNext

\* A row for wrapped bitcoin is wrong by no more than what moved while it was made and
\* the rounding of its legs, for any issuers, chains, decimals and states of the chains,
\* and however much moves meanwhile (verify-btc.mjs, verifyIssuer).
THEOREM RowsAreWithinSkew == WrappedSpec => []CoverageWithinSkew
<1>1. BtcInv => CoverageWithinSkew
  BY DEF BtcInv
<1> QED
  BY BtcInitHolds, BtcStepKeeps, <1>1, PTL DEF WrappedSpec

-----------------------------------------------------------------------------
(***************************************************************************)
(* Ruptor.  What is stranded is more than was left of the ceiling, and the *)
(* ceiling is a size that found no route: less could be sold when it was   *)
(* probed.  Shortfalls grow with the gap, so a clamp does no harm and one  *)
(* gap parts those that break the book from those that do not.             *)
(***************************************************************************)

\* The lesser and the greater of two.
LEMMA Pairs ==
  ASSUME NEW x \in Int, NEW y \in Int
  PROVE  /\ Min({x, y}) = IF x <= y THEN x ELSE y
         /\ Max({x, y}) = IF x <= y THEN y ELSE x
  BY DEF Min, Max

\* Products, which the provers do not look into.
LEMMA ProductKeepsOrder ==
  ASSUME NEW a \in Nat, NEW x \in Int, NEW y \in Int, x <= y
  PROVE  a * x <= a * y /\ a * x \in Int /\ a * y \in Int
  OBVIOUS

LEMMA ProductIsNat == ASSUME NEW a \in Nat, NEW b \in Nat PROVE a * b \in Nat
  OBVIOUS

\* A greater gap leaves less collateral, so that no position that was liquidated survives,
\* and each falls short by as much or more.
LEMMA ShortfallGrows ==
  ASSUME NEW p \in Positions, NEW g \in 0..Whole, NEW h \in 0..Whole, g <= h
  PROVE  /\ Shortfall(p, g) \in Nat /\ Shortfall(p, h) \in Nat
         /\ Shortfall(p, g) <= Shortfall(p, h)
<1>1. Whole \in Nat /\ Lt \in Nat /\ Fair \in Nat /\ Bonus \in Nat
  BY RuptorAssumption
<1>2. p.qty \in Nat /\ p.debt \in Nat
  BY DEF Positions
<1>3. p.qty * Fair \in Nat
  BY <1>1, <1>2, ProductIsNat
<1>4. CollVal(p, h) \in Int /\ CollVal(p, g) \in Int /\ CollVal(p, h) <= CollVal(p, g)
  <2> DEFINE a == p.qty * Fair
             x == Whole - h
             y == Whole - g
  <2>1. a \in Nat /\ x \in Int /\ y \in Int /\ x <= y
    BY <1>1, <1>3
  <2> HIDE DEF a, x, y
  <2>2. a * x <= a * y /\ a * x \in Int /\ a * y \in Int
    BY <2>1, ProductKeepsOrder
  <2> QED
    BY <2>2 DEF a, x, y, CollVal
<1>5. Lt * CollVal(p, h) <= Lt * CollVal(p, g) /\ Lt * CollVal(p, h) \in Int /\ Lt * CollVal(p, g) \in Int
  <2> DEFINE x == CollVal(p, h)
             y == CollVal(p, g)
  <2> HIDE DEF x, y
  <2> QED
    BY <1>1, <1>4, ProductKeepsOrder DEF x, y
<1>6. p.debt * Whole * Whole \in Int /\ p.debt * (Whole + Bonus) \in Int
  <2>1. p.debt * Whole \in Nat /\ Whole + Bonus \in Nat
    BY <1>1, <1>2, ProductIsNat
  <2> QED
    BY <1>1, <1>2, <2>1, ProductIsNat
<1> DEFINE cg == CollVal(p, g)
           ch == CollVal(p, h)
           lg == Lt * CollVal(p, g)
           lh == Lt * CollVal(p, h)
           d == p.debt * Whole * Whole
           e == p.debt * (Whole + Bonus)
<1>7. /\ Liquidatable(p, g) <=> d >= lg
      /\ Liquidatable(p, h) <=> d >= lh
  BY DEF Liquidatable
<1>8. /\ Shortfall(p, g) = IF Liquidatable(p, g) THEN Max({0, e - cg}) ELSE 0
      /\ Shortfall(p, h) = IF Liquidatable(p, h) THEN Max({0, e - ch}) ELSE 0
  BY DEF Shortfall
<1> HIDE DEF cg, ch, lg, lh, d, e
<1>9. /\ cg \in Int /\ ch \in Int /\ lg \in Int /\ lh \in Int /\ d \in Int /\ e \in Int
      /\ ch <= cg /\ lh <= lg
  BY <1>4, <1>5, <1>6 DEF cg, ch, lg, lh, d, e
<1>10. /\ Max({0, e - cg}) = IF 0 <= e - cg THEN e - cg ELSE 0
       /\ Max({0, e - ch}) = IF 0 <= e - ch THEN e - ch ELSE 0
  <2>1. 0 \in Int /\ e - cg \in Int /\ e - ch \in Int
    BY <1>9
  <2> QED
    BY <2>1, Pairs
<1> QED
  BY <1>7, <1>8, <1>9, <1>10

\* A live book is a sequence of positions.
LEMMA BooksAreRows ==
  ASSUME NEW positions \in Lenders, NEW book \in LiveBooks(positions)
  PROVE  book \in Seq(Positions)
<1> DEFINE live == {p \in positions : ~p.supplyOnly /\ p.qty > 0}
<1>1. live \subseteq Positions /\ IsFiniteSet(live)
  BY LendersAssumption, FS_Subset
<1>2. book \in [1..Cardinality(live) -> live]
  BY DEF LiveBooks, SetToSeqs
<1> HIDE DEF live
<1>3. Cardinality(live) \in Nat
  BY <1>1, FS_CardinalityType
<1>4. book \in [1..Cardinality(live) -> Positions]
  BY <1>1, <1>2
<1> QED
  BY <1>3, <1>4

\* So does the sum of what they fall short by.
LEMMA BadDebtGrows ==
  ASSUME NEW book \in Seq(Positions), NEW g \in 0..Whole, NEW h \in 0..Whole, g <= h
  PROVE  /\ BadDebt(book, g) \in Nat /\ BadDebt(book, h) \in Nat
         /\ BadDebt(book, g) <= BadDebt(book, h)
<1> DEFINE D == DOMAIN book
           w == [i \in D |-> Shortfall(book[i], g)]
           x == [i \in D |-> Shortfall(book[i], h)]
           z == [i \in D |-> 0]
<1>1. IsFiniteSet(D)
  BY FS_Interval
<1>2. \A i \in D : book[i] \in Positions
  OBVIOUS
<1>3. \A i \in D : w[i] \in Nat /\ x[i] \in Nat /\ w[i] <= x[i]
  BY <1>2, ShortfallGrows
<1>4. \A i \in D : z[i] = 0 /\ z[i] \in Int /\ w[i] \in Int /\ x[i] \in Int /\ z[i] <= w[i] /\ w[i] <= x[i]
  BY <1>3
<1>5. DOMAIN w = D /\ DOMAIN x = D
  OBVIOUS
<1>6. BadDebt(book, g) = SumFunction(w) /\ BadDebt(book, h) = SumFunction(x)
  BY DEF BadDebt
<1> HIDE DEF D, w, x, z
<1>7. BadDebt(book, g) = Over(w, D) /\ BadDebt(book, h) = Over(x, D)
  BY <1>5, <1>6, SumIsIter DEF Over
<1>8. Over(w, D) \in Int /\ Over(x, D) \in Int /\ Over(w, D) <= Over(x, D)
  BY <1>1, <1>4, OverGrows
<1>9. Over(z, D) = 0 /\ Over(z, D) <= Over(w, D)
  BY <1>1, <1>4, OverGrows, OverZeros
<1> QED
  BY <1>7, <1>8, <1>9

\* What a position wants to sell is a natural number.
LEMMA SalesAreNat ==
  ASSUME NEW p \in Positions, NEW g \in 0..Whole
  PROVE  SellUSD(p, g) \in Nat
<1>1. Whole \in Nat /\ Cf \in Nat /\ Bonus \in Nat /\ Fair \in Nat /\ Whole - g \in Nat
  BY RuptorAssumption
<1>2. p.qty \in Nat /\ p.debt \in Nat
  BY DEF Positions
<1> DEFINE s == Cf * p.debt * (Whole + Bonus)
           c == CollVal(p, g) * Whole
<1>3. s \in Nat
  <2>1. Cf * p.debt \in Nat /\ Whole + Bonus \in Nat
    BY <1>1, <1>2, ProductIsNat
  <2> QED
    BY <2>1, ProductIsNat
<1>4. c \in Nat
  <2>1. p.qty * Fair \in Nat
    BY <1>1, <1>2, ProductIsNat
  <2>2. CollVal(p, g) \in Nat
    BY <1>1, <2>1, ProductIsNat DEF CollVal
  <2> QED
    BY <1>1, <2>2, ProductIsNat
<1>5. SellUSD(p, g) = IF Liquidatable(p, g) THEN Min({s, c}) ELSE 0
  BY DEF SellUSD
<1> HIDE DEF s, c
<1>6. Min({s, c}) = IF s <= c THEN s ELSE c
  BY <1>3, <1>4, Pairs
<1> QED
  BY <1>3, <1>4, <1>5, <1>6

\* The loop over the book, turn by turn.
LEMMA SoldIsRun ==
  ASSUME NEW book \in Seq(Positions), NEW g \in 0..Whole, NEW budget \in Int
  PROVE  /\ Sold(budget, book, g) \in [0..Len(book) -> Int]
         /\ Sold(budget, book, g)[0] = 0
         /\ \A k \in 1..Len(book) :
              Sold(budget, book, g)[k]
                = IF Sold(budget, book, g)[k-1] + SellUSD(book[k], g) <= budget
                  THEN Sold(budget, book, g)[k-1] + SellUSD(book[k], g)
                  ELSE Sold(budget, book, g)[k-1]
<1> DEFINE n == Len(book)
           After(k, r) == IF r + SellUSD(book[k], g) <= budget THEN r + SellUSD(book[k], g) ELSE r
           turn == [k \in 1..n |-> [r \in Int |-> After(k, r)]]
           Is(f) == f = [k \in 0..n |-> IF k = 0 THEN 0 ELSE After(k, f[k-1])]
<1>1. n \in Nat
  OBVIOUS
<1>2. \A k \in 1..n, r \in Int : After(k, r) \in Int
  BY SalesAreNat
<1>3. turn \in [1..n -> [Int -> Int]]
  BY <1>2
<1>4. PICK f \in [0..n -> Int] : f[0] = 0 /\ \A k \in 1..n : f[k] = turn[k][f[k-1]]
  <2>1. IsLoop(n, Int, 0, turn)
    BY <1>3 DEF IsLoop
  <2>2. \E f : IsRunOf(f, n, Int, 0, turn)
    <3> HIDE DEF turn, n
    <3> QED
      BY <1>1, <2>1, RunExists
  <2> HIDE DEF turn, n
  <2> QED
    BY <2>2 DEF IsRunOf
<1>5. \A k \in 1..n : k - 1 \in 0..n /\ f[k-1] \in Int
  BY <1>1
<1>6. \A k \in 1..n : f[k] = After(k, f[k-1])
  <2> HIDE DEF After
  <2> QED
    BY <1>4, <1>5
<1>7. Is(f)
  <2> HIDE DEF After, turn
  <2>1. \A k \in 0..n : f[k] = IF k = 0 THEN 0 ELSE After(k, f[k-1])
    BY <1>1, <1>4, <1>6
  <2> QED
    BY <2>1
<1> DEFINE sold == CHOOSE h : Is(h)
<1>8. Is(sold)
  <2> HIDE DEF Is
  <2> QED
    BY <1>7, Zenon
<1>9. Sold(budget, book, g) = sold
  BY DEF Sold
<1> HIDE DEF sold, turn
<1>10. sold[0] = 0 /\ \A k \in 1..n : sold[k] = After(k, sold[k-1])
  <2> HIDE DEF After
  <2> QED
    BY <1>1, <1>8
<1>11. sold \in [0..n -> Int]
  <2> DEFINE Typed == {k \in Nat : k <= n => sold[k] \in Int}
  <2>1. 0 \in Typed
    BY <1>10
  <2>2. \A k \in Nat : k \in Typed => k + 1 \in Typed
    <3> SUFFICES ASSUME NEW k \in Nat, k \in Typed, k + 1 <= n
                 PROVE  sold[k + 1] \in Int
      OBVIOUS
    <3>1. k + 1 \in 1..n /\ (k + 1) - 1 = k /\ sold[k] \in Int
      BY <1>1
    <3> HIDE DEF After, Typed
    <3> QED
      BY <1>2, <1>10, <3>1
  <2>3. \A k \in 0..n : sold[k] \in Int
    <3> HIDE DEF Typed
    <3>1. Nat \subseteq Typed
      BY <2>1, <2>2, NatByInduction
    <3> QED
      BY <1>1, <3>1 DEF Typed
  <2> HIDE DEF After
  <2> QED
    BY <1>8, <2>3
<1> QED
  BY <1>9, <1>10, <1>11

\* No position is stranded if the budget has room for all.
LEMMA RoomForAll ==
  ASSUME NEW book \in Seq(Positions), NEW g \in 0..Whole
  PROVE  Stranded(SellDemand(book, g), book, g) = {}
<1> DEFINE n == Len(book)
           w == [i \in 1..n |-> SellUSD(book[i], g)]
           budget == SellDemand(book, g)
           sold == Sold(budget, book, g)
           z == [i \in 1..n |-> 0]
<1>1. n \in Nat /\ DOMAIN book = 1..n /\ DOMAIN w = 1..n
  OBVIOUS
<1>2. \A i \in 1..n : w[i] \in Nat /\ w[i] \in Int /\ w[i] = SellUSD(book[i], g)
  BY SalesAreNat
<1>3. budget = Over(w, 1..n)
  BY <1>1, SumIsIter DEF Over, SellDemand
<1> HIDE DEF w, n, budget
<1>4. \A k \in 0..n : Over(w, 1..k) \in Int
  <2> SUFFICES ASSUME NEW k \in 0..n
               PROVE  Over(w, 1..k) \in Int
    OBVIOUS
  <2>1. IsFiniteSet(1..k) /\ \A i \in 1..k : w[i] \in Int
    BY <1>1, <1>2, FS_Interval
  <2> QED
    BY <2>1, OverIsInt
<1>5. \A k \in 1..n : Over(w, 1..k) = Over(w, 1..k-1) + w[k]
  <2> SUFFICES ASSUME NEW k \in 1..n
               PROVE  Over(w, 1..k) = Over(w, 1..k-1) + w[k]
    OBVIOUS
  <2>1. PICK m \in Nat : k = m + 1
    <3>1. k - 1 \in Nat /\ k = (k - 1) + 1
      BY <1>1
    <3> QED
      BY <3>1
  <2>2. \A i \in 1..m + 1 : w[i] \in Int
    BY <1>1, <1>2, <2>1
  <2>3. Over(w, 1..m + 1) = Over(w, 1..m) + w[m + 1]
    BY <2>2, OverNext
  <2> QED
    BY <2>1, <2>3
\* The sums of the first positions do not exceed the sum of all.
<1>6. \A k \in 0..n : Over(w, 1..k) <= budget
  <2> DEFINE Below == {d \in Nat : d <= n => Over(w, 1..n - d) <= budget}
  <2>1. 0 \in Below
    BY <1>1, <1>3, <1>4
  <2>2. \A d \in Nat : d \in Below => d + 1 \in Below
    <3> SUFFICES ASSUME NEW d \in Nat, d \in Below, d + 1 <= n
                 PROVE  Over(w, 1..n - (d + 1)) <= budget
      OBVIOUS
    <3>1. n - d \in 1..n /\ (n - d) - 1 = n - (d + 1) /\ n - (d + 1) \in 0..n /\ n \in 0..n
      BY <1>1
    <3>2. Over(w, 1..n - d) = Over(w, 1..n - (d + 1)) + w[n - d]
      BY <1>5, <3>1
    <3>3. Over(w, 1..n - d) <= budget
      BY <1>1
    <3> QED
      BY <1>1, <1>2, <1>3, <1>4, <3>1, <3>2, <3>3
  <2>3. \A k \in 0..n : n - k \in Nat /\ n - (n - k) = k /\ n - k <= n
    BY <1>1
  <2> HIDE DEF Below
  <2>4. Nat \subseteq Below
    BY <2>1, <2>2, NatByInduction
  <2> QED
    BY <2>3, <2>4 DEF Below
<1>7. budget \in Int
  BY <1>1, <1>3, <1>4
<1>8. /\ sold \in [0..n -> Int] /\ sold[0] = 0
      /\ \A k \in 1..n : sold[k] = IF sold[k-1] + w[k] <= budget THEN sold[k-1] + w[k] ELSE sold[k-1]
  BY <1>2, <1>7, SoldIsRun DEF n
<1> HIDE DEF sold
\* So each is sold.
<1>9. \A k \in 0..n : sold[k] = Over(w, 1..k)
  <2> DEFINE Same == {k \in Nat : k <= n => sold[k] = Over(w, 1..k)}
  <2>1. 0 \in Same
    <3>1. 1..0 = {}
      OBVIOUS
    <3> QED
      BY <1>8, <3>1, OverNothing
  <2>2. \A k \in Nat : k \in Same => k + 1 \in Same
    <3> SUFFICES ASSUME NEW k \in Nat, k \in Same, k + 1 <= n
                 PROVE  sold[k + 1] = Over(w, 1..k + 1)
      OBVIOUS
    <3>1. k + 1 \in 1..n /\ k + 1 \in 0..n /\ (k + 1) - 1 = k
      BY <1>1
    <3>2. Over(w, 1..k + 1) = Over(w, 1..k) + w[k + 1] /\ Over(w, 1..k + 1) <= budget
      BY <1>5, <1>6, <3>1
    <3>3. sold[k] = Over(w, 1..k)
      BY <1>1
    <3> QED
      BY <1>8, <3>1, <3>2, <3>3
  <2> HIDE DEF Same
  <2>3. Nat \subseteq Same
    BY <2>1, <2>2, NatByInduction
  <2> QED
    BY <1>1, <2>3 DEF Same
<1>10. \A k \in 1..n : ~(sold[k-1] + SellUSD(book[k], g) > budget)
  <2> SUFFICES ASSUME NEW k \in 1..n
               PROVE  ~(sold[k-1] + SellUSD(book[k], g) > budget)
    OBVIOUS
  <2>1. k - 1 \in 0..n /\ k \in 0..n
    BY <1>1
  <2>2. sold[k-1] = Over(w, 1..k-1) /\ Over(w, 1..k) <= budget
    BY <1>6, <1>9, <2>1
  <2>3. Over(w, 1..k) = Over(w, 1..k-1) + w[k]
    BY <1>5
  <2> QED
    BY <1>2, <1>4, <1>7, <2>1, <2>2, <2>3
<1> QED
  BY <1>1, <1>10 DEF Stranded, sold, budget

\* g* is the first gap that breaks the book, and every greater one does.
LEMMA GStarParts ==
  ASSUME NEW book \in Seq(Positions)
  PROVE  \A n \in Grid : BadDebt(book, n) > 0 <=> (GStar(book) # -1 /\ n >= GStar(book))
<1> DEFINE breaking == {n \in Grid : BadDebt(book, n) > 0}
<1>1. \A n \in Grid : n \in 0..Whole /\ n \in Nat
  <2>1. MaxGap \in 0..Whole /\ Whole \in Nat
    BY RuptorAssumption
  <2> QED
    BY <2>1 DEF Grid
<1>2. GStar(book) = IF breaking = {} THEN -1 ELSE Min(breaking)
  BY DEF GStar
<1>3. \A n \in Grid : n \in breaking <=> BadDebt(book, n) > 0
  OBVIOUS
<1>4. breaking \subseteq Grid
  OBVIOUS
<1> HIDE DEF breaking
<1>5. CASE breaking = {}
  BY <1>2, <1>3, <1>5
<1>6. CASE breaking # {}
  <2>1. breaking \subseteq Nat
    BY <1>1, <1>4
  <2>2. \E x \in breaking : \A y \in breaking : x <= y
    BY <1>6, <2>1, SmallestNat
  <2> DEFINE m == Min(breaking)
  <2>3. m \in breaking /\ \A y \in breaking : m <= y
    BY <2>2 DEF Min
  <2>4. GStar(book) = m
    BY <1>2, <1>6
  <2> HIDE DEF m
  <2>5. m \in Grid /\ m \in Nat /\ BadDebt(book, m) > 0
    BY <1>1, <1>3, <1>4, <2>3
  <2>6. m # -1
    BY <2>5
  <2>7. ASSUME NEW n \in Grid
        PROVE  n \in breaking <=> n >= m
    <3>1. n \in breaking => n >= m
      BY <1>1, <2>3, <2>5
    <3>2. ASSUME n >= m
          PROVE  n \in breaking
      <4>1. BadDebt(book, m) <= BadDebt(book, n) /\ BadDebt(book, m) \in Nat /\ BadDebt(book, n) \in Nat
        BY <1>1, <2>5, <3>2, BadDebtGrows
      <4> QED
        BY <1>3, <2>5, <4>1
    <3> QED
      BY <3>1, <3>2
  <2> QED
    BY <1>3, <2>4, <2>6, <2>7
<1> QED
  BY <1>5, <1>6

\* A probe that found no route, and did not fail, was made when less could be sold.
Probes == [usd : Nat, routed : BOOLEAN, failed : BOOLEAN, depth : Nat]
QuotesInv ==
  /\ depth \in Nat /\ quotes \in Seq(Probes)
  /\ \A i \in DOMAIN quotes :
       quotes[i].routed \/ quotes[i].failed \/ quotes[i].depth < quotes[i].usd

\* What measuredBreak reports, whatever was probed.
LEMMA BreakIsRight ==
  ASSUME QuotesInv, NEW book \in Seq(Positions), NEW g \in 0..MaxGap
  PROVE  /\ NoRoutes # {} /\ (\A i \in DOMAIN quotes : ~quotes[i].failed) =>
              \A more \in MeasuredBreak(book, g, FALSE).stranded :
                \E i \in DOMAIN quotes : quotes[i].depth * Whole * Whole < more
         /\ MeasuredBreak(book, g, TRUE).stranded = {}
         /\ MeasuredBreak(book, g, TRUE).badDebt <= MeasuredBreak(book, g, FALSE).badDebt
<1>1. Whole \in Nat \ {0} /\ Band \in 0..Whole /\ g \in 0..Whole
  BY RuptorAssumption
<1>2. ClampedGap(g) \in 0..Whole /\ ClampedGap(g) <= g
  BY <1>1 DEF ClampedGap, SmallerGap
<1>3. MeasuredBreak(book, g, TRUE).stranded = {}
  <2>1. Stranded(SellDemand(book, ClampedGap(g)), book, ClampedGap(g)) = {}
    BY <1>2, RoomForAll
  <2> QED
    BY <2>1 DEF MeasuredBreak
<1>4. MeasuredBreak(book, g, TRUE).badDebt <= MeasuredBreak(book, g, FALSE).badDebt
  <2>1. BadDebt(book, ClampedGap(g)) <= BadDebt(book, g)
    BY <1>1, <1>2, BadDebtGrows
  <2> QED
    BY <2>1 DEF MeasuredBreak
<1>5. ASSUME NoRoutes # {}, \A i \in DOMAIN quotes : ~quotes[i].failed,
             NEW more \in MeasuredBreak(book, g, FALSE).stranded
      PROVE  \E i \in DOMAIN quotes : quotes[i].depth * Whole * Whole < more
  <2> DEFINE m == Min(NoRoutes)
             q == quotes[m]
             budget == q.usd * Whole * Whole
             sold == Sold(budget, book, g)
  <2>1. DOMAIN quotes \subseteq Nat /\ \A i \in DOMAIN quotes : quotes[i] \in Probes
    BY DEF QuotesInv
  <2>2. m \in NoRoutes
    <3>1. NoRoutes \subseteq Nat
      BY <2>1 DEF NoRoutes
    <3>2. \E x \in NoRoutes : \A y \in NoRoutes : x <= y
      BY <1>5, <3>1, SmallestNat
    <3> QED
      BY <3>2 DEF Min
  <2>3. m \in DOMAIN quotes /\ ~q.routed
    BY <2>2 DEF NoRoutes
  <2>4. q.depth < q.usd /\ q.depth \in Nat /\ q.usd \in Nat
    <3>1. q \in Probes /\ ~q.failed
      BY <1>5, <2>1, <2>3
    <3>2. q.routed \/ q.failed \/ q.depth < q.usd
      BY <2>3 DEF QuotesInv
    <3> HIDE DEF q
    <3> QED
      BY <2>3, <3>1, <3>2 DEF Probes
  <2>5. more \in Stranded(budget, book, g)
    <3>1. Ceiling = q.usd
      BY <1>5 DEF Ceiling
    <3> QED
      BY <3>1 DEF MeasuredBreak
  <2>6. q.depth * Whole * Whole < budget /\ q.depth * Whole * Whole \in Int /\ budget \in Int
    <3> DEFINE a == q.depth
               b == q.usd
               v == a * Whole
               w == b * Whole
    <3>1. a \in Nat /\ b \in Nat /\ a + 1 <= b
      BY <2>4
    <3> HIDE DEF a, b
    <3>2. v \in Nat /\ w \in Nat /\ v + Whole <= w
      BY <1>1, <3>1
    <3> HIDE DEF v, w
    <3>3. v * Whole \in Nat /\ w * Whole \in Nat /\ v * Whole < w * Whole
      BY <1>1, <3>2
    <3> QED
      BY <3>3 DEF v, w, a, b
  <2> HIDE DEF budget, q, m
  <2>7. more \in Int /\ more > budget
    <3>1. sold \in [0..Len(book) -> Int]
      BY <1>1, <2>6, SoldIsRun
    <3>2. PICK k \in DOMAIN book : more = sold[k - 1] + SellUSD(book[k], g) /\ more > budget
      BY <2>5 DEF Stranded
    <3> HIDE DEF sold
    <3>3. k - 1 \in 0..Len(book) /\ book[k] \in Positions
      OBVIOUS
    <3>4. sold[k - 1] \in Int /\ SellUSD(book[k], g) \in Nat
      BY <1>1, <3>1, <3>3, SalesAreNat
    <3> QED
      BY <3>2, <3>4
  <2>8. q.depth * Whole * Whole < more
    BY <2>6, <2>7
  <2> QED
    BY <2>3, <2>8 DEF q
<1> QED
  BY <1>3, <1>4, <1>5

\* What ariete.mjs --measured calls stranded had no buyer, a venue that clamps strands
\* nothing and loses no more, and g* parts the gaps (measuredBreak and main's search).
THEOREM StrandedIsStranded == RuptorSpec => []StrandedHadNoBuyer
<1> DEFINE Inv == QuotesInv /\ StrandedHadNoBuyer
<1>1. RuptorInit => Inv
  BY DEF RuptorInit, QuotesInv, StrandedHadNoBuyer
<1>2. Inv /\ [RuptorNext]_ruptorVars => Inv'
  <2> SUFFICES ASSUME QuotesInv, StrandedHadNoBuyer, [RuptorNext]_ruptorVars
               PROVE  QuotesInv' /\ StrandedHadNoBuyer'
    OBVIOUS
  <2>1. CASE DepthMoves
    <3>1. depth' \in Nat /\ quotes' = quotes /\ seizure' = NoSeizure
      BY <2>1, RuptorAssumption DEF DepthMoves
    <3> QED
      BY <3>1 DEF QuotesInv, StrandedHadNoBuyer
  <2>2. CASE Quote
    <3>1. seizure' = NoSeizure /\ depth' = depth
      BY <2>2 DEF Quote
    <3> DEFINE usd == Sizes[Len(quotes) + 1]
    <3>2. usd \in Nat
      <4>1. Sizes \in Seq(Nat) /\ Len(quotes) \in Nat /\ Len(quotes) < Len(Sizes)
        BY <2>2, RuptorAssumption DEF Quote, QuotesInv
      <4> QED
        BY <4>1
    <3>3. PICK q \in Probes : /\ quotes' = Append(quotes, q)
                              /\ q.routed \/ q.failed \/ q.depth < q.usd
      <4> DEFINE told(routed, failed) == [usd |-> usd, routed |-> routed, failed |-> failed, depth |-> depth]
      <4>1. quotes' = Append(quotes, told(usd <= depth, FALSE)) \/ quotes' = Append(quotes, told(FALSE, TRUE))
        BY <2>2 DEF Quote
      <4> HIDE DEF usd
      <4>2. (usd <= depth) \in BOOLEAN /\ depth \in Nat
        BY DEF QuotesInv
      <4>3. CASE quotes' = Append(quotes, told(usd <= depth, FALSE))
        <5>1. told(usd <= depth, FALSE) \in Probes
          BY <3>2, <4>2 DEF Probes
        <5>2. CASE usd <= depth
          <6>1. told(usd <= depth, FALSE).routed
            BY <5>2
          <6> QED
            BY <4>3, <5>1, <6>1
        <5>3. CASE depth < usd
          <6>1. told(usd <= depth, FALSE).depth < told(usd <= depth, FALSE).usd
            BY <5>3
          <6> QED
            BY <4>3, <5>1, <6>1
        <5> QED
          BY <3>2, <4>2, <5>2, <5>3
      <4>4. CASE quotes' = Append(quotes, told(FALSE, TRUE))
        <5>1. told(FALSE, TRUE) \in Probes
          BY <3>2, <4>2 DEF Probes
        <5> QED
          BY <4>4, <5>1
      <4> QED
        BY <4>1, <4>3, <4>4
    <3>4. QuotesInv'
      <4>1. quotes' \in Seq(Probes)
        BY <3>3 DEF QuotesInv
      <4>2. \A i \in DOMAIN quotes' :
             (i \in DOMAIN quotes /\ quotes'[i] = quotes[i]) \/ quotes'[i] = q
        BY <3>3 DEF QuotesInv
      <4> QED
        BY <3>1, <3>3, <4>1, <4>2 DEF QuotesInv
    <3> QED
      BY <3>1, <3>4 DEF StrandedHadNoBuyer
  <2>3. CASE RunAriete
    <3>1. PICK positions \in Lenders, g \in 0..MaxGap : \E book \in LiveBooks(positions) :
            seizure' = [gap |-> g, book |-> book, gStar |-> GStar(book),
                        naive |-> MeasuredBreak(book, g, FALSE),
                        green |-> MeasuredBreak(book, g, TRUE)]
      BY <2>3 DEF RunAriete
    <3>2. PICK book \in LiveBooks(positions) :
            seizure' = [gap |-> g, book |-> book, gStar |-> GStar(book),
                        naive |-> MeasuredBreak(book, g, FALSE),
                        green |-> MeasuredBreak(book, g, TRUE)]
      BY <3>1
    <3>3. quotes' = quotes /\ depth' = depth
      BY <2>3 DEF RunAriete
    <3>4. book \in Seq(Positions)
      BY BooksAreRows
    <3>5. /\ seizure'.book = book /\ seizure'.gStar = GStar(book)
          /\ seizure'.naive = MeasuredBreak(book, g, FALSE)
          /\ seizure'.green = MeasuredBreak(book, g, TRUE)
      BY <3>2
    <3>6. NoRoutes' = NoRoutes
      BY <3>3 DEF NoRoutes
    <3>7. StrandedHadNoBuyer'
      BY <3>3, <3>4, <3>5, <3>6, BreakIsRight, GStarParts DEF StrandedHadNoBuyer
    <3> QED
      BY <3>3, <3>7 DEF QuotesInv
  <2>4. CASE UNCHANGED ruptorVars
    BY <2>4 DEF ruptorVars, QuotesInv, StrandedHadNoBuyer, NoRoutes
  <2> QED
    BY <2>1, <2>2, <2>3, <2>4 DEF RuptorNext
<1>3. Inv => StrandedHadNoBuyer
  OBVIOUS
<1> QED
  BY <1>1, <1>2, <1>3, PTL DEF RuptorSpec

-----------------------------------------------------------------------------
(***************************************************************************)
(* What filter and concatenation leave of an order, which is what the      *)
(* decline of a crawl needs: members of a curve are on file, and no two of *)
(* different moments have changed places.                                  *)
(***************************************************************************)

\* What begins at base and takes a turn where the last value is in A is a run.
LEMMA RunIsTyped ==
  ASSUME NEW n \in Nat, NEW A, NEW base, NEW turn, IsLoop(n, A, base, turn),
         NEW f, DOMAIN f = 0..n, f = [k \in 0..n |-> f[k]], f[0] = base,
         \A k \in 1..n : f[k-1] \in A => f[k] = turn[k][f[k-1]]
  PROVE  IsRunOf(f, n, A, base, turn)
<1> DEFINE Typed == {k \in Nat : k <= n => f[k] \in A}
<1>1. 0 \in Typed
  BY DEF IsLoop
<1>2. \A k \in Nat : k \in Typed => k + 1 \in Typed
  <2> SUFFICES ASSUME NEW k \in Nat, k \in Typed, k + 1 <= n
               PROVE  f[k + 1] \in A
    OBVIOUS
  <2>1. k + 1 \in 1..n /\ (k + 1) - 1 = k /\ f[k] \in A
    OBVIOUS
  <2>2. f[k + 1] = turn[k + 1][f[k]]
    BY <2>1
  <2> QED
    BY <2>1, <2>2 DEF IsLoop
<1> HIDE DEF Typed
<1>3. Nat \subseteq Typed
  BY <1>1, <1>2, NatByInduction
<1>4. \A k \in 0..n : f[k] \in A
  BY <1>3 DEF Typed
<1>5. \A k \in 1..n : k - 1 \in 0..n
  OBVIOUS
<1> QED
  BY <1>4, <1>5 DEF IsRunOf

\* The loop of filter, turn by turn.
IsFilter(f, s, S, T) ==
  /\ f \in [0..Len(s) -> Seq(S)] /\ f[0] = <<>> /\ f[Len(s)] = Filter(s, T)
  /\ \A k \in 1..Len(s) : f[k] = IF s[k] \in T THEN Append(f[k-1], s[k]) ELSE f[k-1]

LEMMA FilterIsRun ==
  ASSUME NEW S, NEW s \in Seq(S), NEW T
  PROVE  \E f : IsFilter(f, s, S, T)
<1> DEFINE n == Len(s)
           A == Seq(S)
           After(k, r) == IF s[k] \in T THEN Append(r, s[k]) ELSE r
           turn == [k \in 1..n |-> [r \in A |-> After(k, r)]]
           Is(f) == f = [k \in 0..n |-> IF k = 0 THEN <<>> ELSE After(k, f[k-1])]
           f == CHOOSE h : Is(h)
<1>1. n \in Nat /\ \A k \in 1..n : s[k] \in S
  OBVIOUS
<1>2. IsLoop(n, A, <<>>, turn)
  <2>1. \A k \in 1..n, r \in A : After(k, r) \in A
    BY <1>1
  <2> HIDE DEF After, A
  <2>2. turn \in [1..n -> [A -> A]]
    BY <2>1
  <2>3. <<>> \in A
    BY DEF A
  <2> QED
    BY <2>2, <2>3 DEF IsLoop
<1> HIDE DEF n, A
<1>3. \A k \in 1..n : \A r \in A : turn[k][r] = After(k, r)
  OBVIOUS
<1> HIDE DEF turn
<1>4. PICK h : IsRunOf(h, n, A, <<>>, turn)
  BY <1>1, <1>2, RunExists
<1>5. Is(h)
  <2> HIDE DEF After
  <2>1. \A k \in 1..n : k - 1 \in 0..n
    BY <1>1
  <2>2. h \in [0..n -> A] /\ h[0] = <<>> /\ \A k \in 1..n : h[k] = turn[k][h[k-1]]
    BY <1>4 DEF IsRunOf
  <2>3. \A k \in 1..n : h[k] = After(k, h[k-1])
    BY <1>3, <2>1, <2>2
  <2>4. \A k \in 0..n : k = 0 \/ k \in 1..n
    BY <1>1
  <2>5. \A k \in 0..n : h[k] = IF k = 0 THEN <<>> ELSE After(k, h[k-1])
    BY <2>2, <2>3, <2>4
  <2> QED
    BY <2>2, <2>5
<1>6. Is(f)
  <2> HIDE DEF Is
  <2> QED
    BY <1>5, Zenon
<1>7. Filter(s, T) = f[n]
  BY DEF Filter, n
<1> HIDE DEF f, After
<1>8. /\ DOMAIN f = 0..n /\ f = [k \in 0..n |-> f[k]] /\ f[0] = <<>>
      /\ \A k \in 1..n : f[k] = After(k, f[k-1])
  <2>1. DOMAIN f = 0..n /\ \A k \in 0..n : f[k] = IF k = 0 THEN <<>> ELSE After(k, f[k-1])
    BY <1>6
  <2>2. f = [k \in 0..n |-> f[k]]
    BY <1>6
  <2>3. 0 \in 0..n /\ \A k \in 1..n : k \in 0..n /\ k # 0
    BY <1>1
  <2> HIDE DEF Is
  <2>4. f[0] = <<>>
    BY <2>1, <2>3
  <2>5. \A k \in 1..n : f[k] = After(k, f[k-1])
    BY <2>1, <2>3
  <2> QED
    BY <2>1, <2>2, <2>4, <2>5
<1>9. \A k \in 1..n : f[k-1] \in A => f[k] = turn[k][f[k-1]]
  BY <1>3, <1>8
<1>10. IsRunOf(f, n, A, <<>>, turn)
  BY <1>1, <1>2, <1>8, <1>9, RunIsTyped
<1> QED
  BY <1>7, <1>8, <1>10 DEF IsRunOf, After, n, A, IsFilter

\* What is kept is in the set, in order, and whole.
KeptFrom(r, s, T, n) ==
  /\ \A k \in 1..Len(r) : r[k] \in T /\ \E p \in 1..n : s[p] = r[k]
  /\ \A k, l \in 1..Len(r) : k <= l => \E p, q \in 1..n : p <= q /\ s[p] = r[k] /\ s[q] = r[l]
  /\ \A p \in 1..n : s[p] \in T => \E k \in 1..Len(r) : r[k] = s[p]

LEMMA NoneIsKept == ASSUME NEW s, NEW T PROVE KeptFrom(<<>>, s, T, 0)
  BY DEF KeptFrom

LEMMA OneMoreSeen ==
  ASSUME NEW S, NEW r \in Seq(S), NEW s, NEW T, NEW n \in Nat, KeptFrom(r, s, T, n),
         s[n + 1] \notin T
  PROVE  KeptFrom(r, s, T, n + 1)
<1>1. \A p \in 1..n : p \in 1..n + 1
  OBVIOUS
<1>2. ASSUME NEW k \in 1..Len(r)
      PROVE  r[k] \in T /\ \E p \in 1..n + 1 : s[p] = r[k]
  BY <1>1 DEF KeptFrom
<1>3. ASSUME NEW k \in 1..Len(r), NEW l \in 1..Len(r), k <= l
      PROVE  \E p, q \in 1..n + 1 : p <= q /\ s[p] = r[k] /\ s[q] = r[l]
  <2>1. PICK p \in 1..n, q \in 1..n : p <= q /\ s[p] = r[k] /\ s[q] = r[l]
    BY <1>3 DEF KeptFrom
  <2> QED
    BY <1>1, <2>1
<1>4. ASSUME NEW p \in 1..n + 1, s[p] \in T
      PROVE  \E k \in 1..Len(r) : r[k] = s[p]
  <2>1. p \in 1..n
    BY <1>4
  <2> QED
    BY <1>4, <2>1 DEF KeptFrom
<1> QED
  BY <1>2, <1>3, <1>4 DEF KeptFrom

LEMMA OneMoreKept ==
  ASSUME NEW S, NEW r \in Seq(S), NEW s \in Seq(S), NEW T, NEW n \in Nat, n + 1 <= Len(s),
         KeptFrom(r, s, T, n), s[n + 1] \in T
  PROVE  KeptFrom(Append(r, s[n + 1]), s, T, n + 1)
<1> DEFINE m == n + 1
           e == s[m]
           t == Append(r, e)
<1>1. m \in 1..m /\ m \in 1..Len(s) /\ 1..n \subseteq 1..m /\ \A p \in 1..m : p <= m
  OBVIOUS
<1>2. e \in S /\ e \in T /\ s[m] = e
  OBVIOUS
<1> HIDE DEF m, e
<1>3. /\ Len(t) = Len(r) + 1 /\ Len(r) \in Nat
      /\ t[Len(r) + 1] = e /\ \A k \in 1..Len(r) : t[k] = r[k]
  BY <1>2
<1> HIDE DEF t
<1>4. \A k \in 1..Len(t) : k \in 1..Len(r) \/ k = Len(r) + 1
  BY <1>3
<1>5. \A k \in 1..Len(r) : r[k] \in T /\ \E p \in 1..m : s[p] = r[k]
  BY <1>1 DEF KeptFrom
<1>6. \A k \in 1..Len(t) : t[k] \in T /\ \E p \in 1..m : s[p] = t[k]
  <2> SUFFICES ASSUME NEW k \in 1..Len(t)
               PROVE  t[k] \in T /\ \E p \in 1..m : s[p] = t[k]
    OBVIOUS
  <2>1. CASE k \in 1..Len(r)
    BY <1>3, <1>5, <2>1
  <2>2. CASE k = Len(r) + 1
    BY <1>1, <1>2, <1>3, <2>2
  <2> QED
    BY <1>4, <2>1, <2>2
<1>7. ASSUME NEW k \in 1..Len(t), NEW l \in 1..Len(t), k <= l
      PROVE  \E p, q \in 1..m : p <= q /\ s[p] = t[k] /\ s[q] = t[l]
  <2>1. CASE l \in 1..Len(r)
    <3>1. k \in 1..Len(r)
      BY <1>3, <1>7, <2>1
    <3>2. PICK p \in 1..n, q \in 1..n : p <= q /\ s[p] = r[k] /\ s[q] = r[l]
      BY <1>7, <2>1, <3>1 DEF KeptFrom
    <3>3. t[k] = r[k] /\ t[l] = r[l] /\ p \in 1..m /\ q \in 1..m
      BY <1>1, <1>3, <2>1, <3>1
    <3> QED
      BY <3>2, <3>3
  <2>2. CASE l = Len(r) + 1
    <3>1. PICK p \in 1..m : s[p] = t[k]
      BY <1>6
    <3>2. s[m] = t[l] /\ p <= m
      BY <1>1, <1>2, <1>3, <2>2
    <3> QED
      BY <1>1, <3>1, <3>2
  <2> QED
    BY <1>4, <2>1, <2>2
<1>8. ASSUME NEW p \in 1..m, s[p] \in T
      PROVE  \E k \in 1..Len(t) : t[k] = s[p]
  <2>1. CASE p \in 1..n
    <3>1. PICK k \in 1..Len(r) : r[k] = s[p]
      BY <1>8, <2>1 DEF KeptFrom
    <3> QED
      BY <1>3, <3>1
  <2>2. CASE p \notin 1..n
    <3>1. p = m /\ Len(r) + 1 \in 1..Len(t)
      BY <1>3, <2>2 DEF m
    <3> QED
      BY <1>2, <1>3, <3>1
  <2> QED
    BY <2>1, <2>2
<1>9. KeptFrom(t, s, T, m)
  BY <1>6, <1>7, <1>8 DEF KeptFrom
<1> QED
  BY <1>9 DEF t, e, m

LEMMA FilterInOrder ==
  ASSUME NEW S, NEW s \in Seq(S), NEW T
  PROVE  Filter(s, T) \in Seq(S) /\ KeptFrom(Filter(s, T), s, T, Len(s))
<1>1. PICK f : IsFilter(f, s, S, T)
  BY FilterIsRun
<1> DEFINE Reach == {n \in Nat : n <= Len(s) => KeptFrom(f[n], s, T, n)}
<1>2. 0 \in Reach
  BY <1>1, NoneIsKept DEF IsFilter
<1>3. \A n \in Nat : n \in Reach => n + 1 \in Reach
  <2> SUFFICES ASSUME NEW n \in Nat, n \in Reach, n + 1 <= Len(s)
               PROVE  KeptFrom(f[n + 1], s, T, n + 1)
    OBVIOUS
  <2>1. n + 1 \in 1..Len(s) /\ (n + 1) - 1 = n /\ n \in 0..Len(s)
    OBVIOUS
  <2>2. f[n + 1] = (IF s[n + 1] \in T THEN Append(f[n], s[n + 1]) ELSE f[n]) /\ f[n] \in Seq(S)
    BY <1>1, <2>1 DEF IsFilter
  <2>3. KeptFrom(f[n], s, T, n)
    OBVIOUS
  <2> HIDE DEF Reach
  <2>4. CASE s[n + 1] \in T
    BY <2>2, <2>3, <2>4, OneMoreKept
  <2>5. CASE s[n + 1] \notin T
    BY <2>2, <2>3, <2>5, OneMoreSeen
  <2> QED
    BY <2>4, <2>5
<1>4. Len(s) \in Reach
  <2> HIDE DEF Reach
  <2> QED
    BY <1>2, <1>3, NatByInduction
<1>5. KeptFrom(f[Len(s)], s, T, Len(s))
  BY <1>4
<1> QED
  BY <1>1, <1>5 DEF IsFilter

\* Sequences put one after another, turn by turn.
IsFlattening(f, ss, S) ==
  /\ f \in [1..Len(ss) -> Seq(S)] /\ f[1] = ss[1] /\ f[Len(ss)] = FlattenSeq(ss)
  /\ \A k \in 2..Len(ss) : f[k] = f[k-1] \o ss[k]

LEMMA FlattenIsRun ==
  ASSUME NEW S, NEW ss \in Seq(Seq(S)), Len(ss) # 0
  PROVE  \E f : IsFlattening(f, ss, S)
<1> DEFINE n == Len(ss)
           A == Seq(S)
           turn == [k \in 1..n |-> [r \in A |-> r \o ss[k]]]
           Is(f) == f = [i \in 1..n |-> IF i = 1 THEN ss[i] ELSE f[i-1] \o ss[i]]
           f == CHOOSE h : Is(h)
<1>1. n \in Nat /\ n >= 1 /\ \A k \in 1..n : ss[k] \in A
  OBVIOUS
<1>2. IsLoop(n, A, <<>>, turn)
  <2>1. \A k \in 1..n : \A r \in A : r \o ss[k] \in A
    BY <1>1
  <2> HIDE DEF A
  <2>2. turn \in [1..n -> [A -> A]]
    BY <2>1
  <2>3. <<>> \in A
    BY DEF A
  <2> QED
    BY <2>2, <2>3 DEF IsLoop
<1>3. <<>> \o ss[1] = ss[1]
  BY <1>1
<1>4. \A k \in 1..n : \A r \in A : turn[k][r] = r \o ss[k]
  <2> HIDE DEF A
  <2> QED
    OBVIOUS
<1> HIDE DEF n, A, turn
<1>5. PICK h : IsRunOf(h, n, A, <<>>, turn)
  BY <1>1, <1>2, RunExists
<1>6. /\ h \in [0..n -> A] /\ h[0] = <<>>
      /\ \A k \in 1..n : h[k] = h[k-1] \o ss[k]
  <2>1. \A k \in 1..n : k - 1 \in 0..n
    BY <1>1
  <2> QED
    BY <1>4, <1>5, <2>1 DEF IsRunOf
<1> DEFINE g == [i \in 1..n |-> h[i]]
<1>7. \A i \in 1..n : g[i] = h[i] /\ g[i] \in A /\ (i # 1 => i - 1 \in 1..n /\ g[i-1] = h[i-1])
  BY <1>1, <1>6
<1>8. \A i \in 1..n : g[i] = IF i = 1 THEN ss[i] ELSE g[i-1] \o ss[i]
  <2> SUFFICES ASSUME NEW i \in 1..n
               PROVE  g[i] = IF i = 1 THEN ss[i] ELSE g[i-1] \o ss[i]
    OBVIOUS
  <2>1. h[i] = h[i-1] \o ss[i]
    BY <1>6
  <2> HIDE DEF g
  <2>2. CASE i = 1
    <3>1. h[1] = <<>> \o ss[1]
      <4>1. 1 - 1 = 0
        OBVIOUS
      <4> QED
        BY <1>6, <2>1, <2>2, <4>1
    <3>2. g[1] = h[1]
      BY <1>7, <2>2, Zenon
    <3>3. g[i] = ss[i]
      BY <1>3, <2>2, <3>1, <3>2, Zenon
    <3> QED
      BY <2>2, <3>3, Zenon
  <2>3. CASE i # 1
    <3>1. g[i-1] = h[i-1] /\ g[i] = h[i]
      BY <1>7, <2>3, Zenon
    <3>2. g[i] = g[i-1] \o ss[i]
      BY <2>1, <3>1, Zenon
    <3> QED
      BY <2>3, <3>2
  <2> QED
    BY <2>2, <2>3
<1>9. Is(g)
  <2>1. g = [i \in 1..n |-> g[i]]
    OBVIOUS
  <2> HIDE DEF g
  <2> QED
    BY <1>8, <2>1
<1>10. Is(f)
  <2> HIDE DEF Is, g
  <2> QED
    BY <1>9, Zenon
<1>11. FlattenSeq(ss) = f[n]
  BY <1>1 DEF FlattenSeq, n
<1> HIDE DEF f, g
<1>12. /\ DOMAIN f = 1..n /\ f = [i \in 1..n |-> f[i]] /\ f[1] = ss[1]
       /\ \A k \in 2..n : f[k] = f[k-1] \o ss[k]
  <2>1. \A i \in 1..n : f[i] = IF i = 1 THEN ss[i] ELSE f[i-1] \o ss[i]
    BY <1>10
  <2>2. DOMAIN f = 1..n /\ f = [i \in 1..n |-> f[i]]
    BY <1>10
  <2>3. 1 \in 1..n /\ \A k \in 2..n : k \in 1..n /\ k # 1
    BY <1>1
  <2> HIDE DEF Is
  <2> QED
    BY <2>1, <2>2, <2>3
<1>13. \A i \in 1..n : f[i] \in A
  <2> DEFINE Typed == {k \in Nat : k + 1 <= n => f[k + 1] \in A}
  <2>1. 0 \in Typed
    <3>1. 0 + 1 = 1 /\ 1 \in 1..n
      BY <1>1
    <3>2. f[1] \in A
      BY <1>1, <1>12, <3>1, Zenon
    <3> QED
      BY <3>1, <3>2
  <2>2. \A k \in Nat : k \in Typed => k + 1 \in Typed
    <3> SUFFICES ASSUME NEW k \in Nat, k \in Typed, k + 2 <= n
                 PROVE  f[k + 2] \in A
      BY <1>1
    <3>1. k + 2 \in 2..n /\ k + 2 \in 1..n /\ (k + 2) - 1 = k + 1 /\ f[k + 1] \in A
      BY <1>1
    <3>2. f[k + 2] = f[k + 1] \o ss[k + 2] /\ ss[k + 2] \in A
      BY <1>1, <1>12, <3>1
    <3> QED
      BY <3>1, <3>2 DEF A
  <2> HIDE DEF Typed
  <2>3. Nat \subseteq Typed
    BY <2>1, <2>2, NatByInduction
  <2>4. \A i \in 1..n : i - 1 \in Nat /\ (i - 1) + 1 = i /\ i <= n
    BY <1>1
  <2> QED
    BY <2>3, <2>4 DEF Typed
<1> QED
  BY <1>11, <1>12, <1>13 DEF IsFlattening, n, A

\* Each member comes from one of the sequences, and they come in their order.
Inside(q) == {q[x] : x \in 1..Len(q)}
FlatFrom(r, ss, n) ==
  /\ \A k \in 1..Len(r) : \E i \in 1..n : r[k] \in Inside(ss[i])
  /\ \A k, l \in 1..Len(r) : k <= l =>
       \E i, j \in 1..n : i <= j /\ r[k] \in Inside(ss[i]) /\ r[l] \in Inside(ss[j])
  /\ \A i \in 1..n : Inside(ss[i]) \subseteq Inside(r)

LEMMA OneMoreFlat ==
  ASSUME NEW S, NEW ss \in Seq(Seq(S)), NEW n \in Nat, n + 1 <= Len(ss),
         NEW r \in Seq(S), FlatFrom(r, ss, n)
  PROVE  FlatFrom(r \o ss[n + 1], ss, n + 1)
<1> DEFINE m == n + 1
           q == ss[m]
           t == r \o q
<1>1. m \in 1..m /\ m \in 1..Len(ss) /\ (\A i \in 1..n : i \in 1..m) /\ \A i \in 1..m : i <= m
  OBVIOUS
<1>2. q \in Seq(S) /\ ss[m] = q
  OBVIOUS
<1> HIDE DEF m, q
<1>3. /\ Len(t) = Len(r) + Len(q) /\ Len(r) \in Nat /\ Len(q) \in Nat
      /\ \A k \in 1..Len(r) : t[k] = r[k]
      /\ \A k \in 1..Len(t) : k \in 1..Len(r) \/ (k - Len(r) \in 1..Len(q) /\ t[k] = q[k - Len(r)])
  BY <1>2
<1> HIDE DEF t
<1>4. \A k \in 1..Len(t) : k \in 1..Len(r) \/ t[k] \in Inside(ss[m])
  BY <1>2, <1>3 DEF Inside
<1>5. ASSUME NEW k \in 1..Len(t)
      PROVE  \E i \in 1..m : t[k] \in Inside(ss[i])
  <2>1. CASE k \in 1..Len(r)
    <3>1. PICK i \in 1..n : r[k] \in Inside(ss[i])
      BY <2>1 DEF FlatFrom
    <3> QED
      BY <1>1, <1>3, <2>1, <3>1
  <2> QED
    BY <1>1, <1>4, <2>1
<1>6. ASSUME NEW k \in 1..Len(t), NEW l \in 1..Len(t), k <= l
      PROVE  \E i, j \in 1..m : i <= j /\ t[k] \in Inside(ss[i]) /\ t[l] \in Inside(ss[j])
  <2>1. CASE l \in 1..Len(r)
    <3>1. k \in 1..Len(r)
      BY <1>3, <1>6, <2>1
    <3>2. PICK i \in 1..n, j \in 1..n : i <= j /\ r[k] \in Inside(ss[i]) /\ r[l] \in Inside(ss[j])
      BY <1>6, <2>1, <3>1 DEF FlatFrom
    <3>3. t[k] = r[k] /\ t[l] = r[l] /\ i \in 1..m /\ j \in 1..m
      BY <1>1, <1>3, <2>1, <3>1
    <3> QED
      BY <3>2, <3>3
  <2>2. CASE l \notin 1..Len(r)
    <3>1. t[l] \in Inside(ss[m])
      BY <1>4, <2>2
    <3>2. PICK i \in 1..m : t[k] \in Inside(ss[i])
      BY <1>5
    <3>3. i <= m /\ m \in 1..m
      BY <1>1
    <3> QED
      BY <3>1, <3>2, <3>3
  <2> QED
    BY <2>1, <2>2
<1>7. ASSUME NEW i \in 1..m
      PROVE  Inside(ss[i]) \subseteq Inside(t)
  <2>1. CASE i \in 1..n
    <3>1. Inside(ss[i]) \subseteq Inside(r)
      BY <2>1 DEF FlatFrom
    <3>2. Inside(r) \subseteq Inside(t)
      BY <1>3 DEF Inside
    <3> QED
      BY <3>1, <3>2
  <2>2. CASE i \notin 1..n
    <3>1. i = m
      BY <2>2 DEF m
    <3>2. \A x \in 1..Len(q) : Len(r) + x \in 1..Len(t) /\ t[Len(r) + x] = q[x]
      BY <1>2 DEF t
    <3> QED
      <4> SUFFICES ASSUME NEW x \in 1..Len(q)
                   PROVE  q[x] \in Inside(t)
        BY <1>2, <3>1 DEF Inside
      <4> DEFINE y == Len(r) + x
      <4>1. y \in 1..Len(t) /\ t[y] = q[x]
        BY <3>2
      <4> HIDE DEF y
      <4> QED
        BY <4>1 DEF Inside
  <2> QED
    BY <2>1, <2>2
<1>8. FlatFrom(t, ss, m)
  BY <1>5, <1>6, <1>7 DEF FlatFrom
<1> QED
  BY <1>8 DEF t, q, m

LEMMA FlatInOrder ==
  ASSUME NEW S, NEW ss \in Seq(Seq(S)), Len(ss) # 0
  PROVE  FlattenSeq(ss) \in Seq(S) /\ FlatFrom(FlattenSeq(ss), ss, Len(ss))
<1>1. PICK f : IsFlattening(f, ss, S)
  BY FlattenIsRun
<1>2. Len(ss) \in Nat /\ Len(ss) >= 1
  OBVIOUS
<1> DEFINE Reach == {n \in Nat : n + 1 <= Len(ss) => FlatFrom(f[n + 1], ss, n + 1)}
<1>3. 0 \in Reach
  <2>1. f[1] = ss[1] /\ 1 \in 1..1 /\ 1 <= 1
    BY <1>1 DEF IsFlattening
  <2>2. \A k \in 1..Len(f[1]) : f[1][k] \in Inside(ss[1])
    BY <2>1 DEF Inside
  <2>4. \A i \in 1..1 : ss[i] = f[1]
    BY <2>1
  <2>3. FlatFrom(f[1], ss, 1)
    BY <2>1, <2>2, <2>4 DEF FlatFrom
  <2> QED
    BY <2>3
<1>4. \A n \in Nat : n \in Reach => n + 1 \in Reach
  <2> SUFFICES ASSUME NEW n \in Nat, n \in Reach, (n + 1) + 1 <= Len(ss)
               PROVE  FlatFrom(f[(n + 1) + 1], ss, (n + 1) + 1)
    OBVIOUS
  <2> DEFINE m == n + 1
  <2>1. m \in Nat /\ m + 1 <= Len(ss) /\ m \in 1..Len(ss) /\ m + 1 \in 2..Len(ss) /\ (m + 1) - 1 = m
    BY <1>2
  <2>2. FlatFrom(f[m], ss, m)
    BY <1>2
  <2> HIDE DEF m
  <2>3. f[m + 1] = f[m] \o ss[m + 1] /\ f[m] \in Seq(S)
    BY <1>1, <2>1 DEF IsFlattening
  <2>4. FlatFrom(f[m] \o ss[m + 1], ss, m + 1)
    BY <2>1, <2>2, <2>3, OneMoreFlat
  <2>5. FlatFrom(f[m + 1], ss, m + 1)
    BY <2>3, <2>4
  <2> QED
    BY <2>5 DEF m
<1>5. FlatFrom(f[Len(ss)], ss, Len(ss))
  <2> HIDE DEF Reach
  <2>1. Nat \subseteq Reach
    BY <1>3, <1>4, NatByInduction
  <2>2. Len(ss) - 1 \in Nat /\ (Len(ss) - 1) + 1 = Len(ss)
    BY <1>2
  <2>3. Len(ss) - 1 \in Reach
    BY <2>1, <2>2
  <2> QED
    BY <1>2, <2>2, <2>3 DEF Reach
<1>6. Len(ss) \in 1..Len(ss)
  BY <1>2
<1> QED
  BY <1>1, <1>5, <1>6 DEF IsFlattening

-----------------------------------------------------------------------------
(* From the vault to the curve: stored, sorted, sampled, served. *)

\* What is stored was served in the order of its times and slots.
StoredInOrder ==
  \A i, j \in VaultWindow :
    i < j => vault[i].time <= vault[j].time /\ vault[i].slot <= vault[j].slot

LEMMA OrderInductive ==
  /\ CrawlInit => StoredInOrder
  /\ CrawlShape /\ StoredInOrder /\ [CrawlNext]_crawlVars => StoredInOrder'
<1>1. CrawlInit => StoredInOrder
  BY DEF CrawlInit, StoredInOrder, VaultWindow
<1> SUFFICES ASSUME CrawlShape, StoredInOrder, [CrawlNext]_crawlVars
             PROVE  StoredInOrder'
  BY <1>1
<1>2. CASE UNCHANGED vault
  BY <1>2 DEF StoredInOrder, VaultWindow, InStore
<1>3. CASE BeginCrawl
  <2>1. vault' \in Vaults
    BY <1>3 DEF BeginCrawl
  <2>2. STOP_BEFORE \in Nat /\ 0 < STOP_BEFORE
    BY CrawlAssumption
  <2>3. \A i \in DOMAIN vault' : vault'[i].time \in Nat
    <3>1. vault' \in Seq(Signatures)
      BY <2>1, VaultsAssumption
    <3>2. \A i \in DOMAIN vault' : vault'[i] \in Signatures
      BY <3>1
    <3> QED
      BY <3>2 DEF Signatures
  <2>4. \A i \in VaultWindow' : i \in DOMAIN vault' /\ vault'[i].time # 0
    BY <2>2, <2>3 DEF VaultWindow, InStore
  <2> QED
    BY <2>1, <2>4, VaultsAssumption DEF StoredInOrder
<1>4. CASE VaultGrows
  <2>1. /\ VaultWindow' = VaultWindow /\ \A i \in 1..Len(vault) : vault'[i] = vault[i]
    BY <1>4, GrowthIsLater
  <2>2. \A i \in VaultWindow : i \in 1..Len(vault)
    BY DEF VaultWindow, CrawlShape
  <2> QED
    BY <2>1, <2>2 DEF StoredInOrder
<1> QED
  BY <1>2, <1>3, <1>4 DEF CrawlNext, crawlVars, FetchPage, AppendSignature, TurnPage, StopCrawl,
     CrawlDies, Resume, SampleCurve

\* Of the same moment, or one before the other.
NotAfter(x, y) == SameMoment(x, y) \/ x <= y

\* The rows are what is on file, in the order it was served in, moment by moment.
LEMMA RowsInOrder ==
  ASSUME CrawlShape, ToSet(file) \subseteq VaultWindow, StoredInOrder, file # <<>>
  PROVE  /\ Rows \in Seq(Nat) /\ Len(Rows) >= 1
         /\ \A k \in 1..Len(Rows) : Rows[k] \in VaultWindow
         /\ \A k, l \in 1..Len(Rows) : k <= l => NotAfter(Rows[k], Rows[l])
<1> DEFINE First(i) == ~\E j \in 1..i - 1 : SameMoment(i, j)
           Of(i) == {k \in DOMAIN vault : SameMoment(i, k)}
           ss == [i \in DOMAIN vault |-> IF ~First(i) THEN <<>> ELSE Filter(file, Of(i))]
<1>1. /\ vault \in Seq(Signatures) /\ file \in Seq(Nat) /\ DOMAIN vault = 1..Len(vault)
      /\ Len(vault) \in Nat /\ DOMAIN file = 1..Len(file) /\ Len(file) \in Nat
  BY DEF CrawlShape
<1>2. ToSet(file) = {file[p] : p \in 1..Len(file)}
  BY <1>1 DEF ToSet
<1>3. \A i \in VaultWindow : i \in 1..Len(vault) /\ InStore(vault[i])
  BY <1>1 DEF VaultWindow
<1>4. \A i \in 1..Len(vault) : vault[i].time \in Nat /\ vault[i].slot \in Nat
  <2>1. \A i \in 1..Len(vault) : vault[i] \in Signatures
    BY <1>1
  <2> QED
    BY <2>1 DEF Signatures
<1>5. Rows = FlattenSeq(ss)
  BY DEF Rows
<1>6. \A i \in 1..Len(vault) : ss[i] = IF ~First(i) THEN <<>> ELSE Filter(file, Of(i))
  BY <1>1
<1>16. \A i \in 1..Len(vault) : ss[i] = <<>> \/ (First(i) /\ ss[i] = Filter(file, Of(i)))
  <2> SUFFICES ASSUME NEW i \in 1..Len(vault)
               PROVE  ss[i] = <<>> \/ (First(i) /\ ss[i] = Filter(file, Of(i)))
    OBVIOUS
  <2> DEFINE no == ~First(i)
             kept == Filter(file, Of(i))
  <2>1. ss[i] = IF no THEN <<>> ELSE kept
    BY <1>6
  <2> HIDE DEF no, kept, ss
  <2>2. ss[i] = <<>> \/ (~no /\ ss[i] = kept)
    BY <2>1
  <2> QED
    BY <2>2 DEF no, kept
<1>7. ss \in Seq(Seq(Nat)) /\ Len(ss) = Len(vault)
  <2>1. \A i \in 1..Len(vault) : Filter(file, Of(i)) \in Seq(Nat)
    <3> HIDE DEF Of
    <3> QED
      BY <1>1, FilterInOrder
  <2>2. \A i \in 1..Len(vault) : ss[i] \in Seq(Nat)
    <3> HIDE DEF ss, First, Of
    <3>1. <<>> \in Seq(Nat)
      OBVIOUS
    <3> QED
      BY <1>16, <2>1, <3>1, Zenon
  <2>3. ss = [i \in 1..Len(vault) |-> ss[i]]
    BY <1>1
  <2> HIDE DEF ss, First, Of
  <2>4. ss \in [1..Len(vault) -> Seq(Nat)]
    BY <2>2, <2>3
  <2> QED
    BY <1>1, <2>4
<1>8. PICK x : x \in VaultWindow /\ x = file[1] /\ 1 \in 1..Len(file)
  <2>1. 1 \in 1..Len(file)
    BY <1>1
  <2> QED
    BY <1>2, <2>1
<1>9. Len(ss) # 0
  BY <1>1, <1>3, <1>7, <1>8
<1>10. \A i \in 1..Len(vault) : \A y \in Inside(ss[i]) :
         First(i) /\ y \in VaultWindow /\ SameMoment(i, y)
  <2> SUFFICES ASSUME NEW i \in 1..Len(vault), NEW y \in Inside(ss[i])
               PROVE  First(i) /\ y \in VaultWindow /\ SameMoment(i, y)
    OBVIOUS
  <2>1. PICK k \in 1..Len(ss[i]) : y = ss[i][k]
    BY DEF Inside
  <2>2. First(i) /\ ss[i] = Filter(file, Of(i))
    <3>1. ss[i] # <<>>
      BY <2>1
    <3> HIDE DEF ss, First, Of
    <3> QED
      BY <1>16, <3>1, Zenon
  <2> DEFINE T == Of(i)
  <2>3. \A z \in T : SameMoment(i, z)
    OBVIOUS
  <2> HIDE DEF First, Of, ss
  <2>4. KeptFrom(Filter(file, T), file, T, Len(file))
    BY <1>1, FilterInOrder
  <2>5. y \in T /\ \E p \in 1..Len(file) : file[p] = y
    BY <2>1, <2>2, <2>4 DEF KeptFrom
  <2>6. y \in ToSet(file)
    BY <1>2, <2>5
  <2> QED
    BY <2>2, <2>3, <2>5, <2>6
<1>11. \E i \in 1..Len(vault) : x \in Inside(ss[i])
  <2> DEFINE Same == {i \in 1..Len(vault) : SameMoment(i, x)}
  <2>1. x \in Same /\ Same \subseteq Nat
    BY <1>3, <1>8 DEF SameMoment
  <2>2. PICK i \in Same : \A j \in Same : i <= j
    BY <2>1, SmallestNat
  <2>3. First(i)
    <3> SUFFICES ASSUME NEW j \in 1..i - 1, SameMoment(i, j)
                 PROVE  FALSE
      OBVIOUS
    <3>1. j \in 1..Len(vault) /\ i \in Nat /\ j < i
      BY <1>1
    <3>2. SameMoment(j, x)
      BY DEF SameMoment
    <3> QED
      BY <2>2, <3>1, <3>2
  <2>4. x \in Of(i)
    BY <1>1, <1>3, <1>8
  <2>5. ss[i] = Filter(file, Of(i))
    BY <1>6, <2>3
  <2> DEFINE T == Of(i)
  <2> HIDE DEF Of, First, ss
  <2>6. KeptFrom(Filter(file, T), file, T, Len(file))
    BY <1>1, FilterInOrder
  <2>7. \E k \in 1..Len(Filter(file, T)) : Filter(file, T)[k] = x
    BY <1>8, <2>4, <2>6 DEF KeptFrom
  <2>8. x \in Inside(ss[i])
    BY <2>5, <2>7 DEF Inside
  <2> QED
    BY <2>8
<1>12. Rows \in Seq(Nat) /\ FlatFrom(Rows, ss, Len(vault))
  <2> HIDE DEF ss
  <2> QED
    BY <1>5, <1>7, <1>9, FlatInOrder
<1>13. \A k \in 1..Len(Rows) : Rows[k] \in VaultWindow
  <2> HIDE DEF ss
  <2> QED
    BY <1>10, <1>12 DEF FlatFrom
<1>14. Len(Rows) >= 1
  <2> HIDE DEF ss
  <2>1. x \in Inside(Rows)
    BY <1>11, <1>12 DEF FlatFrom
  <2>2. Len(Rows) \in Nat /\ \E k \in 1..Len(Rows) : Rows[k] = x
    BY <1>12, <2>1 DEF Inside
  <2> QED
    BY <2>2
<1>15. ASSUME NEW k \in 1..Len(Rows), NEW l \in 1..Len(Rows), k <= l
       PROVE  NotAfter(Rows[k], Rows[l])
  <2> DEFINE y == Rows[k]
             z == Rows[l]
  <2>1. PICK i \in 1..Len(vault), j \in 1..Len(vault) :
          i <= j /\ y \in Inside(ss[i]) /\ z \in Inside(ss[j])
    <3> HIDE DEF ss
    <3> QED
      BY <1>12, <1>15 DEF FlatFrom
  <2>2. /\ First(i) /\ y \in VaultWindow /\ SameMoment(i, y)
        /\ First(j) /\ z \in VaultWindow /\ SameMoment(j, z)
    <3> HIDE DEF ss, First
    <3> QED
      BY <1>10, <2>1
  <2> HIDE DEF y, z, ss
  <2>3. /\ y \in 1..Len(vault) /\ z \in 1..Len(vault) /\ InStore(vault[y]) /\ InStore(vault[z])
    BY <1>3, <2>2
  <2>10. (SameMoment(y, z) => NotAfter(y, z)) /\ (y <= z => NotAfter(y, z))
    <3> HIDE DEF First
    <3> QED
      BY Zenon DEF NotAfter
  <2> DEFINE ti == vault[i].time  si == vault[i].slot  tj == vault[j].time  sj == vault[j].slot
             ty == vault[y].time  sy == vault[y].slot  tz == vault[z].time  sz == vault[z].slot
  <2>8. ti = ty /\ si = sy /\ tj = tz /\ sj = sz
    BY <2>2 DEF SameMoment
  <2>9. /\ ti \in Nat /\ si \in Nat /\ tj \in Nat /\ sj \in Nat
        /\ ty \in Nat /\ sy \in Nat /\ tz \in Nat /\ sz \in Nat
    BY <1>4, <2>3
  <2>4. ASSUME i = j
        PROVE  NotAfter(y, z)
    <3>1. SameMoment(y, z)
      BY <2>4, <2>8 DEF SameMoment
    <3> QED
      BY <2>10, <3>1
  <2>5. ASSUME i < j, z < y
        PROVE  FALSE
    <3>1. tz <= ty /\ sz <= sy
      BY <2>2, <2>5 DEF StoredInOrder
    <3>2. i \in VaultWindow /\ j \in VaultWindow
      BY <1>1, <2>2, <2>3 DEF VaultWindow, InStore, SameMoment
    <3>3. ti <= tj /\ si <= sj
      BY <2>5, <3>2 DEF StoredInOrder
    <3>4. ti = tj /\ si = sj
      <4> HIDE DEF ti, si, tj, sj, ty, sy, tz, sz
      <4> QED
        BY <2>8, <2>9, <3>1, <3>3
    <3>5. SameMoment(j, i) /\ i \in 1..j - 1
      BY <1>1, <2>5, <3>4 DEF SameMoment
    <3> QED
      BY <2>2, <3>5
  <2>6. i = j \/ (i < j /\ z < y) \/ y <= z
    BY <2>1, <2>3
  <2>7. NotAfter(y, z)
    BY <2>4, <2>5, <2>6, <2>10, Zenon
  <2> QED
    BY <2>7 DEF y, z
<1> QED
  BY <1>12, <1>13, <1>14, <1>15

\* Members of r are members of s, in the order they have there.
InOrderOf(r, s) ==
  /\ \A k \in 1..Len(r) : \E p \in 1..Len(s) : s[p] = r[k]
  /\ \A k, l \in 1..Len(r) : k <= l =>
       \E p, q \in 1..Len(s) : p <= q /\ s[p] = r[k] /\ s[q] = r[l]

\* Every stride-th of n begins one of the n, the last included.
LEMMA StridesFit ==
  ASSUME NEW n \in Nat \ {0}, NEW d \in Nat \ {0}
  PROVE  /\ (n + d - 1) \div d \in Nat \ {0}
         /\ \A k \in 1..(n + d - 1) \div d : (k - 1) * d + 1 \in 1..n
         /\ \A k, l \in 1..(n + d - 1) \div d : k <= l => (k - 1) * d + 1 <= (l - 1) * d + 1
<1> DEFINE x == n + d - 1
           c == x \div d
<1>1. x \in Nat /\ x >= d
  OBVIOUS
<1>2. c \in Nat /\ d * c <= x /\ x < d * c + d
  BY <1>1
<1>3. c # 0
  BY <1>1, <1>2
<1> HIDE DEF c, x
<1>4. \A k \in Nat : k * d \in Nat /\ k * d = d * k
  OBVIOUS
<1>5. ASSUME NEW k \in 1..c
      PROVE  (k - 1) * d + 1 \in 1..n
  <2>1. k - 1 \in Nat /\ k - 1 <= c - 1 /\ c - 1 \in Nat
    BY <1>2
  <2>2. d * (k - 1) <= d * (c - 1)
    BY <2>1, ProductKeepsOrder
  <2>3. d * (c - 1) = d * c - d
    BY <1>2
  <2>4. (k - 1) * d \in Nat /\ (k - 1) * d = d * (k - 1)
    BY <2>1, <1>4
  <2> DEFINE a == (k - 1) * d
             b == d * c
  <2>5. a \in Nat /\ b \in Nat /\ a <= b - d /\ b <= n + d - 1
    BY <1>2, <2>2, <2>3, <2>4, ProductIsNat DEF x
  <2> HIDE DEF a, b
  <2>6. a + 1 \in 1..n
    BY <2>5
  <2> QED
    BY <2>6 DEF a
<1>6. ASSUME NEW k \in 1..c, NEW l \in 1..c, k <= l
      PROVE  (k - 1) * d + 1 <= (l - 1) * d + 1
  <2>1. k - 1 \in Nat /\ l - 1 \in Nat /\ k - 1 <= l - 1
    BY <1>2, <1>6
  <2>2. d * (k - 1) <= d * (l - 1)
    BY <2>1, ProductKeepsOrder
  <2> DEFINE a == (k - 1) * d
             b == (l - 1) * d
  <2>3. a \in Nat /\ b \in Nat /\ a <= b
    BY <1>4, <2>1, <2>2
  <2> HIDE DEF a, b
  <2>4. a + 1 <= b + 1
    BY <2>3
  <2> QED
    BY <2>4 DEF a, b
<1> QED
  BY <1>2, <1>3, <1>5, <1>6 DEF c, x

LEMMA SampledInOrder ==
  ASSUME NEW r \in Seq(Nat), Len(r) >= 1
  PROVE  Sampled(r) \in Seq(Nat) /\ InOrderOf(Sampled(r), r)
<1> DEFINE n == Len(r)
           q == n \div SAMPLES
           d == Max({1, q})
           c == (n + d - 1) \div d
           every == [k \in 1..c |-> (k - 1) * d + 1]
           idx == IF every[Len(every)] = n THEN every ELSE Append(every, n)
           out == [k \in DOMAIN idx |-> r[idx[k]]]
<1>1. Sampled(r) = out
  BY DEF Sampled
<1>2. n \in Nat \ {0} /\ \A p \in 1..n : r[p] \in Nat
  OBVIOUS
<1>3. SAMPLES \in Nat \ {0}
  BY CrawlAssumption
<1>4. q \in Int
  <2> HIDE DEF n
  <2> QED
    BY <1>2, <1>3
<1>5. d \in Nat \ {0}
  <2> HIDE DEF q
  <2> DEFINE one == 1
  <2>1. one \in Int
    OBVIOUS
  <2> HIDE DEF one
  <2>2. Max({one, q}) = IF one <= q THEN q ELSE one
    BY <1>4, <2>1, Pairs
  <2>3. d = IF 1 <= q THEN q ELSE 1
    BY <2>2 DEF one
  <2> HIDE DEF d
  <2> QED
    BY <1>4, <2>3
<1> HIDE DEF d, n
<1>6. c \in Nat \ {0} /\ (\A k \in 1..c : (k - 1) * d + 1 \in 1..n)
      /\ \A k, l \in 1..c : k <= l => (k - 1) * d + 1 <= (l - 1) * d + 1
  BY <1>2, <1>5, StridesFit
<1> HIDE DEF c
<1>7. every \in Seq(Nat) /\ Len(every) = c /\ \A k \in 1..c : every[k] = (k - 1) * d + 1
  <2>1. \A k \in 1..c : (k - 1) * d + 1 \in Nat
    BY <1>6
  <2>2. every \in [1..c -> Nat]
    BY <2>1
  <2> QED
    BY <1>6, <2>2
<1>8. (\A k \in 1..c : every[k] \in 1..n) /\ \A k, l \in 1..c : k <= l => every[k] <= every[l]
  BY <1>6, <1>7
<1> HIDE DEF every
<1>9. /\ idx \in Seq(Nat) /\ Len(idx) \in Nat /\ DOMAIN idx = 1..Len(idx)
      /\ \A k \in 1..Len(idx) : idx[k] \in 1..n
      /\ \A k, l \in 1..Len(idx) : k <= l => idx[k] <= idx[l]
  <2>1. CASE every[Len(every)] = n
    <3>1. idx = every
      BY <2>1
    <3> HIDE DEF idx
    <3> QED
      BY <1>6, <1>7, <1>8, <3>1
  <2>2. CASE every[Len(every)] # n
    <3>1. idx = Append(every, n)
      BY <2>2
    <3> HIDE DEF idx
    <3>2. /\ idx \in Seq(Nat) /\ Len(idx) = c + 1 /\ idx[c + 1] = n
          /\ \A k \in 1..c : idx[k] = every[k]
      BY <1>2, <1>7, <3>1
    <3>3. \A k \in 1..Len(idx) : k \in 1..c \/ k = c + 1
      BY <1>6, <3>2
    <3>4. n \in 1..n /\ \A k \in 1..n : k <= n
      BY <1>2
    <3>5. \A k \in 1..Len(idx) : idx[k] \in 1..n
      BY <1>8, <3>2, <3>3, <3>4
    <3>6. ASSUME NEW k \in 1..Len(idx), NEW l \in 1..Len(idx), k <= l
          PROVE  idx[k] <= idx[l]
      <4>1. CASE l = c + 1
        BY <3>2, <3>4, <3>5, <4>1
      <4>2. CASE l \in 1..c
        <5>1. k \in 1..c
          BY <3>6, <4>2, <1>6
        <5> QED
          BY <1>8, <3>2, <3>6, <4>2, <5>1
      <4> QED
        BY <3>3, <4>1, <4>2
    <3> QED
      BY <1>6, <3>2, <3>5, <3>6
  <2> QED
    BY <2>1, <2>2
<1> HIDE DEF idx
<1>10. /\ out \in Seq(Nat) /\ Len(out) = Len(idx)
       /\ \A k \in 1..Len(idx) : out[k] = r[idx[k]]
  <2>1. \A k \in 1..Len(idx) : r[idx[k]] \in Nat
    BY <1>2, <1>9
  <2>2. out \in [1..Len(idx) -> Nat]
    BY <1>9, <2>1
  <2> QED
    BY <1>9, <2>2
<1> HIDE DEF out
<1>11. InOrderOf(out, r)
  <2>1. ASSUME NEW k \in 1..Len(out)
        PROVE  \E p \in 1..Len(r) : r[p] = out[k]
    BY <1>9, <1>10 DEF n
  <2>2. ASSUME NEW k \in 1..Len(out), NEW l \in 1..Len(out), k <= l
        PROVE  \E p, x \in 1..Len(r) : p <= x /\ r[p] = out[k] /\ r[x] = out[l]
    <3>1. idx[k] \in 1..n /\ idx[l] \in 1..n /\ idx[k] <= idx[l]
      BY <1>9, <1>10, <2>2
    <3>2. r[idx[k]] = out[k] /\ r[idx[l]] = out[l]
      BY <1>10
    <3> QED
      BY <3>1, <3>2, Zenon DEF n
  <2> QED
    BY <2>1, <2>2 DEF InOrderOf
<1> QED
  BY <1>1, <1>10, <1>11

\* One of finitely many is the greatest.
LEMMA GreatestOf ==
  ASSUME NEW n \in Nat \ {0}, NEW f, \A k \in 1..n : f[k] \in Nat
  PROVE  \E k \in 1..n : \A l \in 1..n : f[l] <= f[k]
<1> DEFINE Greatest(m) == \E k \in 1..m : \A l \in 1..m : f[l] <= f[k]
           Reach == {m \in Nat : m + 1 <= n => Greatest(m + 1)}
<1>1. 0 \in Reach
  <2>1. \A l \in 1..1 : f[l] <= f[1] /\ 1 \in 1..1
    OBVIOUS
  <2>2. Greatest(1)
    BY <2>1
  <2>3. 0 + 1 = 1
    OBVIOUS
  <2> QED
    BY <2>2, <2>3
<1>2. \A m \in Nat : m \in Reach => m + 1 \in Reach
  <2> SUFFICES ASSUME NEW m \in Nat, m \in Reach, (m + 1) + 1 <= n
               PROVE  Greatest((m + 1) + 1)
    OBVIOUS
  <2> DEFINE j == (m + 1) + 1
  <2>1. PICK k \in 1..m + 1 : \A l \in 1..m + 1 : f[l] <= f[k]
    OBVIOUS
  <2>2. /\ k \in 1..j /\ j \in 1..j /\ f[k] \in Nat /\ f[j] \in Nat
        /\ \A l \in 1..j : (l \in 1..m + 1 \/ l = j) /\ f[l] \in Nat
    OBVIOUS
  <2> HIDE DEF j, Reach
  <2>3. CASE f[j] <= f[k]
    <3>1. \A l \in 1..j : f[l] <= f[k]
      BY <2>1, <2>2, <2>3
    <3> QED
      BY <2>2, <3>1 DEF j
  <2>4. CASE f[k] < f[j]
    <3>1. \A l \in 1..j : f[l] <= f[j]
      BY <2>1, <2>2, <2>4
    <3> QED
      BY <2>2, <3>1 DEF j
  <2> QED
    BY <2>2, <2>3, <2>4
<1> HIDE DEF Reach
<1>3. Nat \subseteq Reach
  BY <1>1, <1>2, NatByInduction
<1>4. n - 1 \in Nat /\ (n - 1) + 1 = n
  OBVIOUS
<1> QED
  BY <1>3, <1>4 DEF Reach

LEMMA ExtremesAreIn ==
  ASSUME NEW s, s \subseteq Nat, s # {}
  PROVE  /\ Min(s) \in s
         /\ (\E x \in s : \A y \in s : y <= x) => Max(s) \in s
<1> DEFINE Least(x) == x \in s /\ \A y \in s : x =< y
           Most(x) == x \in s /\ \A y \in s : x >= y
<1>1. \E x : Least(x)
  BY SmallestNat
<1>2. Min(s) = CHOOSE x : Least(x)
  BY Zenon DEF Min
<1>3. Least(Min(s))
  <2> HIDE DEF Least
  <2> QED
    BY <1>1, <1>2, Zenon
<1>4. ASSUME \E x \in s : \A y \in s : y <= x
      PROVE  Max(s) \in s
  <2>1. \E x : Most(x)
    BY <1>4
  <2>2. Max(s) = CHOOSE x : Most(x)
    BY Zenon DEF Max
  <2>3. Most(Max(s))
    <3> HIDE DEF Most
    <3> QED
      BY <2>1, <2>2, Zenon
  <2> QED
    BY <2>3
<1> QED
  BY <1>3, <1>4

\* The greatest balance is followed by the one the drop is reckoned from, or is it.
LEMMA TroughFollowsPeak ==
  ASSUME NEW b \in Seq(Nat), Len(b) >= 1
  PROVE  \E k, l \in 1..Len(b) : k <= l /\ Max(Range(b)) - PostPeakTrough(b) = b[k] - b[l]
<1> DEFINE n == Len(b)
           top == Max(Range(b))
           at == {k \in DOMAIN b : b[k] = top}
           k == Min(at)
           rest == SubSeq(b, k, n)
           low == Min(Range(rest))
<1>1. n \in Nat \ {0} /\ DOMAIN b = 1..n /\ \A i \in 1..n : b[i] \in Nat
  OBVIOUS
<1>2. Range(b) = {b[i] : i \in 1..n} /\ Range(b) \subseteq Nat /\ Range(b) # {}
  BY <1>1 DEF Range
<1>3. \E x \in Range(b) : \A y \in Range(b) : y <= x
  <2>1. PICK i \in 1..n : \A l \in 1..n : b[l] <= b[i]
    BY <1>1, GreatestOf
  <2> QED
    BY <1>2, <2>1
<1>4. top \in Range(b)
  BY <1>2, <1>3, ExtremesAreIn
<1> HIDE DEF top
<1>5. at \subseteq Nat /\ at # {}
  BY <1>1, <1>2, <1>4
<1>6. k \in 1..n /\ b[k] = top
  <2>1. k \in at
    BY <1>5, ExtremesAreIn
  <2> QED
    BY <1>1, <2>1
<1> HIDE DEF k, n
<1>7. /\ rest \in Seq(Nat) /\ Len(rest) = n - k + 1
      /\ \A i \in 1..n - k + 1 : rest[i] = b[k + i - 1] /\ k + i - 1 \in 1..n /\ k <= k + i - 1
  BY <1>1, <1>6
<1> HIDE DEF rest
<1>8. DOMAIN rest = 1..n - k + 1 /\ n - k + 1 \in Nat \ {0}
  BY <1>1, <1>6, <1>7
<1>9. Range(rest) = {rest[i] : i \in 1..n - k + 1}
  BY <1>8 DEF Range
<1>10. Range(rest) \subseteq Nat /\ Range(rest) # {}
  <2>1. \A i \in 1..n - k + 1 : rest[i] \in Nat
    BY <1>1, <1>7
  <2>2. 1 \in 1..n - k + 1
    BY <1>8
  <2> QED
    BY <1>9, <2>1, <2>2
<1>11. low \in Range(rest)
  BY <1>10, ExtremesAreIn
<1>12. PICK i \in 1..n - k + 1 : low = rest[i]
  BY <1>9, <1>11
<1>13. PICK l \in 1..n : k <= l /\ low = b[l]
  BY <1>7, <1>12
<1>14. PostPeakTrough(b) = low
  BY DEF PostPeakTrough, TroughAfterPeak, PeakIndex, low, rest, k, at, top, n
<1> HIDE DEF low
<1> QED
  BY <1>6, <1>13, <1>14 DEF top, n
\* In the order of some sequence of that sequence's order.
LEMMA InOrderOfThat ==
  ASSUME NEW r, NEW s, NEW t, InOrderOf(r, s), InOrderOf(s, t)
  PROVE  InOrderOf(r, t)
<1>1. ASSUME NEW k \in 1..Len(r)
      PROVE  \E p \in 1..Len(t) : t[p] = r[k]
  BY DEF InOrderOf
<1>2. ASSUME NEW k \in 1..Len(r), NEW l \in 1..Len(r), k <= l
      PROVE  \E p, q \in 1..Len(t) : p <= q /\ t[p] = r[k] /\ t[q] = r[l]
  <2>1. PICK p \in 1..Len(s), q \in 1..Len(s) : p <= q /\ s[p] = r[k] /\ s[q] = r[l]
    BY <1>2 DEF InOrderOf
  <2>2. PICK x \in 1..Len(t), y \in 1..Len(t) : x <= y /\ t[x] = s[p] /\ t[y] = s[q]
    BY <2>1 DEF InOrderOf
  <2> QED
    BY <2>1, <2>2
<1> QED
  BY <1>1, <1>2 DEF InOrderOf

\* A curve is what was served of the rows, sampled: in order, moment by moment.
LEMMA CurveInOrder ==
  ASSUME CrawlShape, ToSet(file) \subseteq VaultWindow, StoredInOrder, file # <<>>,
         NEW served, NEW c, c = Filter(Sampled(Rows), served)
  PROVE  /\ c \in Seq(Nat) /\ \A k \in 1..Len(c) : c[k] \in VaultWindow
         /\ \A k, l \in 1..Len(c) : k <= l => NotAfter(c[k], c[l])
<1>1. /\ Rows \in Seq(Nat) /\ Len(Rows) >= 1
      /\ \A k \in 1..Len(Rows) : Rows[k] \in VaultWindow
      /\ \A k, l \in 1..Len(Rows) : k <= l => NotAfter(Rows[k], Rows[l])
  BY RowsInOrder
<1> DEFINE s == Sampled(Rows)
<1>2. s \in Seq(Nat) /\ InOrderOf(s, Rows)
  BY <1>1, SampledInOrder
<1> HIDE DEF s
<1>3. c \in Seq(Nat) /\ KeptFrom(c, s, served, Len(s))
  BY <1>2, FilterInOrder DEF s
<1>4. InOrderOf(c, s)
  BY <1>3 DEF KeptFrom, InOrderOf
<1>5. InOrderOf(c, Rows)
  BY <1>2, <1>4, InOrderOfThat
<1>6. ASSUME NEW k \in 1..Len(c)
      PROVE  c[k] \in VaultWindow
  BY <1>1, <1>5 DEF InOrderOf
<1>7. ASSUME NEW k \in 1..Len(c), NEW l \in 1..Len(c), k <= l
      PROVE  NotAfter(c[k], c[l])
  <2>1. PICK p \in 1..Len(Rows), q \in 1..Len(Rows) :
          p <= q /\ Rows[p] = c[k] /\ Rows[q] = c[l]
    BY <1>5, <1>7 DEF InOrderOf
  <2>2. NotAfter(Rows[p], Rows[q])
    BY <1>1, <2>1
  <2> QED
    BY <2>1, <2>2
<1> QED
  BY <1>3, <1>6, <1>7

\* A summary is made at the end, and its drop is of the vault as it was.
LEMMA SampleKeeps ==
  ASSUME CrawlShape, CrawlCovers, StoredInOrder, SampleCurve
  PROVE  DeclineIsReal'
<1> SUFFICES ASSUME summary'.curve # <<>> PROVE DeclineIsReal'
  BY DEF DeclineIsReal
<1>1. PICK served \in SUBSET ToSet(file) :
        LET curve == Filter(Sampled(Rows), served)
            bals == Balances(curve)
        IN /\ curve # <<>>
           /\ summary' = [curve |-> curve, peak |-> Max(Range(bals)),
                          drop |-> Max(Range(bals)) - PostPeakTrough(bals)]
  <2>1. summary' # NothingSampled
    BY DEF NothingSampled
  <2> QED
    BY <2>1 DEF SampleCurve
<1> DEFINE c == Filter(Sampled(Rows), served)
           b == Balances(c)
<1>2. vault' = vault /\ file # <<>>
  BY DEF SampleCurve
<1>3. /\ c # <<>> /\ summary'.curve = c
      /\ summary'.drop = Max(Range(b)) - PostPeakTrough(b)
  BY <1>1
<1>4. /\ c \in Seq(Nat) /\ \A k \in 1..Len(c) : c[k] \in VaultWindow
      /\ \A k, l \in 1..Len(c) : k <= l => NotAfter(c[k], c[l])
  BY <1>2, CurveInOrder DEF CrawlCovers
<1>5. b = [k \in DOMAIN c |-> vault[c[k]].bal]
  BY DEF Balances
<1> HIDE DEF c, b
<1>6. Len(c) \in Nat /\ Len(c) >= 1 /\ DOMAIN c = 1..Len(c)
  BY <1>3, <1>4
<1>7. \A i \in VaultWindow : i \in Nat /\ i \in DOMAIN vault /\ vault[i].bal \in Nat
  <2>1. vault \in Seq(Signatures)
    BY DEF CrawlShape
  <2>2. \A i \in DOMAIN vault : vault[i] \in Signatures
    BY <2>1
  <2>3. DOMAIN vault \subseteq Nat
    BY <2>1
  <2> QED
    BY <2>2, <2>3 DEF Signatures, VaultWindow
<1>8. b \in Seq(Nat) /\ Len(b) = Len(c) /\ \A k \in 1..Len(c) : b[k] = vault[c[k]].bal
  <2>1. \A k \in 1..Len(c) : vault[c[k]].bal \in Nat
    BY <1>4, <1>7
  <2>2. b \in [1..Len(c) -> Nat]
    BY <1>5, <1>6, <2>1
  <2> QED
    BY <1>5, <1>6, <2>2
<1>9. PICK k \in 1..Len(c), l \in 1..Len(c) : k <= l /\ summary'.drop = b[k] - b[l]
  BY <1>3, <1>6, <1>8, TroughFollowsPeak
<1>10. SUFFICES ASSUME \A x, y \in DOMAIN c : SameMoment(c[x], c[y]) => c[x] = c[y]
                PROVE  \E i, j \in DOMAIN vault :
                         i <= j /\ vault[i].bal - vault[j].bal = summary'.drop
  BY <1>2, <1>3 DEF DeclineIsReal, SameMoment
<1>11. c[k] <= c[l]
  <2>1. SameMoment(c[k], c[l]) \/ c[k] <= c[l]
    BY <1>4, <1>9 DEF NotAfter
  <2>2. c[k] \in Nat /\ c[l] \in Nat
    BY <1>4, <1>7
  <2> QED
    BY <1>6, <1>10, <2>1, <2>2
<1>12. c[k] \in DOMAIN vault /\ c[l] \in DOMAIN vault
  BY <1>4, <1>7
<1>13. summary'.drop = vault[c[k]].bal - vault[c[l]].bal
  BY <1>8, <1>9
<1> QED
  BY <1>11, <1>12, <1>13

\* Nothing moves once there is a summary.
SummedUp == (summary # NoSummary => crPc = "sampled") /\ DeclineIsReal

\* A decline that curve.mjs reports happened (sampling, the greatest balance and the least
\* one after it), however rows were stored twice, sampled or left out.
THEOREM DeclineHappened == CrawlSpec => []DeclineIsReal
<1>1. CrawlInit => SummedUp
  BY DEF CrawlInit, SummedUp, DeclineIsReal
<1>2. CrawlShape /\ CrawlCovers /\ StoredInOrder /\ SummedUp /\ [CrawlNext]_crawlVars => SummedUp'
  <2> SUFFICES ASSUME CrawlShape, CrawlCovers, StoredInOrder, SummedUp, [CrawlNext]_crawlVars
               PROVE  SummedUp'
    OBVIOUS
  <2>1. CASE SampleCurve
    <3>1. crPc' = "sampled"
      BY <2>1 DEF SampleCurve
    <3> QED
      BY <2>1, <3>1, SampleKeeps DEF SummedUp
  <2>2. CASE UNCHANGED crawlVars
    BY <2>2 DEF SummedUp, DeclineIsReal, SameMoment, crawlVars
  <2>3. CASE CrawlNext /\ ~SampleCurve
    <3>1. summary' = summary /\ crPc # "sampled"
      BY <2>3 DEF CrawlNext, BeginCrawl, FetchPage, AppendSignature, TurnPage, StopCrawl,
         CrawlDies, Resume, VaultGrows
    <3> QED
      BY <3>1 DEF SummedUp, DeclineIsReal
  <2> QED
    BY <2>1, <2>2, <2>3
<1>3. SummedUp => DeclineIsReal
  BY DEF SummedUp
<1> QED
  BY <1>1, <1>2, <1>3, ShapeInductive, CoversInductive, OrderInductive, PTL DEF CrawlSpec

-----------------------------------------------------------------------------
(***************************************************************************)
(* The reconstruction of praeda.  Until the report, what some accounts     *)
(* have in the events, each at some blocks, is what they gained by the     *)
(* transfers fetched so far, in either direction and for all of those at   *)
(* once: for one account at every block that is the E of its row, at the   *)
(* blocks up to one what it had taken by then, and for all accounts what   *)
(* the boundary lost.  Every outflow was fetched before any inflow, so     *)
(* that within a block the sum is never lower than at both its ends: the   *)
(* event from which on it stays is found where the block settles.          *)
(***************************************************************************)

\* What the members of a sequence are worth, one by one and together.
Worth(s, v) == [i \in DOMAIN s |-> v[s[i]]]
Total(s, v) == Over(Worth(s, v), DOMAIN s)
Picked(s, T) == {i \in DOMAIN s : s[i] \in T}

LEMMA WorthIsInt ==
  ASSUME NEW S, NEW s \in Seq(S), NEW v \in [S -> Int]
  PROVE  /\ DOMAIN s = 1..Len(s) /\ Len(s) \in Nat /\ IsFiniteSet(DOMAIN s)
         /\ \A i \in 1..Len(s) : s[i] \in S /\ Worth(s, v)[i] = v[s[i]] /\ Worth(s, v)[i] \in Int
         /\ Total(s, v) \in Int
<1>1. DOMAIN s = 1..Len(s) /\ Len(s) \in Nat
  OBVIOUS
<1>2. IsFiniteSet(DOMAIN s)
  BY <1>1, FS_Interval
<1>3. \A i \in 1..Len(s) : s[i] \in S /\ Worth(s, v)[i] = v[s[i]] /\ Worth(s, v)[i] \in Int
  BY <1>1 DEF Worth
<1>4. Total(s, v) \in Int
  BY <1>1, <1>2, <1>3, OverIsInt DEF Total
<1> QED
  BY <1>1, <1>2, <1>3, <1>4

LEMMA TotalConcat ==
  ASSUME NEW S, NEW s \in Seq(S), NEW t \in Seq(S), NEW v \in [S -> Int]
  PROVE  Total(s \o t, v) = Total(s, v) + Total(t, v)
<1> DEFINE n == Len(s)
           m == Len(t)
           u == s \o t
           W == Worth(u, v)
           A == 1..n
           B == n + 1..n + m
           g == [i \in B |-> i - n]
<1>1. /\ n \in Nat /\ m \in Nat /\ u \in Seq(S) /\ Len(u) = n + m
      /\ \A i \in 1..n : u[i] = s[i]
      /\ \A i \in 1..m : u[n + i] = t[i]
  OBVIOUS
<1>2. /\ DOMAIN u = 1..n + m /\ IsFiniteSet(DOMAIN u)
      /\ \A i \in 1..n + m : W[i] = v[u[i]] /\ W[i] \in Int
  <2> HIDE DEF u, n, m
  <2>1. /\ DOMAIN u = 1..Len(u) /\ IsFiniteSet(DOMAIN u)
        /\ \A i \in 1..Len(u) : W[i] = v[u[i]] /\ W[i] \in Int
    <3>1. u \in Seq(S)
      BY <1>1
    <3> QED
      BY <3>1, WorthIsInt
  <2> HIDE DEF W
  <2> QED
    BY <1>1, <2>1
<1>3. /\ DOMAIN s = A /\ IsFiniteSet(A) /\ Total(s, v) \in Int
      /\ \A i \in A : Worth(s, v)[i] = v[s[i]] /\ Worth(s, v)[i] \in Int
  BY WorthIsInt
<1>4. /\ DOMAIN t = 1..m /\ IsFiniteSet(1..m) /\ Total(t, v) \in Int
      /\ \A i \in 1..m : Worth(t, v)[i] = v[t[i]] /\ Worth(t, v)[i] \in Int
  BY WorthIsInt
<1>5. A \cup B = 1..n + m /\ A \cap B = {} /\ IsFiniteSet(B)
  <2>1. n + 1 \in Int /\ n + m \in Int
    BY <1>1
  <2>2. IsFiniteSet(B)
    BY <2>1, FS_Interval
  <2> QED
    BY <1>1, <2>2
<1>6. Total(u, v) = Over(W, A) + Over(W, B)
  <2> HIDE DEF A, B, W
  <2>1. \A e \in A \cup B : W[e] \in Int
    BY <1>2, <1>5
  <2>2. Over(W, A \cup B) = Over(W, A) + Over(W, B)
    BY <1>3, <1>5, <2>1, OverUnion
  <2>3. Total(u, v) = Over(W, A \cup B)
    BY <1>2, <1>5, Zenon DEF Total, W
  <2> QED
    BY <2>2, <2>3
<1>7. Over(W, A) = Total(s, v)
  <2> HIDE DEF W
  <2>1. \A i \in A : W[i] = Worth(s, v)[i]
    <3> SUFFICES ASSUME NEW i \in A PROVE W[i] = Worth(s, v)[i]
      OBVIOUS
    <3>1. i \in 1..n + m /\ u[i] = s[i]
      BY <1>1
    <3> HIDE DEF u
    <3>2. W[i] = v[u[i]] /\ Worth(s, v)[i] = v[s[i]]
      BY <1>2, <1>3, <3>1, Zenon
    <3> QED
      BY <3>1, <3>2, Zenon
  <2> HIDE DEF A
  <2>2. Over(W, A) = Over(Worth(s, v), A)
    <3>1. PICK D, w, x : D = A /\ w = W /\ x = Worth(s, v)
      OBVIOUS
    <3>2. IsFiniteSet(D) /\ \A e \in D : w[e] = x[e]
      BY <1>3, <2>1, <3>1
    <3>3. Over(w, D) = Over(x, D)
      BY <3>2, OverSame
    <3> QED
      BY <3>1, <3>3
  <2> QED
    BY <1>3, <2>2, Zenon DEF Total
<1>8. Over(W, B) = Total(t, v)
  <2> DEFINE F == 1..m
             x == Worth(t, v)
  <2> HIDE DEF W, x
  <2>1. \A r \in B : g[r] \in F /\ W[r] \in Int /\ x[g[r]] = W[r]
    <3> SUFFICES ASSUME NEW r \in B
                 PROVE  g[r] \in F /\ W[r] \in Int /\ x[g[r]] = W[r]
      OBVIOUS
    <3> DEFINE k == r - n
    <3>1. k \in F /\ r = n + k /\ g[r] = k /\ r \in 1..n + m
      BY <1>1
    <3> HIDE DEF k, g, F
    <3>2. x[k] = v[t[k]] /\ u[r] = t[k]
      BY <1>1, <1>4, <3>1 DEF x, F
    <3>3. W[r] = v[u[r]] /\ W[r] \in Int
      BY <1>2, <3>1
    <3> QED
      BY <3>1, <3>2, <3>3
  <2>2. \A f \in F : \E r \in B : g[r] = f
    <3> SUFFICES ASSUME NEW f \in F
                 PROVE  \E r \in B : g[r] = f
      OBVIOUS
    <3>1. n + f \in B /\ g[n + f] = f
      BY <1>1
    <3> QED
      BY <3>1
  <2>3. \A r, q \in B : g[r] = g[q] => r = q
    BY <1>1
  <2>4. IsFiniteSet(F) /\ DOMAIN t = F
    BY <1>4
  <2> HIDE DEF B, F, g
  <2>6. Renames(g, B, F, W, x)
    BY <2>1, <2>2, <2>3, Zenon DEF Renames
  <2>5. Over(x, F) = Over(W, B)
    BY <1>5, <2>4, <2>6, OverRenamed
  <2> QED
    BY <2>4, <2>5, Zenon DEF Total, x
<1> QED
  BY <1>6, <1>7, <1>8

LEMMA TotalMore ==
  ASSUME NEW S, NEW s \in Seq(S), NEW e \in S, NEW v \in [S -> Int]
  PROVE  Total(Append(s, e), v) = Total(s, v) + v[e]
<1> DEFINE n == Len(s)
           u == Append(s, e)
           W == Worth(u, v)
<1>1. n \in Nat /\ u \in Seq(S) /\ Len(u) = n + 1 /\ u[n + 1] = e /\ \A i \in 1..n : u[i] = s[i]
  OBVIOUS
<1>2. DOMAIN u = 1..n + 1 /\ \A i \in 1..n + 1 : W[i] = v[u[i]] /\ W[i] \in Int
  <2> HIDE DEF u, n
  <2>1. u \in Seq(S)
    BY <1>1
  <2>2. DOMAIN u = 1..Len(u) /\ \A i \in 1..Len(u) : W[i] = v[u[i]] /\ W[i] \in Int
    BY <2>1, WorthIsInt
  <2> HIDE DEF W
  <2> QED
    BY <1>1, <2>2
<1>3. /\ DOMAIN s = 1..n /\ IsFiniteSet(1..n)
      /\ \A i \in 1..n : Worth(s, v)[i] = v[s[i]] /\ Worth(s, v)[i] \in Int
  BY WorthIsInt
<1> HIDE DEF u, n, W
<1>4. Over(W, 1..n + 1) = Over(W, 1..n) + W[n + 1]
  BY <1>1, <1>2, OverNext
<1>5. Over(W, 1..n) = Over(Worth(s, v), 1..n)
  <2>1. \A i \in 1..n : W[i] = Worth(s, v)[i]
    BY <1>1, <1>2, <1>3
  <2> QED
    BY <1>3, <2>1, OverSame
<1>6. W[n + 1] = v[e]
  BY <1>1, <1>2
<1>7. Total(u, v) = Over(W, 1..n + 1) /\ Total(s, v) = Over(Worth(s, v), 1..n)
  BY <1>2, <1>3, Zenon DEF Total, W
<1>8. Total(u, v) = Total(s, v) + v[e]
  BY <1>4, <1>5, <1>6, <1>7
<1> QED
  BY <1>8 DEF u

\* The total of what is filtered.
LEMMA TotalFiltered ==
  ASSUME NEW S, NEW s \in Seq(S), NEW T, NEW v \in [S -> Int]
  PROVE  Total(Filter(s, T), v) = Over(Worth(s, v), Picked(s, T))
<1> DEFINE W == Worth(s, v)
           In(n) == {i \in 1..n : s[i] \in T}
<1>1. PICK f : IsFilter(f, s, S, T)
  BY FilterIsRun
<1>2. /\ DOMAIN s = 1..Len(s) /\ Len(s) \in Nat
      /\ \A i \in 1..Len(s) : s[i] \in S /\ W[i] = v[s[i]] /\ W[i] \in Int
  BY WorthIsInt
<1> HIDE DEF W
<1> DEFINE Reach == {n \in Nat : n <= Len(s) => Total(f[n], v) = Over(W, In(n))}
<1>3. 0 \in Reach
  <2>1. f[0] = <<>> /\ In(0) = {} /\ DOMAIN f[0] = {}
    BY <1>1 DEF IsFilter
  <2> QED
    BY <2>1, OverNothing DEF Total
<1>4. \A n \in Nat : n \in Reach => n + 1 \in Reach
  <2> SUFFICES ASSUME NEW n \in Nat, n \in Reach, n + 1 <= Len(s)
               PROVE  Total(f[n + 1], v) = Over(W, In(n + 1))
    OBVIOUS
  <2>1. n + 1 \in 1..Len(s) /\ (n + 1) - 1 = n /\ n \in 0..Len(s)
    OBVIOUS
  <2>2. /\ f[n] \in Seq(S)
        /\ f[n + 1] = IF s[n + 1] \in T THEN Append(f[n], s[n + 1]) ELSE f[n]
    BY <1>1, <2>1 DEF IsFilter
  <2>3. Total(f[n], v) = Over(W, In(n))
    OBVIOUS
  <2> HIDE DEF Reach
  <2>4. CASE s[n + 1] \in T
    <3> DEFINE A == In(n)
               d == n + 1
    <3>1. In(n + 1) = A \cup {d} /\ d \notin A /\ A \subseteq 1..n
      BY <2>4
    <3>2. IsFiniteSet(A)
      <4>1. IsFiniteSet(1..n) /\ A \in SUBSET (1..n)
        BY <3>1, FS_Interval
      <4> HIDE DEF A
      <4> QED
        BY <4>1, FS_Subset
    <3>3. (\A e \in A \cup {d} : W[e] \in Int) /\ W[d] = v[s[d]] /\ s[d] \in S
      BY <1>2, <2>1, <3>1
    <3>4. f[d] = Append(f[n], s[d])
      BY <2>2, <2>4
    <3> HIDE DEF A, d, In
    <3>5. Over(W, A \cup {d}) = Over(W, A) + W[d]
      <4>1. d \notin A /\ Integral(W, A \cup {d})
        BY <3>1, <3>3 DEF Integral
      <4> QED
        BY <3>2, <4>1, OverAdded
    <3>6. Total(f[d], v) = Total(f[n], v) + v[s[d]]
      BY <2>2, <3>3, <3>4, TotalMore
    <3>7. Over(W, In(n + 1)) = Over(W, A) + W[d]
      BY <3>1, <3>5, Zenon
    <3>8. Total(f[d], v) = Over(W, In(n + 1))
      BY <2>3, <3>3, <3>6, <3>7 DEF A
    <3> QED
      BY <3>8 DEF d
  <2>5. CASE s[n + 1] \notin T
    <3>1. In(n + 1) = In(n)
      BY <2>5
    <3>2. f[n + 1] = f[n]
      BY <2>2, <2>5
    <3> HIDE DEF In
    <3> QED
      BY <2>3, <3>1, <3>2, Zenon
  <2> QED
    BY <2>4, <2>5
<1>5. Len(s) \in Reach
  <2> HIDE DEF Reach
  <2> QED
    BY <1>2, <1>3, <1>4, NatByInduction
<1>6. Total(f[Len(s)], v) = Over(W, In(Len(s)))
  BY <1>5
<1>7. In(Len(s)) = Picked(s, T)
  BY <1>2 DEF Picked
<1>8. f[Len(s)] = Filter(s, T)
  BY <1>1 DEF IsFilter
<1> HIDE DEF In, Reach
<1> QED
  BY <1>6, <1>7, <1>8, Zenon DEF W

\* ... and counts what is left out for nothing, if it is worth nothing.
NothingBut(T, s, v) == \A i \in DOMAIN s : s[i] \notin T => v[s[i]] = 0

LEMMA TotalOfPart ==
  ASSUME NEW S, NEW s \in Seq(S), NEW T, NEW v \in [S -> Int], NothingBut(T, s, v)
  PROVE  Total(Filter(s, T), v) = Total(s, v)
<1> DEFINE W == Worth(s, v)
           D == DOMAIN s
           E == Picked(s, T)
<1>1. /\ DOMAIN s = 1..Len(s) /\ IsFiniteSet(D)
      /\ \A i \in 1..Len(s) : W[i] = v[s[i]] /\ W[i] \in Int
  BY WorthIsInt
<1>2. E \in SUBSET D /\ \A e \in D \ E : W[e] = 0
  BY <1>1 DEF Picked, NothingBut
<1>3. \A e \in D : W[e] \in Int
  BY <1>1
<1> HIDE DEF W, D, E
<1>4. Over(W, D) = Over(W, E)
  BY <1>1, <1>2, <1>3, OverRest
<1> QED
  BY <1>4, TotalFiltered DEF W, D, E, Total

\* What was fetched, and what it and the transfers come to for a set of accounts, each at some blocks.
Crossings == [account : Accounts, block : FromBlock..ToBlock, dv : Int]
Moments == Outside \X (FromBlock..ToBlock)
Counted(A) == [e \in Crossings |-> IF <<e.account, e.block>> \in A THEN e.dv ELSE 0]
OutWorth(A) == [t \in Transfers |-> IF <<t.to, t.block>> \in A THEN t.value ELSE 0]
InWorth(A) == [t \in Transfers |-> IF <<t.from, t.block>> \in A THEN -t.value ELSE 0]
Left(b) == {i \in DOMAIN history : history[i].block < b /\ history[i].from \in Boundary}
Came(b) == {i \in DOMAIN history : history[i].block < b /\ history[i].to \in Boundary}

\* How far each direction has been fetched.
OutLimit == IF evmPc = "start" THEN FromBlock ELSE IF evmPc = "out" THEN chunk ELSE ToBlock + 1
InLimit == IF evmPc \in {"start", "out"} THEN FromBlock ELSE IF evmPc = "in" THEN chunk ELSE ToBlock + 1
Gains(A) == Over(Worth(history, OutWorth(A)), Left(OutLimit))
              + Over(Worth(history, InWorth(A)), Came(InLimit))

EventsAreWhole ==
  evmPc # "done" /\ ~hole => \A A \in SUBSET Moments : Total(events, Counted(A)) = Gains(A)

PraedaShape ==
  /\ evmPc \in {"start", "out", "in", "curve", "code", "done"}
  /\ history \in Seq(Transfers) /\ events \in Seq(Crossings) /\ chunk \in FromBlock..ToBlock
  /\ \A i \in 1..Len(events) : events[i].account \in Outside
  /\ evmPc = "start" => events = <<>> /\ chunk = FromBlock
  /\ evmPc # "done" => ledger = NoReport

LEMMA WorthsAreInt ==
  ASSUME NEW A
  PROVE  /\ Counted(A) \in [Crossings -> Int]
         /\ OutWorth(A) \in [Transfers -> Int] /\ InWorth(A) \in [Transfers -> Int]
<1>1. \A e \in Crossings : e.dv \in Int
  BY DEF Crossings
<1>2. \A t \in Transfers : t.value \in Int /\ -t.value \in Int
  BY DEF Transfers
<1>3. 0 \in Int
  OBVIOUS
<1> QED
  BY <1>1, <1>2, <1>3 DEF Counted, OutWorth, InWorth

\* What an image of a finite set is.
LEMMA ImageIsFinite ==
  ASSUME NEW S, IsFiniteSet(S), NEW f, NEW T, T = {f[x] : x \in S}
  PROVE  IsFiniteSet(T)
<1> DEFINE g == [x \in S |-> f[x]]
<1>1. g \in Surjection(S, T)
  BY DEF Surjection
<1> QED
  BY <1>1, FS_Surjection

\* One chunk of one direction.
LEMMA OutChunkAdds ==
  ASSUME NEW lo, NEW hi, history \in Seq(Transfers),
         NEW new, new = Bumped("out", Logs("out", lo, hi))
  PROVE  /\ new \in Seq(Crossings) /\ \A i \in 1..Len(new) : new[i].account \in Outside /\ new[i].dv >= 0
         /\ \A A \in SUBSET Moments :
              Total(new, Counted(A)) =
                Over(Worth(history, OutWorth(A)),
                     {i \in DOMAIN history : history[i].block \in lo..hi
                                             /\ history[i].from \in Boundary})
<1> DEFINE T == {t \in ToSet(history) : t.block \in lo..hi /\ t.from \in Boundary}
           logs == Filter(history, T)
           c == [i \in DOMAIN logs |-> Crossing("out", logs[i])]
           U == {e \in ToSet(c) : e.account \notin Boundary}
<1>1. new = Filter(c, U)
  <2>1. Logs("out", lo, hi) = logs
    BY DEF Logs
  <2> HIDE DEF logs
  <2> QED
    BY <2>1 DEF Bumped
<1>2. logs \in Seq(Transfers)
  <2> HIDE DEF T
  <2> QED
    BY FilterInOrder
<1> HIDE DEF logs
<1>3. /\ c \in Seq(Crossings) /\ DOMAIN c = DOMAIN logs /\ DOMAIN logs = 1..Len(logs)
      /\ \A i \in DOMAIN logs :
           /\ logs[i] \in Transfers /\ c[i] \in Crossings
           /\ c[i].account = logs[i].to /\ c[i].block = logs[i].block /\ c[i].dv = logs[i].value
  <2>1. DOMAIN logs = 1..Len(logs) /\ Len(logs) \in Nat /\ \A i \in DOMAIN logs : logs[i] \in Transfers
    BY <1>2
  <2>2. \A i \in DOMAIN logs : c[i] = [account |-> logs[i].to, block |-> logs[i].block,
                                       dv |-> logs[i].value]
    BY DEF Crossing
  <2>3. \A i \in DOMAIN logs : c[i] \in Crossings /\ c[i].account = logs[i].to
                               /\ c[i].block = logs[i].block /\ c[i].dv = logs[i].value
    BY <2>1, <2>2 DEF Crossings, Transfers
  <2>4. c \in [1..Len(logs) -> Crossings]
    BY <2>1, <2>3
  <2> HIDE DEF c
  <2>5. c \in Seq(Crossings)
    BY <2>1, <2>4
  <2> QED
    BY <2>1, <2>3, <2>4, <2>5
<1>4. \A i \in DOMAIN c : c[i] \in U <=> c[i].account \notin Boundary
  BY DEF ToSet
<1> HIDE DEF c
<1>5. \A i \in DOMAIN c : c[i].dv >= 0
  BY <1>3 DEF Transfers
<1>6. new \in Seq(Crossings) /\ KeptFrom(new, c, U, Len(c))
  <2> HIDE DEF U
  <2> QED
    BY <1>1, <1>3, FilterInOrder
<1>7. \A i \in 1..Len(new) : new[i].account \in Outside /\ new[i].dv >= 0
  <2>1. \A i \in 1..Len(new) : new[i] \in U /\ new[i] \in Crossings
    BY <1>6 DEF KeptFrom
  <2>2. \A i \in 1..Len(new) : \E k \in DOMAIN c : new[i] = c[k]
    BY <2>1 DEF ToSet
  <2>3. \A i \in 1..Len(new) : new[i].dv >= 0
    BY <1>5, <2>2
  <2> QED
    BY <2>1, <2>3 DEF Outside, Crossings
<1>8. ASSUME NEW A \in SUBSET Moments
      PROVE  Total(new, Counted(A)) = Over(Worth(history, OutWorth(A)), Picked(history, T))
  <2> DEFINE v == Counted(A)
             w == OutWorth(A)
  <2>1. v \in [Crossings -> Int] /\ w \in [Transfers -> Int]
    BY WorthsAreInt
  <2>2. NothingBut(U, c, v)
    BY <1>3, <1>4 DEF Counted, Moments, Outside, NothingBut
  <2>3. \A i \in DOMAIN logs : v[c[i]] = w[logs[i]]
    BY <1>3 DEF Counted, OutWorth
  <2> HIDE DEF v, w, U, T
  <2>4. Total(new, v) = Total(c, v)
    BY <1>1, <1>3, <2>1, <2>2, TotalOfPart
  <2>5. Total(c, v) = Total(logs, w)
    <3>1. Worth(c, v) = Worth(logs, w)
      BY <1>3, <2>3 DEF Worth
    <3> QED
      BY <1>3, <3>1 DEF Total
  <2>6. Total(logs, w) = Over(Worth(history, w), Picked(history, T))
    BY <2>1, TotalFiltered DEF logs
  <2> QED
    BY <2>4, <2>5, <2>6 DEF v, w
<1>9. Picked(history, T) = {i \in DOMAIN history : history[i].block \in lo..hi
                                                   /\ history[i].from \in Boundary}
  BY DEF Picked, ToSet
<1> QED
  BY <1>6, <1>7, <1>8, <1>9

LEMMA InChunkAdds ==
  ASSUME NEW lo, NEW hi, history \in Seq(Transfers),
         NEW new, new = Bumped("in", Logs("in", lo, hi))
  PROVE  /\ new \in Seq(Crossings) /\ \A i \in 1..Len(new) : new[i].account \in Outside /\ new[i].dv <= 0
         /\ \A A \in SUBSET Moments :
              Total(new, Counted(A)) =
                Over(Worth(history, InWorth(A)),
                     {i \in DOMAIN history : history[i].block \in lo..hi
                                             /\ history[i].to \in Boundary})
<1> DEFINE T == {t \in ToSet(history) : t.block \in lo..hi /\ t.to \in Boundary}
           logs == Filter(history, T)
           c == [i \in DOMAIN logs |-> Crossing("in", logs[i])]
           U == {e \in ToSet(c) : e.account \notin Boundary}
<1>1. new = Filter(c, U)
  <2>1. Logs("in", lo, hi) = logs
    BY DEF Logs
  <2> HIDE DEF logs
  <2> QED
    BY <2>1 DEF Bumped
<1>2. logs \in Seq(Transfers)
  <2> HIDE DEF T
  <2> QED
    BY FilterInOrder
<1> HIDE DEF logs
<1>3. /\ c \in Seq(Crossings) /\ DOMAIN c = DOMAIN logs /\ DOMAIN logs = 1..Len(logs)
      /\ \A i \in DOMAIN logs :
           /\ logs[i] \in Transfers /\ c[i] \in Crossings
           /\ c[i].account = logs[i].from /\ c[i].block = logs[i].block /\ c[i].dv = -logs[i].value
  <2>1. DOMAIN logs = 1..Len(logs) /\ Len(logs) \in Nat /\ \A i \in DOMAIN logs : logs[i] \in Transfers
    BY <1>2
  <2>2. \A i \in DOMAIN logs : c[i] = [account |-> logs[i].from, block |-> logs[i].block,
                                       dv |-> -logs[i].value]
    BY DEF Crossing
  <2>3. \A i \in DOMAIN logs : c[i] \in Crossings /\ c[i].account = logs[i].from
                               /\ c[i].block = logs[i].block /\ c[i].dv = -logs[i].value
    BY <2>1, <2>2 DEF Crossings, Transfers
  <2>4. c \in [1..Len(logs) -> Crossings]
    BY <2>1, <2>3
  <2> HIDE DEF c
  <2>5. c \in Seq(Crossings)
    BY <2>1, <2>4
  <2> QED
    BY <2>1, <2>3, <2>4, <2>5
<1>4. \A i \in DOMAIN c : c[i] \in U <=> c[i].account \notin Boundary
  BY DEF ToSet
<1> HIDE DEF c
<1>5. \A i \in DOMAIN c : c[i].dv <= 0
  BY <1>3 DEF Transfers
<1>6. new \in Seq(Crossings) /\ KeptFrom(new, c, U, Len(c))
  <2> HIDE DEF U
  <2> QED
    BY <1>1, <1>3, FilterInOrder
<1>7. \A i \in 1..Len(new) : new[i].account \in Outside /\ new[i].dv <= 0
  <2>1. \A i \in 1..Len(new) : new[i] \in U /\ new[i] \in Crossings
    BY <1>6 DEF KeptFrom
  <2>2. \A i \in 1..Len(new) : \E k \in DOMAIN c : new[i] = c[k]
    BY <2>1 DEF ToSet
  <2>3. \A i \in 1..Len(new) : new[i].dv <= 0
    BY <1>5, <2>2
  <2> QED
    BY <2>1, <2>3 DEF Outside, Crossings
<1>8. ASSUME NEW A \in SUBSET Moments
      PROVE  Total(new, Counted(A)) = Over(Worth(history, InWorth(A)), Picked(history, T))
  <2> DEFINE v == Counted(A)
             w == InWorth(A)
  <2>1. v \in [Crossings -> Int] /\ w \in [Transfers -> Int]
    BY WorthsAreInt
  <2>2. NothingBut(U, c, v)
    BY <1>3, <1>4 DEF Counted, Moments, Outside, NothingBut
  <2>3. \A i \in DOMAIN logs : v[c[i]] = w[logs[i]]
    BY <1>3 DEF Counted, InWorth
  <2> HIDE DEF v, w, U, T
  <2>4. Total(new, v) = Total(c, v)
    BY <1>1, <1>3, <2>1, <2>2, TotalOfPart
  <2>5. Total(c, v) = Total(logs, w)
    <3>1. Worth(c, v) = Worth(logs, w)
      BY <1>3, <2>3 DEF Worth
    <3> QED
      BY <1>3, <3>1 DEF Total
  <2>6. Total(logs, w) = Over(Worth(history, w), Picked(history, T))
    BY <2>1, TotalFiltered DEF logs
  <2> QED
    BY <2>4, <2>5, <2>6 DEF v, w
<1>9. Picked(history, T) = {i \in DOMAIN history : history[i].block \in lo..hi
                                                   /\ history[i].to \in Boundary}
  BY DEF Picked, ToSet
<1> QED
  BY <1>6, <1>7, <1>8, <1>9

\* What a chunk adds, in the order of the blocks.
LEMMA ChunkFollows ==
  ASSUME history \in Seq(Transfers), NEW v \in [Transfers -> Int],
         NEW lo \in Nat, NEW hi \in Nat, lo <= hi + 1, NEW P \in SUBSET (DOMAIN history)
  PROVE  Over(Worth(history, v), {i \in P : history[i].block < hi + 1}) =
           Over(Worth(history, v), {i \in P : history[i].block < lo})
             + Over(Worth(history, v), {i \in P : history[i].block \in lo..hi})
<1> DEFINE W == Worth(history, v)
           A == {i \in P : history[i].block < lo}
           B == {i \in P : history[i].block \in lo..hi}
           C == {i \in P : history[i].block < hi + 1}
<1>1. /\ DOMAIN history = 1..Len(history) /\ IsFiniteSet(DOMAIN history)
      /\ \A i \in 1..Len(history) : history[i] \in Transfers /\ W[i] \in Int
  BY WorthIsInt
<1>2. \A i \in P : history[i].block \in Nat
  <2>1. \A i \in P : history[i] \in Transfers
    BY <1>1
  <2>2. FromBlock..ToBlock \subseteq Nat
    BY PraedaAssumption
  <2> QED
    BY <2>1, <2>2 DEF Transfers
<1>3. A \cup B = C /\ A \cap B = {}
  BY <1>2
<1>4. IsFiniteSet(A) /\ IsFiniteSet(B)
  <2>1. A \in SUBSET (DOMAIN history) /\ B \in SUBSET (DOMAIN history)
    OBVIOUS
  <2> HIDE DEF A, B
  <2> QED
    BY <1>1, <2>1, FS_Subset
<1>5. \A e \in A \cup B : W[e] \in Int
  BY <1>1
<1> HIDE DEF A, B, C, W
<1>6. Over(W, A \cup B) = Over(W, A) + Over(W, B)
  BY <1>3, <1>4, <1>5, OverUnion
<1>7. Over(W, C) = Over(W, A) + Over(W, B)
  BY <1>3, <1>6, Zenon
<1> QED
  BY <1>7 DEF A, B, C, W

\* The chunks follow one another until a direction is done.
LEMMA ChunksFollow ==
  ASSUME PraedaShape, Advance, evmPc \in {"out", "in"},
         NEW last, last = ChunkEnd(chunk)
  PROVE  /\ last \in Nat /\ chunk \in Nat /\ chunk <= last + 1 /\ chunk' \in FromBlock..ToBlock
         /\ evmPc' \in {"out", "in", "curve"}
         /\ evmPc = "out" => OutLimit = chunk /\ OutLimit' = last + 1
                             /\ InLimit = FromBlock /\ InLimit' = FromBlock
         /\ evmPc = "in" => OutLimit = ToBlock + 1 /\ OutLimit' = ToBlock + 1
                            /\ InLimit = chunk /\ InLimit' = last + 1
<1>1. /\ FromBlock \in Nat /\ ToBlock \in Nat /\ FromBlock < ToBlock /\ Step \in Nat \ {0}
      /\ chunk \in FromBlock..ToBlock
  BY PraedaAssumption DEF PraedaShape
<1>2. last = IF chunk + Step - 1 > ToBlock THEN ToBlock ELSE chunk + Step - 1
  BY DEF ChunkEnd, LastOf
<1>3. CASE chunk + Step <= ToBlock
  <2>1. chunk' = chunk + Step /\ evmPc' = evmPc
    BY <1>3 DEF Advance
  <2>2. last = chunk + Step - 1
    BY <1>1, <1>2, <1>3
  <2> QED
    BY <1>1, <1>3, <2>1, <2>2 DEF OutLimit, InLimit
<1>4. CASE ~(chunk + Step <= ToBlock)
  <2>1. chunk' = FromBlock /\ evmPc' = IF evmPc = "out" THEN "in" ELSE "curve"
    BY <1>4 DEF Advance
  <2>2. last = ToBlock
    BY <1>1, <1>2, <1>4
  <2>3. (evmPc = "out" => evmPc' = "in") /\ (evmPc = "in" => evmPc' = "curve")
    BY <2>1
  <2> QED
    BY <1>1, <2>1, <2>2, <2>3 DEF OutLimit, InLimit
<1> QED
  BY <1>3, <1>4

\* Nothing of the window lies before it.
LEMMA NothingBefore ==
  ASSUME history \in Seq(Transfers)
  PROVE  Left(FromBlock) = {} /\ Came(FromBlock) = {}
<1>1. \A i \in DOMAIN history : history[i] \in Transfers
  OBVIOUS
<1>2. \A i \in DOMAIN history : history[i].block \in FromBlock..ToBlock
  BY <1>1 DEF Transfers
<1>3. \A i \in DOMAIN history : ~(history[i].block < FromBlock)
  BY <1>2, PraedaAssumption
<1> QED
  BY <1>3 DEF Left, Came

LEMMA NothingTotals == ASSUME NEW v PROVE Total(<<>>, v) = 0
  BY OverNothing DEF Total

LEMMA PraedaInitHolds == PraedaInit => PraedaShape /\ EventsAreWhole /\ LedgerIsWhole
<1> SUFFICES ASSUME PraedaInit
             PROVE  PraedaShape /\ EventsAreWhole /\ LedgerIsWhole
  OBVIOUS
<1> USE DEF PraedaInit
<1>1. PraedaShape
  BY PraedaAssumption DEF PraedaShape
<1>2. EventsAreWhole
  <2> SUFFICES ASSUME NEW A \in SUBSET Moments
               PROVE  Total(events, Counted(A)) = Gains(A)
    BY DEF EventsAreWhole
  <2>1. Left(FromBlock) = {} /\ Came(FromBlock) = {} /\ OutLimit = FromBlock /\ InLimit = FromBlock
    BY NothingBefore DEF OutLimit, InLimit
  <2>2. Gains(A) = 0 + 0
    BY <2>1, OverNothing DEF Gains
  <2> QED
    BY <2>2, NothingTotals
<1>3. LedgerIsWhole
  BY DEF LedgerIsWhole, Reconstructed
<1> QED
  BY <1>1, <1>2, <1>3

LEMMA RefuseKeeps ==
  ASSUME PraedaShape, Refuse, UNCHANGED <<chunk, events, hole, points>>, history' \in Seq(Transfers)
  PROVE  PraedaShape' /\ EventsAreWhole' /\ LedgerIsWhole'
  BY DEF PraedaShape, Refuse, EventsAreWhole, LedgerIsWhole, Reconstructed

LEMMA ServesWindowKeeps ==
  PraedaShape /\ EventsAreWhole /\ ServesWindow => PraedaShape' /\ EventsAreWhole' /\ LedgerIsWhole'
<1> SUFFICES ASSUME PraedaShape, EventsAreWhole, ServesWindow
             PROVE  PraedaShape' /\ EventsAreWhole' /\ LedgerIsWhole'
  OBVIOUS
<1>1. /\ evmPc = "start" /\ events = <<>> /\ chunk = FromBlock /\ history' \in Seq(Transfers)
      /\ UNCHANGED <<chunk, events, hole, points>>
  BY HistoriesAssumption DEF ServesWindow, PraedaShape
<1>2. CASE Refuse
  BY <1>1, <1>2, RefuseKeeps
<1>3. CASE evmPc' = "out" /\ UNCHANGED ledger
  <2>1. PraedaShape' /\ ledger' = NoReport
    BY <1>1, <1>3 DEF PraedaShape
  <2>2. (Left(FromBlock) = {} /\ Came(FromBlock) = {})'
    <3>1. (history \in Seq(Transfers) => Left(FromBlock) = {} /\ Came(FromBlock) = {})'
      BY NothingBefore, PTL
    <3> QED
      BY <1>1, <3>1
  <2>3. OutLimit' = FromBlock /\ InLimit' = FromBlock
    BY <1>1, <1>3 DEF OutLimit, InLimit
  <2>4. EventsAreWhole'
    <3> SUFFICES ASSUME NEW A \in SUBSET Moments
                 PROVE  (Total(events, Counted(A)) = Gains(A))'
      BY DEF EventsAreWhole, Moments, Outside
    <3>1. Gains(A)' = 0 + 0
      BY <2>2, <2>3, OverNothing DEF Gains, Left, Came
    <3>2. Total(events, Counted(A))' = 0
      BY <1>1, OverNothing DEF Total, Worth
    <3> QED
      BY <3>1, <3>2
  <2> QED
    BY <2>1, <2>4 DEF LedgerIsWhole, Reconstructed
<1> QED
  BY <1>2, <1>3 DEF ServesWindow

\* What is fetched whole is what the chunk held.
LEMMA FetchAdds ==
  ASSUME PraedaShape, EventsAreWhole, GetLogs, ~hole,
         NEW new, new = Bumped(evmPc, Logs(evmPc, chunk, ChunkEnd(chunk))),
         events' = events \o new, NEW A \in SUBSET Moments
  PROVE  new \in Seq(Crossings) /\ Total(events', Counted(A)) = Gains(A)'
<1> DEFINE last == ChunkEnd(chunk)
           v == Counted(A)
           WO == Worth(history, OutWorth(A))
           WI == Worth(history, InWorth(A))
           PO == {i \in DOMAIN history : history[i].from \in Boundary}
           PI == {i \in DOMAIN history : history[i].to \in Boundary}
<1>1. /\ evmPc \in {"out", "in"} /\ Advance /\ history' = history
      /\ history \in Seq(Transfers) /\ events \in Seq(Crossings)
  BY DEF GetLogs, PraedaShape
<1>2. /\ last \in Nat /\ chunk \in Nat /\ chunk <= last + 1
      /\ evmPc = "out" => OutLimit = chunk /\ OutLimit' = last + 1
                          /\ InLimit = FromBlock /\ InLimit' = FromBlock
      /\ evmPc = "in" => OutLimit = ToBlock + 1 /\ OutLimit' = ToBlock + 1
                         /\ InLimit = chunk /\ InLimit' = last + 1
  BY <1>1, ChunksFollow
<1>3. v \in [Crossings -> Int] /\ OutWorth(A) \in [Transfers -> Int] /\ InWorth(A) \in [Transfers -> Int]
  BY WorthsAreInt
<1>4. Total(events, v) = Over(WO, Left(OutLimit)) + Over(WI, Came(InLimit))
  BY <1>1 DEF EventsAreWhole, Gains
<1>5. Gains(A)' = Over(WO, Left(OutLimit')) + Over(WI, Came(InLimit'))
  BY <1>1 DEF Gains, Left, Came, Worth, OutWorth, InWorth
<1>6. \A b : Left(b) = {i \in PO : history[i].block < b} /\ Came(b) = {i \in PI : history[i].block < b}
  BY DEF Left, Came
<1>7. \A b \in Int : Over(WO, Left(b)) \in Int /\ Over(WI, Came(b)) \in Int
  <2> SUFFICES ASSUME NEW b \in Int
               PROVE  Over(WO, Left(b)) \in Int /\ Over(WI, Came(b)) \in Int
    OBVIOUS
  <2>1. /\ DOMAIN history = 1..Len(history) /\ IsFiniteSet(DOMAIN history)
        /\ \A i \in 1..Len(history) : WO[i] \in Int
    BY <1>1, <1>3, WorthIsInt
  <2>2. \A i \in 1..Len(history) : WI[i] \in Int
    BY <1>1, <1>3, WorthIsInt
  <2> DEFINE L == Left(b)
             C == Came(b)
  <2>3. L \in SUBSET (DOMAIN history) /\ C \in SUBSET (DOMAIN history)
    BY DEF Left, Came
  <2> HIDE DEF L, C, WO, WI
  <2>4. IsFiniteSet(L) /\ IsFiniteSet(C)
    BY <2>1, <2>3, FS_Subset
  <2>5. (\A e \in L : WO[e] \in Int) /\ \A e \in C : WI[e] \in Int
    BY <2>1, <2>2, <2>3
  <2>6. Over(WO, L) \in Int
    BY <2>4, <2>5, OverIsInt
  <2>7. Over(WI, C) \in Int
    BY <2>4, <2>5, OverIsInt
  <2> QED
    BY <2>6, <2>7 DEF L, C
<1>8. FromBlock \in Int /\ ToBlock + 1 \in Int /\ chunk \in Int /\ last + 1 \in Int
  BY <1>2, PraedaAssumption
<1> DEFINE BO == {i \in PO : history[i].block \in chunk..last}
           BI == {i \in PI : history[i].block \in chunk..last}
<1>9. CASE evmPc = "out"
  <2>1. /\ new \in Seq(Crossings)
        /\ Total(new, v) = Over(WO, {i \in DOMAIN history : history[i].block \in chunk..last
                                                           /\ history[i].from \in Boundary})
    BY <1>1, <1>9, OutChunkAdds
  <2>2. BO = {i \in DOMAIN history : history[i].block \in chunk..last /\ history[i].from \in Boundary}
    OBVIOUS
  <2>3. Over(WO, Left(last + 1)) = Over(WO, Left(chunk)) + Over(WO, BO)
    <3>1. PO \in SUBSET (DOMAIN history)
      OBVIOUS
    <3> DEFINE w == OutWorth(A)
    <3> HIDE DEF PO, w, last
    <3>2. Over(Worth(history, w), {i \in PO : history[i].block < last + 1}) =
            Over(Worth(history, w), {i \in PO : history[i].block < chunk})
              + Over(Worth(history, w), {i \in PO : history[i].block \in chunk..last})
      BY <1>1, <1>2, <1>3, <3>1, ChunkFollows DEF w
    <3> QED
      BY <1>6, <3>2 DEF w
  <2>4. Total(events', v) = Total(events, v) + Total(new, v)
    BY <1>1, <1>3, <2>1, TotalConcat
  <2> DEFINE lo == Over(WO, Left(chunk))
             all == Over(WO, Left(last + 1))
             more == Over(WO, BO)
             came == Over(WI, Came(FromBlock))
  <2>5. Total(new, v) = more
    BY <2>1, <2>2
  <2>6. Total(events, v) = lo + came /\ Gains(A)' = all + came /\ all = lo + more
    BY <1>2, <1>4, <1>5, <1>9, <2>3
  <2>7. lo \in Int /\ all \in Int /\ came \in Int /\ Total(new, v) \in Int
    BY <1>3, <1>7, <1>8, <2>1, WorthIsInt
  <2> HIDE DEF lo, all, more, came, BO, v
  <2>8. Total(events', v) = Gains(A)'
    BY <2>4, <2>5, <2>6, <2>7
  <2> QED
    BY <2>1, <2>8 DEF v
<1>10. CASE evmPc = "in"
  <2>1. /\ new \in Seq(Crossings)
        /\ Total(new, v) = Over(WI, {i \in DOMAIN history : history[i].block \in chunk..last
                                                           /\ history[i].to \in Boundary})
    BY <1>1, <1>10, InChunkAdds
  <2>2. BI = {i \in DOMAIN history : history[i].block \in chunk..last /\ history[i].to \in Boundary}
    OBVIOUS
  <2>3. Over(WI, Came(last + 1)) = Over(WI, Came(chunk)) + Over(WI, BI)
    <3>1. PI \in SUBSET (DOMAIN history)
      OBVIOUS
    <3> DEFINE w == InWorth(A)
    <3> HIDE DEF PI, w, last
    <3>2. Over(Worth(history, w), {i \in PI : history[i].block < last + 1}) =
            Over(Worth(history, w), {i \in PI : history[i].block < chunk})
              + Over(Worth(history, w), {i \in PI : history[i].block \in chunk..last})
      BY <1>1, <1>2, <1>3, <3>1, ChunkFollows DEF w
    <3> QED
      BY <1>6, <3>2 DEF w
  <2>4. Total(events', v) = Total(events, v) + Total(new, v)
    BY <1>1, <1>3, <2>1, TotalConcat
  <2> DEFINE lo == Over(WI, Came(chunk))
             all == Over(WI, Came(last + 1))
             more == Over(WI, BI)
             left == Over(WO, Left(ToBlock + 1))
  <2>5. Total(new, v) = more
    BY <2>1, <2>2
  <2>6. Total(events, v) = left + lo /\ Gains(A)' = left + all /\ all = lo + more
    BY <1>2, <1>4, <1>5, <1>10, <2>3
  <2>7. lo \in Int /\ all \in Int /\ left \in Int /\ Total(new, v) \in Int
    BY <1>3, <1>7, <1>8, <2>1, WorthIsInt
  <2> HIDE DEF lo, all, more, left, BI, v
  <2>8. Total(events', v) = Gains(A)'
    BY <2>4, <2>5, <2>6, <2>7
  <2> QED
    BY <2>1, <2>8 DEF v
<1> QED
  BY <1>1, <1>9, <1>10

LEMMA GetLogsKeeps ==
  PraedaShape /\ EventsAreWhole /\ GetLogs => PraedaShape' /\ EventsAreWhole' /\ LedgerIsWhole'
<1> SUFFICES ASSUME PraedaShape, EventsAreWhole, GetLogs
             PROVE  PraedaShape' /\ EventsAreWhole' /\ LedgerIsWhole'
  OBVIOUS
<1> DEFINE new == Bumped(evmPc, Logs(evmPc, chunk, ChunkEnd(chunk)))
<1>1. /\ evmPc \in {"out", "in"} /\ Advance /\ history' = history /\ ledger' = ledger
      /\ ledger = NoReport /\ history \in Seq(Transfers) /\ events \in Seq(Crossings)
  BY DEF GetLogs, PraedaShape
<1>2. chunk' \in FromBlock..ToBlock /\ evmPc' \in {"out", "in", "curve"}
  BY <1>1, ChunksFollow
<1>3. LedgerIsWhole'
  BY <1>1 DEF LedgerIsWhole, Reconstructed
<1>4. new \in Seq(Crossings) /\ \A i \in 1..Len(new) : new[i].account \in Outside
  <2>1. CASE evmPc = "out"
    BY <1>1, <2>1, OutChunkAdds
  <2>2. CASE evmPc = "in"
    BY <1>1, <2>2, InChunkAdds
  <2> QED
    BY <1>1, <2>1, <2>2
<1>5. CASE events' = events \o new /\ UNCHANGED hole
  <2> HIDE DEF new
  <2>1. /\ events' \in Seq(Crossings) /\ Len(events') = Len(events) + Len(new)
        /\ \A i \in 1..Len(events') :
             (i \in 1..Len(events) /\ events'[i] = events[i])
             \/ (i - Len(events) \in 1..Len(new) /\ events'[i] = new[i - Len(events)])
    BY <1>1, <1>4, <1>5
  <2>2. \A i \in 1..Len(events') : events'[i].account \in Outside
    BY <1>4, <2>1 DEF PraedaShape
  <2>3. PraedaShape'
    BY <1>1, <1>2, <2>1, <2>2 DEF PraedaShape, Outside
  <2>4. EventsAreWhole'
    <3> SUFFICES ASSUME ~hole, NEW A \in SUBSET Moments
                 PROVE  (Total(events, Counted(A)) = Gains(A))'
      BY <1>5 DEF EventsAreWhole, Moments, Outside
    <3>1. Total(events', Counted(A)) = Gains(A)'
      BY <1>5, FetchAdds DEF new
    <3> QED
      BY <3>1 DEF Total, Worth, Counted, Crossings
  <2> QED
    BY <1>3, <2>3, <2>4
<1>6. CASE hole' = TRUE /\ UNCHANGED events
  BY <1>1, <1>2, <1>3, <1>6 DEF PraedaShape, EventsAreWhole, Moments, Outside
<1> QED
  BY <1>5, <1>6 DEF GetLogs

LEMMA DrawdownCurveKeeps ==
  PraedaShape /\ EventsAreWhole /\ DrawdownCurve => PraedaShape' /\ EventsAreWhole' /\ LedgerIsWhole'
<1> SUFFICES ASSUME PraedaShape, EventsAreWhole, DrawdownCurve
             PROVE  PraedaShape' /\ EventsAreWhole' /\ LedgerIsWhole'
  OBVIOUS
<1>1. /\ evmPc = "curve" /\ evmPc' = "code" /\ ledger' = NoReport /\ ledger = NoReport
      /\ UNCHANGED <<history, chunk, events, hole>>
  BY DEF DrawdownCurve, PraedaShape
<1>2. PraedaShape'
  BY <1>1 DEF PraedaShape, Outside
<1>3. EventsAreWhole'
  <2> SUFFICES ASSUME ~hole, NEW A \in SUBSET Moments
               PROVE  (Total(events, Counted(A)) = Gains(A))'
    BY <1>1 DEF EventsAreWhole, Moments, Outside
  <2>1. Total(events, Counted(A)) = Gains(A)
    BY <1>1 DEF EventsAreWhole
  <2>2. OutLimit' = OutLimit /\ InLimit' = InLimit
    BY <1>1 DEF OutLimit, InLimit
  <2>3. Gains(A)' = Gains(A)
    BY <1>1, <2>2 DEF Gains, Left, Came, Worth, OutWorth, InWorth
  <2>4. Total(events, Counted(A))' = Total(events, Counted(A))
    BY <1>1 DEF Total, Worth, Counted, Crossings
  <2> QED
    BY <2>1, <2>3, <2>4
<1>4. LedgerIsWhole'
  BY <1>1 DEF LedgerIsWhole, Reconstructed
<1> QED
  BY <1>2, <1>3, <1>4

-----------------------------------------------------------------------------
(* The report. *)

Met == {events[i].account : i \in DOMAIN events}

\* A row for every account that was met, and one only.
RowPerAccount(made) ==
  /\ IsFiniteSet(made)
  /\ \A r \in made : /\ r.account \in Met /\ r.E = SumOf(EventsOf(r.account))
                     /\ r.block = DecisiveBlock(EventsOf(r.account), r.E)
  /\ \A a \in Met : \E r \in made : r.account = a
  /\ \A r, q \in made : r.account = q.account => r = q

LEMMA RowsAreAccounts ==
  ASSUME events \in Seq(Crossings)
  PROVE  RowPerAccount(Classify(Unclassified))
<1> DEFINE entry(a) ==
             LET s == EventsOf(a)  b == DecisiveBlock(s, SumOf(s))
             IN [account |-> a, E |-> SumOf(s), block |-> b, L |-> Timing(b),
                 cls |-> IF a \in Intermediaries THEN "ROUTE_UNRESOLVED" ELSE "none"]
           raw == Unclassified
           resolved == {r \in raw : r.cls = "none"}
           outflows == {r \in resolved : r.E > 0}
           K == IF outflows = {} THEN 1 ELSE (Cardinality(outflows) + 19) \div 20
           met(r) == Min({i \in DOMAIN events : events[i].account = r.account})
           rank(r) == Cardinality({q \in outflows : q.E > r.E \/ (q.E = r.E /\ met(q) < met(r))})
           class(r) ==
             CASE r.E < 0 -> "NET_INFLOW" [] r.E = 0 -> "NET_ZERO"
               [] OTHER -> IF rank(r) < K /\ PastMedian(r.L, resolved)
                           THEN "EARLY_TOP_OUTFLOW" ELSE "NET_OUTFLOW"
           final(r) == IF r.cls # "none" THEN r ELSE [r EXCEPT !.cls = class(r)]
           out == Classify(Unclassified)
<1>1. Unclassified = {entry(a) : a \in Met}
  <2>1. Met = {e.account : e \in ToSet(events)}
    BY DEF Met, ToSet
  <2> QED
    BY <2>1 DEF Unclassified
<1>2. out = {final(r) : r \in Unclassified}
  BY DEF Classify
<1> HIDE DEF class, resolved, outflows, K, met, rank, raw
<1>3. \A a : /\ final(entry(a)).account = a /\ final(entry(a)).E = SumOf(EventsOf(a))
             /\ final(entry(a)).block = DecisiveBlock(EventsOf(a), final(entry(a)).E)
  OBVIOUS
<1> HIDE DEF entry, final
<1> DEFINE rowOf == [a \in Met |-> final(entry(a))]
           acc == [i \in DOMAIN events |-> events[i].account]
<1>4. out = {rowOf[a] : a \in Met}
  BY <1>1, <1>2
<1>5. \A a \in Met : /\ rowOf[a].account = a /\ rowOf[a].E = SumOf(EventsOf(a))
                     /\ rowOf[a].block = DecisiveBlock(EventsOf(a), rowOf[a].E)
  BY <1>3
<1>6. IsFiniteSet(Met)
  <2>1. IsFiniteSet(DOMAIN events)
    <3>1. DOMAIN events = 1..Len(events) /\ Len(events) \in Nat
      OBVIOUS
    <3> QED
      BY <3>1, FS_Interval
  <2>2. Met = {acc[i] : i \in DOMAIN events}
    BY DEF Met
  <2> HIDE DEF acc
  <2> QED
    BY <2>1, <2>2, ImageIsFinite
<1> HIDE DEF rowOf, out
<1>7. IsFiniteSet(out)
  BY <1>4, <1>6, ImageIsFinite
<1>8. RowPerAccount(out)
  BY <1>4, <1>5, <1>7 DEF RowPerAccount
<1> QED
  BY <1>8 DEF out

Signed == [e \in Crossings |-> e.dv]
Until(b) == [e \in Crossings |-> IF e.block <= b THEN e.dv ELSE 0]
Values == [t \in Transfers |-> t.value]
Valued == Worth(history, Values)

LEMMA SignedAreInt ==
  /\ Signed \in [Crossings -> Int] /\ \A e \in Crossings : Signed[e] = e.dv
  /\ Values \in [Transfers -> Int] /\ \A t \in Transfers : Values[t] = t.value
<1>1. /\ \A e \in Crossings : e.dv \in Int
      /\ \A t \in Transfers : t.value \in Int
  BY DEF Crossings, Transfers
<1> QED
  BY <1>1 DEF Signed, Values

\* Summands that are another's on a part, and nothing on the rest.
OnlyOn(E, D, w, x) == /\ E \in SUBSET D /\ \A e \in D : w[e] \in Int
                      /\ \A e \in E : w[e] = x[e]
                      /\ \A e \in D \ E : w[e] = 0

LEMMA OverPart ==
  ASSUME NEW D, IsFiniteSet(D), NEW E, NEW w, NEW x, OnlyOn(E, D, w, x)
  PROVE  Over(w, D) = Over(x, E)
<1>1. /\ E \in SUBSET D /\ \A e \in D : w[e] \in Int
      /\ \A e \in E : w[e] = x[e]
      /\ \A e \in D \ E : w[e] = 0
  BY DEF OnlyOn
<1>2. IsFiniteSet(E)
  BY <1>1, FS_Subset
<1>3. Over(w, D) = Over(w, E)
  BY <1>1, OverRest
<1>4. Over(w, E) = Over(x, E)
  BY <1>1, <1>2, OverSame
<1> QED
  BY <1>3, <1>4

\* A sum over a sequence, and over what was filtered of another.
LEMMA SumOfIsTotal == ASSUME NEW s \in Seq(Crossings) PROVE SumOf(s) = Total(s, Signed)
<1> DEFINE w == [i \in DOMAIN s |-> s[i].dv]
<1>1. \A i \in DOMAIN s : s[i] \in Crossings
  OBVIOUS
<1>2. w = Worth(s, Signed)
  BY <1>1, SignedAreInt DEF Worth
<1>3. DOMAIN w = DOMAIN s
  OBVIOUS
<1>4. SumOf(s) = SumFunction(w)
  BY DEF SumOf
<1> HIDE DEF w
<1> QED
  BY <1>2, <1>3, <1>4, SumIsIter DEF Total, Over

LEMMA MovedIsTotal == ASSUME NEW s \in Seq(Transfers) PROVE Moved(s) = Total(s, Values)
<1> DEFINE w == [i \in DOMAIN s |-> s[i].value]
<1>1. \A i \in DOMAIN s : s[i] \in Transfers
  OBVIOUS
<1>2. w = Worth(s, Values)
  BY <1>1, SignedAreInt DEF Worth
<1>3. DOMAIN w = DOMAIN s
  OBVIOUS
<1>4. Moved(s) = SumFunction(w)
  BY DEF Moved
<1> HIDE DEF w
<1> QED
  BY <1>2, <1>3, <1>4, SumIsIter DEF Total, Over

LEMMA MovedOfSome ==
  ASSUME history \in Seq(Transfers), NEW T
  PROVE  Moved(Filter(history, T)) = Over(Valued, Picked(history, T))
<1> DEFINE logs == Filter(history, T)
<1>1. logs \in Seq(Transfers)
  BY FilterInOrder
<1>2. Total(logs, Values) = Over(Valued, Picked(history, T))
  BY SignedAreInt, TotalFiltered DEF Valued
<1> HIDE DEF logs
<1>3. Moved(logs) = Over(Valued, Picked(history, T))
  BY <1>1, <1>2, MovedIsTotal
<1> QED
  BY <1>3 DEF logs

\* What an account met with.
Its(a) == {i \in DOMAIN events : events[i].account = a}
Span(a, b) == {<<a, c>> : c \in FromBlock..b}

LEMMA SpanHas ==
  ASSUME NEW a, NEW b, NEW x, NEW c \in FromBlock..ToBlock
  PROVE  <<x, c>> \in Span(a, b) <=> x = a /\ c <= b
  BY PraedaAssumption DEF Span

LEMMA UntilIsInt == ASSUME NEW b PROVE Until(b) \in [Crossings -> Int]
<1>1. \A e \in Crossings : e.dv \in Int
  BY DEF Crossings
<1> QED
  BY <1>1 DEF Until

LEMMA SumOfItsEvents ==
  ASSUME events \in Seq(Crossings), NEW a
  PROVE  /\ EventsOf(a) \in Seq(Crossings)
         /\ SumOf(EventsOf(a)) = Over(Worth(events, Signed), Its(a))
         /\ \A b : Total(EventsOf(a), Until(b)) = Total(events, Counted(Span(a, b)))
<1> DEFINE T == {e \in ToSet(events) : e.account = a}
           s == Filter(events, T)
           D == DOMAIN events
<1>1. EventsOf(a) = s
  BY DEF EventsOf
<1>2. Picked(events, T) = Its(a) /\ Its(a) \in SUBSET D
  BY DEF Picked, ToSet, Its
<1>3. \A i \in D : events[i] \in Crossings /\ events[i].dv \in Int
                   /\ events[i].block \in FromBlock..ToBlock
  <2>1. \A i \in D : events[i] \in Crossings
    OBVIOUS
  <2> QED
    BY <2>1 DEF Crossings
<1> HIDE DEF T
<1>4. s \in Seq(Crossings)
  BY FilterInOrder
<1>5. \A v \in [Crossings -> Int] : Total(s, v) = Over(Worth(events, v), Its(a))
  <2> SUFFICES ASSUME NEW v \in [Crossings -> Int]
               PROVE  Total(s, v) = Over(Worth(events, v), Its(a))
    OBVIOUS
  <2>1. Total(s, v) = Over(Worth(events, v), Picked(events, T))
    BY TotalFiltered
  <2> QED
    BY <1>2, <2>1, Zenon
<1> HIDE DEF s
<1>6. SumOf(EventsOf(a)) = Over(Worth(events, Signed), Its(a))
  BY <1>1, <1>4, <1>5, SumOfIsTotal, SignedAreInt
<1>7. IsFiniteSet(D)
  BY SignedAreInt, WorthIsInt
<1>8. ASSUME NEW b
      PROVE  Total(s, Until(b)) = Total(events, Counted(Span(a, b)))
  <2> DEFINE w == Worth(events, Counted(Span(a, b)))
             x == Worth(events, Until(b))
  <2>1. Until(b) \in [Crossings -> Int] /\ Counted(Span(a, b)) \in [Crossings -> Int]
    BY UntilIsInt, WorthsAreInt
  <2>2. \A i \in D : w[i] = IF events[i].account = a /\ events[i].block <= b THEN events[i].dv ELSE 0
    <3> SUFFICES ASSUME NEW i \in D
                 PROVE  w[i] = IF events[i].account = a /\ events[i].block <= b THEN events[i].dv ELSE 0
      OBVIOUS
    <3> DEFINE e == events[i]
               A == Span(a, b)
    <3>1. e \in Crossings /\ e.block \in FromBlock..ToBlock
      BY <1>3
    <3>2. w[i] = Counted(A)[e]
      BY DEF Worth
    <3> HIDE DEF e, A, w
    <3>3. w[i] = IF <<e.account, e.block>> \in A THEN e.dv ELSE 0
      BY <3>1, <3>2 DEF Counted
    <3>4. <<e.account, e.block>> \in A <=> e.account = a /\ e.block <= b
      BY <3>1, SpanHas DEF A
    <3> QED
      BY <3>3, <3>4 DEF e
  <2>3. \A i \in D : x[i] = IF events[i].block <= b THEN events[i].dv ELSE 0
    BY <1>3 DEF Worth, Until
  <2> HIDE DEF w, x, D
  <2>4. \A i \in D : w[i] \in Int
    BY <1>3, <2>2
  <2>5. \A i \in Its(a) : w[i] = x[i]
    BY <1>2, <2>2, <2>3 DEF Its
  <2>6. \A i \in D \ Its(a) : w[i] = 0
    BY <2>2 DEF Its, D
  <2>7. OnlyOn(Its(a), D, w, x)
    BY <1>2, <2>4, <2>5, <2>6 DEF OnlyOn
  <2>8. Over(w, D) = Over(x, Its(a))
    BY <1>7, <2>7, OverPart
  <2>9. Total(s, Until(b)) = Over(x, Its(a))
    BY <1>5, <2>1 DEF x
  <2> QED
    BY <2>8, <2>9, Zenon DEF w, D, Total
<1> QED
  BY <1>1, <1>4, <1>6, <1>8

LEMMA AllOfThem ==
  ASSUME NEW s \in Seq(Crossings)
  PROVE  Total(s, Until(ToBlock)) = SumOf(s)
<1>1. \A i \in DOMAIN s : s[i] \in Crossings
  OBVIOUS
<1>2. \A i \in DOMAIN s : s[i].block <= ToBlock
  BY <1>1, PraedaAssumption DEF Crossings
<1>3. Worth(s, Until(ToBlock)) = Worth(s, Signed)
  BY <1>1, <1>2 DEF Worth, Until, Signed
<1> QED
  BY <1>3, SumOfIsTotal DEF Total

LEMMA NotMetNothing ==
  ASSUME events \in Seq(Crossings), NEW a, a \notin Met, NEW b
  PROVE  Total(events, Counted(Span(a, b))) = 0
<1> DEFINE A == Span(a, b)
           w == Worth(events, Counted(A))
           D == DOMAIN events
<1>1. \A i \in D : events[i] \in Crossings /\ events[i].account # a
  BY DEF Met
<1>2. \A i \in D : <<events[i].account, events[i].block>> \notin A
  BY <1>1 DEF Span
<1> HIDE DEF A
<1>3. \A i \in D : w[i] = 0
  BY <1>1, <1>2 DEF Worth, Counted
<1>4. IsFiniteSet(D)
  BY SignedAreInt, WorthIsInt
<1> HIDE DEF w, D
<1>5. Over(w, D) = 0
  BY <1>3, <1>4, OverZeros
<1> QED
  BY <1>5 DEF w, D, A, Total

\* The transfers of the window that left the boundary for these accounts, and came from them.
LeftFor(A) == {i \in DOMAIN history :
  history[i].from \in Boundary /\ <<history[i].to, history[i].block>> \in A}
CameFrom(A) == {i \in DOMAIN history :
  history[i].to \in Boundary /\ <<history[i].from, history[i].block>> \in A}
\* ... and those that stayed within it.
Within == {i \in DOMAIN history : history[i].from \in Boundary /\ history[i].to \in Boundary}

LEMMA HistoryIsFinite ==
  ASSUME history \in Seq(Transfers)
  PROVE  /\ IsFiniteSet(DOMAIN history)
         /\ \A i \in DOMAIN history :
              /\ history[i] \in Transfers
              /\ history[i].block \in FromBlock..ToBlock
              /\ history[i].from \in Accounts /\ history[i].to \in Accounts
              /\ history[i].value \in Int /\ -history[i].value \in Int
              /\ Valued[i] = history[i].value /\ Valued[i] \in Int
<1>1. IsFiniteSet(DOMAIN history)
  BY SignedAreInt, WorthIsInt
<1>2. \A i \in DOMAIN history : history[i] \in Transfers
  OBVIOUS
<1>3. \A i \in DOMAIN history : Valued[i] = history[i].value
  BY <1>2, SignedAreInt DEF Valued, Worth
<1>4. \A t \in Transfers : /\ t.block \in FromBlock..ToBlock /\ t.from \in Accounts /\ t.to \in Accounts
                           /\ t.value \in Int /\ -t.value \in Int
  BY DEF Transfers
<1> QED
  BY <1>1, <1>2, <1>3, <1>4

\* When all of it is fetched.
LEMMA GainsAre ==
  ASSUME history \in Seq(Transfers), evmPc = "code", NEW A \in SUBSET Moments
  PROVE  /\ Gains(A) = Over(Valued, LeftFor(A)) - Over(Valued, CameFrom(A))
         /\ Over(Valued, LeftFor(A)) \in Int /\ Over(Valued, CameFrom(A)) \in Int
<1> DEFINE L == Left(ToBlock + 1)
           C == Came(ToBlock + 1)
           w == Worth(history, OutWorth(A))
           x == Worth(history, InWorth(A))
           y == [i \in DOMAIN history |-> -history[i].value]
           Out(i) == <<history[i].to, history[i].block>> \in A
           In(i) == <<history[i].from, history[i].block>> \in A
<1>1. OutLimit = ToBlock + 1 /\ InLimit = ToBlock + 1
  BY DEF OutLimit, InLimit
<1>2. Gains(A) = Over(w, L) + Over(x, C)
  BY <1>1 DEF Gains
<1>3. /\ L \subseteq DOMAIN history /\ C \subseteq DOMAIN history
      /\ LeftFor(A) \subseteq DOMAIN history /\ CameFrom(A) \subseteq DOMAIN history
  BY DEF Left, Came, LeftFor, CameFrom
<1>4. IsFiniteSet(L) /\ IsFiniteSet(C) /\ IsFiniteSet(LeftFor(A)) /\ IsFiniteSet(CameFrom(A))
  BY <1>3, HistoryIsFinite, FS_Subset
<1>5. \A i \in DOMAIN history :
        /\ w[i] = IF Out(i) THEN history[i].value ELSE 0
        /\ x[i] = IF In(i) THEN -history[i].value ELSE 0
        /\ y[i] = -history[i].value
  BY HistoryIsFinite DEF Worth, OutWorth, InWorth
<1>6. \A i \in DOMAIN history : history[i].block < ToBlock + 1
  BY HistoryIsFinite, PraedaAssumption
<1>7. LeftFor(A) = {i \in L : Out(i)} /\ CameFrom(A) = {i \in C : In(i)}
  BY <1>6 DEF Left, Came, LeftFor, CameFrom
<1> HIDE DEF L, C, w, x, y, Out, In
<1>8. Over(w, L) = Over(Valued, LeftFor(A))
  <2>1. OnlyOn(LeftFor(A), L, w, Valued)
    BY <1>3, <1>5, <1>7, HistoryIsFinite DEF OnlyOn
  <2> QED
    BY <1>4, <2>1, OverPart
<1>9. Over(x, C) = Over(y, CameFrom(A))
  <2>1. OnlyOn(CameFrom(A), C, x, y)
    BY <1>3, <1>5, <1>7, HistoryIsFinite DEF OnlyOn
  <2> QED
    BY <1>4, <2>1, OverPart
<1>10. Over(Valued, CameFrom(A)) \in Int /\ Over(y, CameFrom(A)) = -Over(Valued, CameFrom(A))
  <2>1. \A i \in CameFrom(A) : Valued[i] \in Int /\ y[i] = -Valued[i]
    BY <1>3, <1>5, HistoryIsFinite
  <2> QED
    BY <1>4, <2>1, OverNegative
<1>11. Over(Valued, LeftFor(A)) \in Int
  <2>1. \A i \in LeftFor(A) : Valued[i] \in Int
    BY <1>3, HistoryIsFinite
  <2> QED
    BY <1>4, <2>1, OverIsInt
<1> QED
  BY <1>2, <1>8, <1>9, <1>10, <1>11

\* ... as the chain has it for one account ...
LEMMA GainsAreTaken ==
  ASSUME history \in Seq(Transfers), evmPc = "code", NEW a \in Outside,
         NEW b \in FromBlock..ToBlock
  PROVE  Gains(Span(a, b)) = NetTaken(a, b) /\ NetTaken(a, b) \in Int
<1> DEFINE took == {t \in ToSet(history) : t.from \in Boundary /\ t.to = a /\ t.block <= b}
           gave == {t \in ToSet(history) : t.to \in Boundary /\ t.from = a /\ t.block <= b}
           A == Span(a, b)
<1>1. \A i \in DOMAIN history : \A x : <<x, history[i].block>> \in A <=> x = a /\ history[i].block <= b
  <2> SUFFICES ASSUME NEW i \in DOMAIN history, NEW x
               PROVE  <<x, history[i].block>> \in A <=> x = a /\ history[i].block <= b
    OBVIOUS
  <2> DEFINE c == history[i].block
  <2>1. c \in FromBlock..ToBlock
    BY HistoryIsFinite
  <2> HIDE DEF c
  <2>2. <<x, c>> \in A <=> x = a /\ c <= b
    BY <2>1, SpanHas
  <2> QED
    BY <2>2 DEF c
<1> HIDE DEF A
<1>2. Picked(history, took) = LeftFor(A) /\ Picked(history, gave) = CameFrom(A)
  BY <1>1 DEF Picked, LeftFor, CameFrom, ToSet
<1>3. NetTaken(a, b) = Moved(Filter(history, took)) - Moved(Filter(history, gave))
  BY DEF NetTaken
<1> HIDE DEF took, gave
<1>4. /\ Moved(Filter(history, took)) = Over(Valued, LeftFor(A))
      /\ Moved(Filter(history, gave)) = Over(Valued, CameFrom(A))
  <2>1. /\ Moved(Filter(history, took)) = Over(Valued, Picked(history, took))
        /\ Moved(Filter(history, gave)) = Over(Valued, Picked(history, gave))
    BY MovedOfSome
  <2> QED
    BY <1>2, <2>1, Zenon
<1>5. A \in SUBSET Moments
  BY PraedaAssumption DEF A, Span, Moments
<1>6. /\ Gains(A) = Over(Valued, LeftFor(A)) - Over(Valued, CameFrom(A))
      /\ Over(Valued, LeftFor(A)) \in Int /\ Over(Valued, CameFrom(A)) \in Int
  BY <1>5, GainsAre
<1>7. Gains(A) = NetTaken(a, b) /\ NetTaken(a, b) \in Int
  BY <1>3, <1>4, <1>6
<1> QED
  BY <1>7 DEF A

\* ... and for all of them: what moved within the boundary left it as it was.
LEMMA GainsAreLost ==
  ASSUME history \in Seq(Transfers), evmPc = "code"
  PROVE  Gains(Moments) = Reserve - BalanceAt(ToBlock)
<1> DEFINE A == LeftFor(Moments)
           B == CameFrom(Moments)
           I == Within
           out == {t \in ToSet(history) : t.block \in FromBlock..ToBlock /\ t.from \in Boundary}
           in == {t \in ToSet(history) : t.block \in FromBlock..ToBlock /\ t.to \in Boundary}
<1>1. /\ Picked(history, out) = A \cup I /\ A \cap I = {}
      /\ Picked(history, in) = B \cup I /\ B \cap I = {}
  <2>1. \A i \in DOMAIN history : /\ history[i].block \in FromBlock..ToBlock
                                  /\ history[i].from \in Accounts /\ history[i].to \in Accounts
    BY HistoryIsFinite
  <2>2. \A i \in DOMAIN history :
          /\ <<history[i].to, history[i].block>> \in Moments <=> history[i].to \notin Boundary
          /\ <<history[i].from, history[i].block>> \in Moments <=> history[i].from \notin Boundary
    BY <2>1 DEF Moments, Outside
  <2> QED
    BY <2>1, <2>2 DEF Picked, LeftFor, CameFrom, Within, ToSet
<1>2. /\ Moved(Logs("out", FromBlock, ToBlock)) = Over(Valued, A \cup I)
      /\ Moved(Logs("in", FromBlock, ToBlock)) = Over(Valued, B \cup I)
  <2>1. Logs("out", FromBlock, ToBlock) = Filter(history, out)
    BY DEF Logs
  <2>2. Logs("in", FromBlock, ToBlock) = Filter(history, in)
    BY DEF Logs
  <2> HIDE DEF out, in, A, B, I
  <2>3. /\ Moved(Filter(history, out)) = Over(Valued, Picked(history, out))
        /\ Moved(Filter(history, in)) = Over(Valued, Picked(history, in))
    BY MovedOfSome
  <2> QED
    BY <1>1, <2>1, <2>2, <2>3, Zenon
<1>3. IsFiniteSet(A) /\ IsFiniteSet(B) /\ IsFiniteSet(I)
  <2>1. A \subseteq DOMAIN history /\ B \subseteq DOMAIN history /\ I \subseteq DOMAIN history
    BY DEF LeftFor, CameFrom, Within
  <2> HIDE DEF A, B, I
  <2> QED
    BY <2>1, HistoryIsFinite, FS_Subset
<1>4. (\A i \in A \cup I : Valued[i] \in Int) /\ (\A i \in B \cup I : Valued[i] \in Int)
  BY HistoryIsFinite DEF LeftFor, CameFrom, Within
<1>5. Gains(Moments) = Over(Valued, A) - Over(Valued, B) /\ Over(Valued, A) \in Int /\ Over(Valued, B) \in Int
  <2>1. Moments \in SUBSET Moments
    OBVIOUS
  <2> QED
    BY <2>1, GainsAre
<1>6. BalanceAt(ToBlock) = Reserve - Moved(Logs("out", FromBlock, ToBlock))
                             + Moved(Logs("in", FromBlock, ToBlock))
  BY DEF BalanceAt
<1> HIDE DEF A, B, I
<1>7. Over(Valued, A \cup I) = Over(Valued, A) + Over(Valued, I)
  BY <1>1, <1>3, <1>4, OverUnion
<1>8. Over(Valued, B \cup I) = Over(Valued, B) + Over(Valued, I)
  BY <1>1, <1>3, <1>4, OverUnion
<1>9. Over(Valued, I) \in Int
  BY <1>3, <1>4, OverIsInt
<1> QED
  BY <1>2, <1>5, <1>6, <1>7, <1>8, <1>9, PraedaAssumption

\* The rows add up to all that was fetched.
LEMMA RowsAddUp ==
  ASSUME events \in Seq(Crossings), NEW made, RowPerAccount(made),
         \A i \in 1..Len(events) : events[i].account \in Outside
  PROVE  /\ SumFunction([r \in made |-> r.E]) = Total(events, Counted(Moments))
         /\ \A r \in made : r.E \in Int
<1> DEFINE x == [r \in made |-> r.E]
           D == DOMAIN events
           w == Worth(events, Signed)
           rowOf == [a \in Met |-> CHOOSE r \in made : r.account = a]
           g == [i \in D |-> rowOf[events[i].account]]
<1>1. /\ D = 1..Len(events) /\ IsFiniteSet(D)
      /\ \A i \in D : events[i] \in Crossings /\ w[i] \in Int /\ w[i] = Signed[events[i]]
  <2>1. Signed \in [Crossings -> Int]
    BY SignedAreInt
  <2> QED
    BY <2>1, WorthIsInt
<1>2. \A a \in Met : rowOf[a] \in made /\ rowOf[a].account = a
  BY DEF RowPerAccount
<1> HIDE DEF rowOf
<1>3. \A i \in D : g[i] \in made /\ g[i].account = events[i].account
  BY <1>2 DEF Met
<1>4. \A r \in made : x[r] = Over(w, {i \in D : g[i] = r})
  <2> SUFFICES ASSUME NEW r \in made
               PROVE  x[r] = Over(w, {i \in D : g[i] = r})
    OBVIOUS
  <2>1. \A i \in D : g[i] = r <=> events[i].account = r.account
    BY <1>3 DEF RowPerAccount
  <2>2. {i \in D : g[i] = r} = Its(r.account)
    BY <2>1 DEF Its
  <2>3. x[r] = SumOf(EventsOf(r.account))
    BY DEF RowPerAccount
  <2>4. SumOf(EventsOf(r.account)) = Over(w, Its(r.account))
    BY SumOfItsEvents
  <2> QED
    BY <2>2, <2>3, <2>4, Zenon
<1>5. Over(x, made) = Over(w, D)
  <2> HIDE DEF x, w, D, g
  <2>1. SumsParts(x, made, w, g, D)
    BY <1>4 DEF SumsParts
  <2>2. \A i \in D : g[i] \in made /\ w[i] \in Int
    BY <1>1, <1>3
  <2>3. IsFiniteSet(made)
    BY DEF RowPerAccount
  <2> QED
    BY <1>1, <2>1, <2>2, <2>3, OverParts
<1>6. SumFunction(x) = Over(x, made)
  <2>1. DOMAIN x = made
    OBVIOUS
  <2> HIDE DEF x
  <2> QED
    BY <2>1, SumIsIter DEF Over
<1>7. Over(w, D) = Total(events, Counted(Moments))
  <2> DEFINE y == Worth(events, Counted(Moments))
  <2>1. \A i \in D : w[i] = y[i]
    <3>1. \A i \in D : events[i].block \in FromBlock..ToBlock
      BY <1>1 DEF Crossings
    <3>2. \A i \in D : <<events[i].account, events[i].block>> \in Moments
      BY <1>1, <3>1 DEF Moments
    <3> QED
      BY <1>1, <3>2, SignedAreInt DEF Worth, Counted
  <2> HIDE DEF y, w, D
  <2>2. Over(w, D) = Over(y, D)
    BY <1>1, <2>1, OverSame
  <2> QED
    BY <2>2, Zenon DEF y, D, Total
<1>8. \A r \in made : r.E \in Int
  <2> SUFFICES ASSUME NEW r \in made
               PROVE  r.E \in Int
    OBVIOUS
  <2>1. r.E = Over(w, {i \in D : g[i] = r})
    BY <1>4
  <2> DEFINE P == {i \in D : g[i] = r}
  <2>2. P \subseteq D
    OBVIOUS
  <2> HIDE DEF P, w
  <2>3. IsFiniteSet(P)
    BY <1>1, <2>2, FS_Subset
  <2>4. Over(w, P) \in Int
    BY <1>1, <2>2, <2>3, OverIsInt
  <2> QED
    BY <2>1, <2>4 DEF P
<1> QED
  BY <1>5, <1>6, <1>7, <1>8

\* The clusters add up to the rows.
LEMMA ClustersAddUp ==
  ASSUME NEW made, IsFiniteSet(made), \A r \in made : r.E \in Int, NEW failed
  PROVE  /\ SumFunction([c \in ClustersOf(made, failed) |-> c.E]) = SumFunction([r \in made |-> r.E])
         /\ \A c \in ClustersOf(made, failed) :
              c.fp # "eoa" => \A a \in c.members : Code[a] = c.fp
<1> DEFINE w == [r \in made |-> r.E]
           group(f) == {r \in made : Fingerprint(r.account, failed) = f}
           part(f) == [r \in group(f) |-> r.E]
           cluster(f) == [fp |-> f, members |-> {r.account : r \in group(f)},
                          E |-> SumFunction(part(f))]
           clusters == ClustersOf(made, failed)
           x == [c \in clusters |-> c.E]
           g == [r \in made |-> cluster(Fingerprint(r.account, failed))]
<1>1. clusters = {cluster(f) : f \in {Fingerprint(r.account, failed) : r \in made}}
  BY DEF ClustersOf
<1>2. \A f : /\ cluster(f).fp = f /\ cluster(f).members = {r.account : r \in group(f)}
             /\ cluster(f).E = SumFunction(part(f))
  OBVIOUS
<1>3. \A f : SumFunction(part(f)) = Over(w, group(f))
  <2> SUFFICES ASSUME NEW f
               PROVE  SumFunction(part(f)) = Over(w, group(f))
    OBVIOUS
  <2> DEFINE G == group(f)
             p == part(f)
  <2>1. DOMAIN p = G /\ G \subseteq made /\ \A r \in G : p[r] = w[r]
    OBVIOUS
  <2>2. IsFiniteSet(G)
    BY <2>1, FS_Subset
  <2> HIDE DEF G, p, w
  <2>3. SumFunction(p) = Over(p, G)
    BY <2>1, SumIsIter DEF Over
  <2>4. Over(p, G) = Over(w, G)
    BY <2>1, <2>2, OverSame
  <2> QED
    BY <2>3, <2>4 DEF G, p
<1> HIDE DEF cluster, clusters
<1>4. \A r \in made : g[r] \in clusters /\ g[r].fp = Fingerprint(r.account, failed)
  BY <1>1, <1>2
<1>5. \A c \in clusters : c = cluster(c.fp) /\ c.E = Over(w, group(c.fp))
                          /\ c.members = {r.account : r \in group(c.fp)}
  <2> SUFFICES ASSUME NEW c \in clusters
               PROVE  /\ c = cluster(c.fp) /\ c.E = Over(w, group(c.fp))
                      /\ c.members = {r.account : r \in group(c.fp)}
    OBVIOUS
  <2>1. PICK f : c = cluster(f)
    BY <1>1
  <2> HIDE DEF group, part, w
  <2>2. c.fp = f /\ c.members = {r.account : r \in group(f)} /\ c.E = SumFunction(part(f))
    BY <1>2, <2>1
  <2>3. c.E = Over(w, group(f))
    BY <1>3, <2>2
  <2> QED
    BY <2>1, <2>2, <2>3
<1>6. \A c \in clusters : x[c] = Over(w, {r \in made : g[r] = c})
  <2> SUFFICES ASSUME NEW c \in clusters
               PROVE  x[c] = Over(w, {r \in made : g[r] = c})
    OBVIOUS
  <2>1. \A r \in made : g[r] = c <=> Fingerprint(r.account, failed) = c.fp
    BY <1>2, <1>4, <1>5
  <2>2. {r \in made : g[r] = c} = group(c.fp)
    BY <2>1
  <2> QED
    BY <1>5, <2>2, Zenon
<1>7. IsFiniteSet(clusters)
  <2>1. clusters = {g[r] : r \in made}
    BY <1>1
  <2> HIDE DEF g
  <2> QED
    BY <2>1, ImageIsFinite
<1>8. DOMAIN x = clusters /\ DOMAIN w = made /\ \A r \in made : w[r] \in Int
  OBVIOUS
<1>9. \A c \in clusters : c.fp # "eoa" => \A a \in c.members : Code[a] = c.fp
  <2> SUFFICES ASSUME NEW c \in clusters, c.fp # "eoa", NEW a \in c.members
               PROVE  Code[a] = c.fp
    OBVIOUS
  <2>1. c.members = {r.account : r \in group(c.fp)}
    BY <1>5
  <2>2. PICK r \in group(c.fp) : a = r.account
    BY <2>1
  <2>3. Fingerprint(a, failed) = c.fp
    BY <2>2
  <2> QED
    BY <2>3 DEF Fingerprint
<1> HIDE DEF x, w, g
<1>10. Over(x, clusters) = Over(w, made)
  <2>1. SumsParts(x, clusters, w, g, made)
    BY <1>6 DEF SumsParts
  <2>2. \A r \in made : g[r] \in clusters /\ w[r] \in Int
    BY <1>4, <1>8
  <2> QED
    BY <1>7, <2>1, <2>2, OverParts
<1>11. SumFunction(x) = Over(x, clusters) /\ SumFunction(w) = Over(w, made)
  BY <1>8, SumIsIter DEF Over
<1> QED
  BY <1>9, <1>10, <1>11 DEF x, w, clusters

-----------------------------------------------------------------------------
(* Running sums. *)

\* The sum of the first i.
RunOf(s, i) == Over(Worth(s, Signed), 1..i)

LEMMA SignedWorths ==
  ASSUME NEW s \in Seq(Crossings)
  PROVE  /\ Len(s) \in Nat /\ DOMAIN s = 1..Len(s)
         /\ \A i \in 1..Len(s) : /\ s[i] \in Crossings /\ s[i].dv \in Int
                                 /\ s[i].block \in FromBlock..ToBlock
                                 /\ Worth(s, Signed)[i] = s[i].dv
         /\ \A i \in 0..Len(s) : RunOf(s, i) \in Int
         /\ RunOf(s, 0) = 0 /\ RunOf(s, Len(s)) = Total(s, Signed)
<1> DEFINE W == Worth(s, Signed)
<1>1. Len(s) \in Nat /\ DOMAIN s = 1..Len(s) /\ \A i \in 1..Len(s) : s[i] \in Crossings
  OBVIOUS
<1>2. \A e \in Crossings : e.dv \in Int /\ e.block \in FromBlock..ToBlock
  BY DEF Crossings
<1>3. \A i \in 1..Len(s) : W[i] = s[i].dv
  BY <1>1, SignedAreInt DEF Worth
<1>4. ASSUME NEW i \in 0..Len(s)
      PROVE  RunOf(s, i) \in Int
  <2>1. IsFiniteSet(1..i)
    BY FS_Interval
  <2>2. \A k \in 1..i : W[k] \in Int
    BY <1>1, <1>2, <1>3
  <2> HIDE DEF W
  <2>3. Over(W, 1..i) \in Int
    BY <2>1, <2>2, OverIsInt
  <2> QED
    BY <2>3 DEF RunOf, W
<1>5. RunOf(s, 0) = 0
  <2>1. 1..0 = {}
    OBVIOUS
  <2> QED
    BY <2>1, OverNothing DEF RunOf
<1>6. RunOf(s, Len(s)) = Total(s, Signed)
  BY <1>1, Zenon DEF RunOf, Total
<1> QED
  BY <1>1, <1>2, <1>3, <1>4, <1>5, <1>6

LEMMA RunMore ==
  ASSUME NEW s \in Seq(Crossings), NEW i \in Nat, i + 1 <= Len(s)
  PROVE  RunOf(s, i + 1) = RunOf(s, i) + s[i + 1].dv
<1> DEFINE W == Worth(s, Signed)
<1>1. \A k \in 1..i + 1 : W[k] \in Int /\ W[k] = s[k].dv
  BY SignedWorths
<1> HIDE DEF W
<1>2. Over(W, 1..i + 1) = Over(W, 1..i) + W[i + 1]
  BY <1>1, OverNext
<1>3. W[i + 1] = s[i + 1].dv
  BY <1>1
<1> QED
  BY <1>2, <1>3 DEF RunOf, W

\* As the code adds them up.
LEMMA RunIsSum ==
  ASSUME NEW s \in Seq(Crossings), NEW i \in 0..Len(s)
  PROVE  SumOf(SubSeq(s, 1, i)) = RunOf(s, i)
<1> DEFINE t == SubSeq(s, 1, i)
<1>1. t \in Seq(Crossings) /\ Len(t) = i /\ \A k \in 1..i : t[k] = s[k]
  BY SubSeqProperties
<1> HIDE DEF t
<1>2. SumOf(t) = Over(Worth(t, Signed), 1..i)
  <2>1. DOMAIN t = 1..i
    BY <1>1
  <2> QED
    BY <1>1, <2>1, SumOfIsTotal, Zenon DEF Total
<1>3. Over(Worth(t, Signed), 1..i) = Over(Worth(s, Signed), 1..i)
  <2>1. \A k \in 1..i : Worth(t, Signed)[k] = Worth(s, Signed)[k]
    BY <1>1, SignedWorths
  <2>2. IsFiniteSet(1..i)
    BY FS_Interval
  <2> QED
    BY <2>1, <2>2, OverSame
<1> QED
  BY <1>2, <1>3 DEF RunOf, t

\* What is appended adds to the sum of what was there.
RunsOn(u, s, t) ==
  /\ \A i \in 0..Len(s) : RunOf(u, i) = RunOf(s, i)
  /\ \A i \in 0..Len(t) : RunOf(u, Len(s) + i) = RunOf(s, Len(s)) + RunOf(t, i)

LEMMA RunOfConcat ==
  ASSUME NEW s \in Seq(Crossings), NEW t \in Seq(Crossings), NEW u, u = s \o t
  PROVE  RunsOn(u, s, t)
<1> DEFINE n == Len(s)
           m == Len(t)
<1>1. /\ n \in Nat /\ m \in Nat /\ u \in Seq(Crossings) /\ Len(u) = n + m
      /\ \A i \in 1..n : u[i] = s[i]
      /\ \A i \in 1..m : u[n + i] = t[i]
  OBVIOUS
<1> HIDE DEF n, m
<1>2. ASSUME NEW i \in 0..n
      PROVE  RunOf(u, i) = RunOf(s, i)
  <2>1. \A k \in 1..i : Worth(u, Signed)[k] = Worth(s, Signed)[k]
    <3>1. \A k \in 1..Len(u) : Worth(u, Signed)[k] = u[k].dv
      BY <1>1, SignedWorths
    <3>2. \A k \in 1..n : Worth(s, Signed)[k] = s[k].dv
      BY SignedWorths DEF n
    <3> SUFFICES ASSUME NEW k \in 1..i
                 PROVE  Worth(u, Signed)[k] = Worth(s, Signed)[k]
      OBVIOUS
    <3>3. k \in 1..n /\ k \in 1..Len(u)
      BY <1>1
    <3>4. Worth(u, Signed)[k] = u[k].dv /\ Worth(s, Signed)[k] = s[k].dv /\ u[k] = s[k]
      BY <1>1, <3>1, <3>2, <3>3
    <3> QED
      BY <3>4
  <2>2. IsFiniteSet(1..i)
    BY FS_Interval
  <2> QED
    BY <2>1, <2>2, OverSame DEF RunOf
<1> DEFINE Reach == {i \in Nat : i <= m => RunOf(u, n + i) = RunOf(s, n) + RunOf(t, i)}
<1>3. 0 \in Reach
  <2>1. n + 0 = n /\ RunOf(u, n) = RunOf(s, n) /\ RunOf(t, 0) = 0 /\ RunOf(s, n) \in Int
    BY <1>1, <1>2, SignedWorths DEF n
  <2> QED
    BY <2>1
<1>4. \A i \in Nat : i \in Reach => i + 1 \in Reach
  <2> SUFFICES ASSUME NEW i \in Nat, i \in Reach, i + 1 <= m
               PROVE  RunOf(u, n + (i + 1)) = RunOf(s, n) + RunOf(t, i + 1)
    OBVIOUS
  <2> DEFINE k == n + i
  <2>1. k \in Nat /\ k + 1 <= Len(u) /\ n + (i + 1) = k + 1 /\ u[k + 1] = t[i + 1]
    <3>1. i + 1 \in 1..m
      OBVIOUS
    <3>2. u[n + (i + 1)] = t[i + 1]
      BY <1>1, <3>1
    <3> QED
      BY <1>1, <3>2
  <2>2. RunOf(u, k) = RunOf(s, n) + RunOf(t, i)
    BY <1>1, <2>1
  <2> HIDE DEF k, Reach
  <2>3. RunOf(u, k + 1) = RunOf(u, k) + u[k + 1].dv
    BY <1>1, <2>1, RunMore
  <2>4. RunOf(t, i + 1) = RunOf(t, i) + t[i + 1].dv
    BY RunMore DEF m
  <2>5. RunOf(t, i) \in Int /\ t[i + 1].dv \in Int /\ RunOf(s, n) \in Int
    BY <1>1, SignedWorths DEF m, n
  <2>6. RunOf(u, k + 1) = RunOf(s, n) + RunOf(t, i + 1)
    BY <2>1, <2>2, <2>3, <2>4, <2>5
  <2> QED
    BY <2>1, <2>6
<1>5. Nat \subseteq Reach
  <2> HIDE DEF Reach
  <2> QED
    BY <1>3, <1>4, NatByInduction
<1>6. ASSUME NEW i \in 0..m
      PROVE  RunOf(u, n + i) = RunOf(s, n) + RunOf(t, i)
  BY <1>5
<1> QED
  BY <1>2, <1>6 DEF n, m, RunsOn

\* Nothing is received any more once something was given.
OutsFirst(s) == \A i, j \in 1..Len(s) : i <= j /\ s[i].dv < 0 => s[j].dv <= 0

\* Up and then down: never lower than at either end.
LEMMA LowestAtEnds ==
  ASSUME NEW s \in Seq(Crossings), OutsFirst(s), NEW i \in 0..Len(s)
  PROVE  RunOf(s, i) >= 0 \/ RunOf(s, i) >= Total(s, Signed)
<1> DEFINE W == Worth(s, Signed)
           n == Len(s)
           A == 1..i
           B == i + 1..n
<1>1. /\ n \in Nat /\ \A k \in 1..n : W[k] = s[k].dv /\ W[k] \in Int
      /\ RunOf(s, i) \in Int /\ RunOf(s, n) = Total(s, Signed)
  BY SignedWorths
<1> DEFINE zero == [k \in 1..n |-> 0]
<1>2. /\ IsFiniteSet(A) /\ IsFiniteSet(B) /\ A \cup B = 1..n /\ A \cap B = {}
      /\ A \subseteq 1..n /\ B \subseteq 1..n
  <2>1. i + 1 \in Int /\ i \in Int /\ n \in Int
    BY <1>1
  <2>2. IsFiniteSet(A) /\ IsFiniteSet(B)
    BY <2>1, FS_Interval
  <2> QED
    BY <1>1, <2>2
<1>3. \A k \in 1..n : zero[k] = 0
  OBVIOUS
<1>4. CASE \A k \in A : W[k] >= 0
  <2> HIDE DEF A, W, zero
  <2>1. \A k \in A : zero[k] \in Int /\ W[k] \in Int /\ zero[k] <= W[k]
    BY <1>1, <1>2, <1>3, <1>4
  <2>2. Over(zero, A) \in Int /\ Over(W, A) \in Int /\ Over(zero, A) <= Over(W, A)
    BY <1>2, <2>1, OverGrows
  <2>3. Over(zero, A) = 0
    <3>1. \A k \in A : zero[k] = 0
      BY <1>2, <1>3
    <3> QED
      BY <1>2, <3>1, OverZeros
  <2> QED
    BY <2>2, <2>3 DEF RunOf, W, A
<1>5. CASE \E k \in A : W[k] < 0
  <2>1. \A k \in B : W[k] <= 0
    <3> SUFFICES ASSUME NEW k \in B
                 PROVE  W[k] <= 0
      OBVIOUS
    <3>1. PICK l \in A : W[l] < 0
      BY <1>5
    <3>2. l \in 1..n /\ k \in 1..n /\ l <= k
      BY <1>1
    <3>3. s[l].dv < 0 /\ W[k] = s[k].dv
      BY <1>1, <3>1, <3>2
    <3> QED
      BY <3>2, <3>3 DEF OutsFirst
  <2> HIDE DEF A, B, W, zero, n
  <2>2. \A k \in B : W[k] \in Int /\ zero[k] \in Int /\ W[k] <= zero[k]
    BY <1>1, <1>2, <1>3, <2>1
  <2>3. Over(W, B) \in Int /\ Over(zero, B) \in Int /\ Over(W, B) <= Over(zero, B)
    BY <1>2, <2>2, OverGrows
  <2>4. Over(zero, B) = 0
    <3>1. \A k \in B : zero[k] = 0
      BY <1>2, <1>3
    <3> QED
      BY <1>2, <3>1, OverZeros
  <2>5. Over(W, A \cup B) = Over(W, A) + Over(W, B)
    <3>1. \A k \in A \cup B : W[k] \in Int
      BY <1>1, <1>2
    <3> QED
      BY <1>2, <3>1, OverUnion
  <2>6. RunOf(s, i) = Over(W, A) /\ RunOf(s, n) = Over(W, A \cup B)
    BY <1>2 DEF RunOf, W, A
  <2> QED
    BY <1>1, <2>3, <2>4, <2>5, <2>6
<1>6. (\A k \in A : W[k] >= 0) \/ \E k \in A : W[k] < 0
  <2>1. \A k \in A : W[k] \in Int
    BY <1>1, <1>2
  <2> HIDE DEF W, A
  <2> QED
    BY <2>1
<1> QED
  BY <1>4, <1>5, <1>6

LEMMA FilterKeepsOuts ==
  ASSUME NEW s \in Seq(Crossings), OutsFirst(s), NEW T
  PROVE  OutsFirst(Filter(s, T))
<1> DEFINE r == Filter(s, T)
<1>1. KeptFrom(r, s, T, Len(s))
  BY FilterInOrder
<1> HIDE DEF r
<1>2. ASSUME NEW i \in 1..Len(r), NEW j \in 1..Len(r), i <= j, r[i].dv < 0
      PROVE  r[j].dv <= 0
  <2>1. PICK p \in 1..Len(s), q \in 1..Len(s) : p <= q /\ s[p] = r[i] /\ s[q] = r[j]
    BY <1>1, <1>2 DEF KeptFrom
  <2> QED
    BY <1>2, <2>1 DEF OutsFirst
<1>3. OutsFirst(r)
  BY <1>2 DEF OutsFirst
<1> QED
  BY <1>3 DEF r

-----------------------------------------------------------------------------
(* Sorted by block. *)

\* What was taken up to a block.
Taken(s, b) == Total(s, Until(b))

LEMMA TakenMore ==
  ASSUME NEW s \in Seq(Crossings), NEW b \in Int
  PROVE  /\ Taken(s, b) \in Int
         /\ Taken(s, b + 1) =
              Taken(s, b) + Total(Filter(s, {e \in ToSet(s) : e.block = b + 1}), Signed)
<1> DEFINE c == b + 1
           T == {e \in ToSet(s) : e.block = c}
           W == Worth(s, Signed)
           D == DOMAIN s
           A == {i \in D : s[i].block <= b}
           B == {i \in D : s[i].block = c}
           C == {i \in D : s[i].block <= c}
<1>1. /\ D = 1..Len(s) /\ IsFiniteSet(D)
      /\ \A i \in D : s[i] \in Crossings /\ s[i].block \in Int /\ W[i] = s[i].dv /\ W[i] \in Int
  <2>1. FromBlock..ToBlock \subseteq Int
    OBVIOUS
  <2>2. IsFiniteSet(D)
    BY SignedAreInt, WorthIsInt
  <2> QED
    BY <2>1, <2>2, SignedWorths
<1>2. \A x : \A i \in D : Worth(s, Until(x))[i] = IF s[i].block <= x THEN s[i].dv ELSE 0
  BY <1>1 DEF Worth, Until
<1>3. ASSUME NEW x
      PROVE  Taken(s, x) = Over(W, {i \in D : s[i].block <= x})
  <2> DEFINE w == Worth(s, Until(x))
             E == {i \in D : s[i].block <= x}
  <2>1. /\ E \in SUBSET D /\ \A i \in D : w[i] \in Int
        /\ \A i \in E : w[i] = W[i]
        /\ \A i \in D \ E : w[i] = 0
    BY <1>1, <1>2
  <2> HIDE DEF w, W, D, E
  <2>2. OnlyOn(E, D, w, W)
    BY <2>1 DEF OnlyOn
  <2>3. Over(w, D) = Over(W, E)
    BY <1>1, <2>2, OverPart
  <2>4. Taken(s, x) = Over(w, D)
    BY Zenon DEF Taken, Total, w, D
  <2> QED
    BY <2>3, <2>4 DEF E
<1>4. /\ A \cup B = C /\ A \cap B = {} /\ A \in SUBSET D /\ B \in SUBSET D
  BY <1>1
<1>5. IsFiniteSet(A) /\ IsFiniteSet(B)
  <2> HIDE DEF A, B, D
  <2> QED
    BY <1>1, <1>4, FS_Subset
<1>6. \A i \in A \cup B : W[i] \in Int
  BY <1>1
<1>7. Picked(s, T) = B
  BY DEF Picked, ToSet
<1>8. Taken(s, b) = Over(W, A) /\ Taken(s, c) = Over(W, C)
  BY <1>3
<1>9. Total(Filter(s, T), Signed) = Over(W, B)
  <2> HIDE DEF T, B
  <2>1. Total(Filter(s, T), Signed) = Over(Worth(s, Signed), Picked(s, T))
    BY SignedAreInt, TotalFiltered
  <2> QED
    BY <1>7, <2>1, Zenon DEF W
<1> HIDE DEF A, B, C, W, D, T
<1>10. Over(W, A \cup B) = Over(W, A) + Over(W, B)
  BY <1>4, <1>5, <1>6, OverUnion
<1>11. Over(W, A) \in Int
  BY <1>5, <1>6, OverIsInt
<1>12. Taken(s, c) = Taken(s, b) + Total(Filter(s, T), Signed) /\ Taken(s, b) \in Int
  BY <1>4, <1>8, <1>9, <1>10, <1>11
<1> QED
  BY <1>12 DEF c, T

\* Of the events up to a block, in the order of their blocks: where each block ends the sum
\* is what was taken up to it, and in between it is not lower than at both ends.
EndsAt(q, s, c, j) == RunOf(q, j) = Taken(s, c) /\ \A i \in 1..Len(q) : q[i].block <= c <=> i <= j
Between(q, s, i) == \/ RunOf(q, i) >= Taken(s, q[i].block - 1)
                    \/ RunOf(q, i) >= Taken(s, q[i].block)
InBlocks(q, s, b) ==
  /\ q \in Seq(Crossings)
  /\ \A i \in 1..Len(q) : q[i].block <= b
  /\ Total(q, Signed) = Taken(s, b)
  /\ \A c \in FromBlock..b : \E j \in 0..Len(q) : EndsAt(q, s, c, j)
  /\ \A i \in 1..Len(q) : Between(q, s, i)

LEMMA NoBlocks ==
  ASSUME NEW s \in Seq(Crossings)
  PROVE  InBlocks(<<>>, s, FromBlock - 1)
<1>1. <<>> \in Seq(Crossings) /\ Len(<<>>) = 0
  OBVIOUS
<1>2. Taken(s, FromBlock - 1) = 0
  <2> DEFINE w == Worth(s, Until(FromBlock - 1))
             D == DOMAIN s
  <2>1. \A i \in D : s[i] \in Crossings /\ ~(s[i].block <= FromBlock - 1)
    BY SignedWorths, PraedaAssumption
  <2>2. \A i \in D : w[i] = 0
    BY <2>1 DEF Worth, Until
  <2>3. IsFiniteSet(D)
    BY SignedAreInt, WorthIsInt
  <2> HIDE DEF w, D
  <2>4. Over(w, D) = 0
    BY <2>2, <2>3, OverZeros
  <2> QED
    BY <2>4, Zenon DEF Taken, Total, w, D
<1>3. Total(<<>>, Signed) = 0
  BY NothingTotals
<1>4. FromBlock..(FromBlock - 1) = {}
  BY PraedaAssumption
<1> QED
  BY <1>1, <1>2, <1>3, <1>4 DEF InBlocks

LEMMA NextBlock ==
  ASSUME NEW s \in Seq(Crossings), OutsFirst(s), NEW b \in Int, b >= FromBlock - 1,
         NEW q, InBlocks(q, s, b)
  PROVE  InBlocks(q \o Filter(s, {e \in ToSet(s) : e.block = b + 1}), s, b + 1)
<1> DEFINE c == b + 1
           T == {e \in ToSet(s) : e.block = c}
           t == Filter(s, T)
           u == q \o t
           n == Len(q)
           m == Len(t)
<1>1. q \in Seq(Crossings) /\ t \in Seq(Crossings) /\ KeptFrom(t, s, T, Len(s))
  BY FilterInOrder DEF InBlocks
<1>2. OutsFirst(t)
  BY FilterKeepsOuts
<1>3. \A i \in 1..m : t[i].block = c
  <2>1. \A i \in 1..m : t[i] \in T
    BY <1>1 DEF KeptFrom
  <2> QED
    BY <2>1
<1>4. Taken(s, b) \in Int /\ Taken(s, c) = Taken(s, b) + Total(t, Signed)
  BY TakenMore
<1> HIDE DEF t, T
<1>5. /\ n \in Nat /\ m \in Nat /\ u \in Seq(Crossings) /\ Len(u) = n + m
      /\ \A i \in 1..n : u[i] = q[i]
      /\ \A i \in 1..m : u[n + i] = t[i]
  BY <1>1
<1>6. /\ \A i \in 0..n : RunOf(u, i) = RunOf(q, i)
      /\ \A i \in 0..m : RunOf(u, n + i) = Taken(s, b) + RunOf(t, i)
  <2>1. RunOf(q, n) = Taken(s, b)
    BY <1>1, SignedWorths DEF InBlocks
  <2>2. /\ \A i \in 0..Len(q) : RunOf(u, i) = RunOf(q, i)
        /\ \A i \in 0..Len(t) : RunOf(u, Len(q) + i) = RunOf(q, Len(q)) + RunOf(t, i)
    <3>1. u = q \o t
      OBVIOUS
    <3> HIDE DEF u, n, m
    <3>2. q \in Seq(Crossings) /\ t \in Seq(Crossings)
      BY <1>1
    <3>3. RunsOn(u, q, t)
      BY <3>1, <3>2, RunOfConcat
    <3> QED
      BY <3>3 DEF RunsOn
  <2> HIDE DEF u
  <2> QED
    BY <2>1, <2>2
<1>7. /\ \A i \in 1..n : q[i].block \in Int /\ q[i].block <= b /\ Between(q, s, i)
      /\ \A d \in FromBlock..b : \E j \in 0..n : EndsAt(q, s, d, j)
  <2>1. \A i \in 1..n : q[i].block \in FromBlock..ToBlock
    BY <1>1, SignedWorths
  <2>2. (\A i \in 1..n : q[i].block <= b) /\ \A i \in 1..n : Between(q, s, i)
    BY DEF InBlocks
  <2>3. \A d \in FromBlock..b : \E j \in 0..n : EndsAt(q, s, d, j)
    BY DEF InBlocks
  <2> QED
    BY <2>1, <2>2, <2>3
<1>8. RunOf(t, m) = Total(t, Signed) /\ Total(t, Signed) \in Int /\ \A i \in 0..m : RunOf(t, i) \in Int
  BY <1>1, <1>5, SignedWorths
<1> HIDE DEF u, n, m
<1>9. \A i \in 1..Len(u) : \/ i \in 1..n /\ u[i] = q[i]
                           \/ \E k \in 1..m : i = n + k /\ u[i] = t[k]
  <2> SUFFICES ASSUME NEW i \in 1..Len(u), i \notin 1..n
               PROVE  \E k \in 1..m : i = n + k /\ u[i] = t[k]
    BY <1>5
  <2>1. i - n \in 1..m /\ i = n + (i - n)
    BY <1>5
  <2> QED
    BY <1>5, <2>1
<1>10. \A i \in 1..Len(u) : u[i].block <= c
  BY <1>3, <1>7, <1>9
<1>11. Total(u, Signed) = Taken(s, c)
  <2>1. Total(u, Signed) = RunOf(u, n + m)
    BY <1>5, SignedWorths
  <2>2. RunOf(u, n + m) = Taken(s, b) + RunOf(t, m)
    BY <1>5, <1>6
  <2> QED
    BY <1>4, <1>8, <2>1, <2>2
<1>12. ASSUME NEW d \in FromBlock..c
       PROVE  \E j \in 0..Len(u) : EndsAt(u, s, d, j)
  <2>1. CASE d = c
    <3>1. EndsAt(u, s, d, Len(u))
      <4>1. RunOf(u, Len(u)) = Taken(s, d)
        BY <1>5, <1>11, <2>1, SignedWorths
      <4> QED
        BY <1>5, <1>10, <2>1, <4>1 DEF EndsAt
    <3> QED
      BY <1>5, <3>1
  <2>2. CASE d # c
    <3>1. d \in FromBlock..b
      BY <2>2
    <3>2. PICK j \in 0..n : EndsAt(q, s, d, j)
      BY <1>7, <3>1
    <3>3. RunOf(u, j) = Taken(s, d)
      BY <1>6, <3>2 DEF EndsAt
    <3>4. ASSUME NEW i \in 1..Len(u)
          PROVE  u[i].block <= d <=> i <= j
      <4>1. CASE i \in 1..n /\ u[i] = q[i]
        BY <3>2, <4>1 DEF EndsAt, n
      <4>2. CASE \E k \in 1..m : i = n + k /\ u[i] = t[k]
        <5>1. u[i].block = c /\ i > n
          BY <1>3, <1>5, <4>2
        <5> QED
          BY <1>5, <3>1, <5>1
      <4> QED
        BY <1>9, <4>1, <4>2
    <3>5. EndsAt(u, s, d, j) /\ j \in 0..Len(u)
      BY <1>5, <3>3, <3>4 DEF EndsAt
    <3> QED
      BY <3>5
  <2> QED
    BY <2>1, <2>2
<1>13. ASSUME NEW i \in 1..Len(u)
       PROVE  Between(u, s, i)
  <2>1. CASE i \in 1..n /\ u[i] = q[i]
    <3>1. RunOf(u, i) = RunOf(q, i)
      BY <1>5, <1>6, <2>1
    <3> QED
      BY <1>7, <2>1, <3>1 DEF Between
  <2>2. CASE \E k \in 1..m : i = n + k /\ u[i] = t[k]
    <3>1. PICK k \in 1..m : i = n + k /\ u[i] = t[k]
      BY <2>2
    <3>2. u[i].block = c /\ c - 1 = b
      BY <1>3, <3>1
    <3>3. RunOf(u, i) = Taken(s, b) + RunOf(t, k)
      BY <1>5, <1>6, <3>1
    <3>4. RunOf(t, k) >= 0 \/ RunOf(t, k) >= Total(t, Signed)
      BY <1>1, <1>2, <1>5, LowestAtEnds DEF m
    <3>5. RunOf(t, k) \in Int
      BY <1>5, <1>8
    <3>6. RunOf(u, i) >= Taken(s, b) \/ RunOf(u, i) >= Taken(s, c)
      BY <1>4, <1>8, <3>3, <3>4, <3>5
    <3> QED
      BY <3>2, <3>6 DEF Between
  <2> QED
    BY <1>9, <2>1, <2>2
<1>14. InBlocks(u, s, c)
  BY <1>5, <1>10, <1>11, <1>12, <1>13 DEF InBlocks
<1> QED
  BY <1>14 DEF u, t, T, c

LEMMA OrderedInBlocks ==
  ASSUME NEW s \in Seq(Crossings), OutsFirst(s), Len(s) # 0
  PROVE  InBlocks(Ordered(s), s, ToBlock) /\ Len(Ordered(s)) # 0
<1> DEFINE n == ToBlock - FromBlock + 1
           At(b) == {e \in ToSet(s) : e.block = b}
           Of(i) == {e \in ToSet(s) : e.block = FromBlock + i - 1}
           ss == [i \in 1..n |-> Filter(s, Of(i))]
<1>1. FromBlock \in Nat /\ ToBlock \in Nat /\ n \in Nat /\ n >= 1 /\ 1 \in 1..n
  BY PraedaAssumption
<1>2. Ordered(s) = FlattenSeq(ss)
  BY DEF Ordered
<1>3. \A i \in 1..n : Of(i) = At(FromBlock + i - 1)
  OBVIOUS
<1>4. \A i \in 1..n : /\ ss[i] = Filter(s, At(FromBlock + i - 1)) /\ ss[i] \in Seq(Crossings)
                      /\ KeptFrom(ss[i], s, At(FromBlock + i - 1), Len(s))
  <2> SUFFICES ASSUME NEW i \in 1..n
               PROVE  /\ ss[i] = Filter(s, At(FromBlock + i - 1)) /\ ss[i] \in Seq(Crossings)
                      /\ KeptFrom(ss[i], s, At(FromBlock + i - 1), Len(s))
    OBVIOUS
  <2> DEFINE b == FromBlock + i - 1
  <2>1. ss[i] = Filter(s, At(b))
    BY <1>3
  <2> HIDE DEF At, b, ss
  <2> QED
    BY <2>1, FilterInOrder DEF b
<1>5. ss \in Seq(Seq(Crossings)) /\ Len(ss) = n
  <2>1. DOMAIN ss = 1..n /\ ss = [i \in 1..n |-> ss[i]]
    OBVIOUS
  <2> HIDE DEF ss, At, Of
  <2>2. ss \in [1..n -> Seq(Crossings)]
    BY <1>4, <2>1
  <2> HIDE DEF n
  <2> QED
    BY <1>1, <2>2
<1> HIDE DEF ss, n, At, Of
<1>6. PICK f : IsFlattening(f, ss, Crossings)
  BY <1>1, <1>5, FlattenIsRun
<1>7. f[1] = ss[1] /\ f[n] = Ordered(s) /\ \A k \in 2..n : f[k] = f[k-1] \o ss[k]
  BY <1>2, <1>5, <1>6 DEF IsFlattening
<1> DEFINE Reach == {k \in Nat : k + 1 <= n => InBlocks(f[k + 1], s, FromBlock + k)}
<1>8. 0 \in Reach
  <2> DEFINE b == FromBlock - 1
             q == <<>>
  <2>1. b \in Int /\ b >= FromBlock - 1 /\ b + 1 = FromBlock /\ FromBlock + 1 - 1 = b + 1
    BY <1>1
  <2>2. InBlocks(q, s, b)
    BY NoBlocks
  <2>3. f[0 + 1] = q \o ss[1]
    <3> DEFINE u == ss[1]
    <3>1. u \in Seq(Crossings) /\ f[0 + 1] = u
      BY <1>1, <1>4, <1>7
    <3> HIDE DEF u
    <3>2. <<>> \o u = u
      BY <3>1
    <3> QED
      BY <3>1, <3>2 DEF u
  <2>4. ss[1] = Filter(s, At(b + 1))
    BY <1>1, <1>4, <2>1
  <2> HIDE DEF b, q
  <2>5. InBlocks(q \o Filter(s, At(b + 1)), s, b + 1)
    BY <2>1, <2>2, NextBlock DEF At
  <2>6. InBlocks(f[0 + 1], s, FromBlock + 0)
    <3>1. FromBlock + 0 = b + 1
      BY <1>1, <2>1
    <3> QED
      BY <2>3, <2>4, <2>5, <3>1
  <2> QED
    BY <2>6
<1>9. \A k \in Nat : k \in Reach => k + 1 \in Reach
  <2> SUFFICES ASSUME NEW k \in Nat, k \in Reach, (k + 1) + 1 <= n
               PROVE  InBlocks(f[(k + 1) + 1], s, FromBlock + (k + 1))
    <3>1. \A k \in Nat : k + 1 \in Nat
      OBVIOUS
    <3> QED
      BY <3>1, Zenon
  <2> DEFINE b == FromBlock + k
             q == f[k + 1]
             l == (k + 1) + 1
  <2>1. /\ b \in Int /\ b >= FromBlock - 1 /\ FromBlock + (k + 1) = b + 1
        /\ l \in 2..n /\ l \in 1..n /\ l - 1 = k + 1 /\ FromBlock + l - 1 = b + 1 /\ k + 1 <= n
    BY <1>1
  <2>2. InBlocks(q, s, b)
    BY <2>1
  <2>3. f[l] = q \o ss[l]
    BY <1>7, <2>1
  <2>4. ss[l] = Filter(s, At(b + 1))
    BY <1>4, <2>1
  <2> HIDE DEF b, q, l, Reach
  <2>5. InBlocks(q \o Filter(s, At(b + 1)), s, b + 1)
    BY <2>1, <2>2, NextBlock DEF At
  <2>6. InBlocks(f[l], s, b + 1)
    BY <2>3, <2>4, <2>5
  <2> QED
    BY <2>1, <2>6 DEF l
<1>10. InBlocks(Ordered(s), s, ToBlock)
  <2> HIDE DEF Reach
  <2>1. Nat \subseteq Reach
    BY <1>8, <1>9, NatByInduction
  <2> DEFINE k == n - 1
  <2>2. k \in Nat /\ k + 1 = n /\ FromBlock + k = ToBlock
    BY <1>1 DEF n
  <2> HIDE DEF k
  <2>3. k \in Reach
    BY <2>1, <2>2
  <2>4. InBlocks(f[k + 1], s, FromBlock + k)
    BY <1>1, <2>2, <2>3 DEF Reach
  <2> QED
    BY <1>7, <2>2, <2>4
<1>11. Len(Ordered(s)) # 0
  <2>1. FlatFrom(Ordered(s), ss, n)
    BY <1>1, <1>2, <1>5, FlatInOrder
  <2> DEFINE i == s[1].block - FromBlock + 1
  <2>2. 1 \in 1..Len(s) /\ s[1].block \in FromBlock..ToBlock /\ s[1] \in ToSet(s)
    <3>1. 1 \in 1..Len(s) /\ Len(s) \in Nat
      OBVIOUS
    <3> QED
      BY <3>1, SignedWorths DEF ToSet
  <2>3. i \in 1..n /\ FromBlock + i - 1 = s[1].block
    BY <1>1, <2>2 DEF n
  <2> HIDE DEF i
  <2>4. s[1] \in At(FromBlock + i - 1)
    BY <2>2, <2>3 DEF At
  <2>5. \E k \in 1..Len(ss[i]) : ss[i][k] = s[1]
    BY <1>4, <2>2, <2>3, <2>4 DEF KeptFrom
  <2>6. s[1] \in Inside(ss[i])
    BY <2>5 DEF Inside
  <2>7. s[1] \in Inside(Ordered(s))
    BY <2>1, <2>3, <2>6 DEF FlatFrom
  <2> QED
    BY <2>7 DEF Inside
<1> QED
  BY <1>10, <1>11

\* The block that is found is the first from which on what was taken stays on the side it ends.
LEMMA DecisiveSettles ==
  ASSUME NEW s \in Seq(Crossings), OutsFirst(s), Len(s) # 0,
         NEW total, total = SumOf(s), NEW d, d = DecisiveBlock(s, total)
  PROVE  /\ d \in FromBlock..ToBlock
         /\ \A c \in d..ToBlock : SameSide(Taken(s, c), total)
         /\ total > 0 => \A b \in FromBlock..d - 1 :
                           \E c \in b..ToBlock : ~SameSide(Taken(s, c), total)
<1> DEFINE q == Ordered(s)
           stays(i) == \A j \in i..Len(q) : SameSide(SumOf(SubSeq(q, 1, j)), total)
           S == {i \in DOMAIN q : stays(i)}
           m == Min(S)
<1>1. d = q[m].block
  BY DEF DecisiveBlock, FirstStaying
<1>2. InBlocks(q, s, ToBlock) /\ Len(q) # 0
  BY OrderedInBlocks
<1>3. q \in Seq(Crossings) /\ Len(q) \in Nat /\ DOMAIN q = 1..Len(q)
  BY <1>2 DEF InBlocks
<1> HIDE DEF q
<1>4. \A i \in DOMAIN q : i \in S <=> \A j \in i..Len(q) : SameSide(RunOf(q, j), total)
  <2>1. \A i \in DOMAIN q : \A j \in i..Len(q) : SumOf(SubSeq(q, 1, j)) = RunOf(q, j)
    BY <1>3, RunIsSum
  <2> QED
    BY <2>1
<1>5. /\ \A i \in 1..Len(q) : q[i].block \in FromBlock..ToBlock /\ Between(q, s, i)
      /\ \A c \in FromBlock..ToBlock : \E j \in 0..Len(q) : EndsAt(q, s, c, j)
      /\ \A i \in 0..Len(q) : RunOf(q, i) \in Int
      /\ RunOf(q, 0) = 0 /\ RunOf(q, Len(q)) = Taken(s, ToBlock)
  <2>1. /\ \A i \in 1..Len(q) : q[i].block \in FromBlock..ToBlock
        /\ \A i \in 0..Len(q) : RunOf(q, i) \in Int
        /\ RunOf(q, 0) = 0 /\ RunOf(q, Len(q)) = Total(q, Signed)
    BY <1>3, SignedWorths
  <2>2. \A i \in 1..Len(q) : Between(q, s, i)
    BY <1>2 DEF InBlocks
  <2>3. \A c \in FromBlock..ToBlock : \E j \in 0..Len(q) : EndsAt(q, s, c, j)
    BY <1>2 DEF InBlocks
  <2>4. Total(q, Signed) = Taken(s, ToBlock)
    BY <1>2 DEF InBlocks
  <2> QED
    BY <2>1, <2>2, <2>3, <2>4
<1>6. total = Taken(s, ToBlock) /\ total \in Int
  <2>1. total = Taken(s, ToBlock)
    BY AllOfThem DEF Taken
  <2> QED
    BY <1>3, <1>5, <2>1
<1>7. m \in S /\ \A i \in S : m <= i
  <2>1. S \subseteq Nat
    BY <1>3
  <2>2. Len(q) \in S
    <3>1. \A j \in Len(q)..Len(q) : RunOf(q, j) = total
      BY <1>3, <1>5, <1>6
    <3>2. SameSide(total, total)
      BY <1>6 DEF SameSide
    <3>3. Len(q) \in DOMAIN q
      BY <1>2, <1>3
    <3> HIDE DEF S
    <3> QED
      BY <1>4, <3>1, <3>2, <3>3
  <2> HIDE DEF S
  <2>3. \E x \in S : \A y \in S : x <= y
    BY <2>1, <2>2, SmallestNat
  <2> QED
    BY <2>3 DEF Min
<1>8. m \in 1..Len(q) /\ \A j \in m..Len(q) : SameSide(RunOf(q, j), total)
  <2>1. m \in DOMAIN q
    BY <1>7
  <2> HIDE DEF S, m
  <2> QED
    BY <1>3, <1>4, <1>7, <2>1
<1> HIDE DEF S, m
<1>9. d \in FromBlock..ToBlock /\ d \in Int /\ FromBlock \in Int /\ ToBlock \in Int
  <2>1. d \in FromBlock..ToBlock
    BY <1>1, <1>5, <1>8
  <2> QED
    BY <2>1, PraedaAssumption
<1>10. ASSUME NEW c \in d..ToBlock
       PROVE  SameSide(Taken(s, c), total)
  <2>1. c \in FromBlock..ToBlock
    BY <1>9
  <2>2. PICK j \in 0..Len(q) : EndsAt(q, s, c, j)
    BY <1>5, <2>1
  <2>3. m <= j
    BY <1>1, <1>8, <2>2 DEF EndsAt
  <2>4. SameSide(RunOf(q, j), total)
    BY <1>3, <1>8, <2>3
  <2> QED
    BY <2>2, <2>4 DEF EndsAt
<1>11. ASSUME total > 0, NEW b \in FromBlock..d - 1, \A c \in b..ToBlock : SameSide(Taken(s, c), total)
       PROVE  FALSE
  <2>1. b \in FromBlock..ToBlock /\ b < d
    BY <1>9
  <2>2. PICK j \in 0..Len(q) : EndsAt(q, s, b, j)
    BY <1>5, <2>1
  <2>3. \A c \in b..ToBlock : 2 * Taken(s, c) >= total
    BY <1>6, <1>11 DEF SameSide
  <2>4. j # 0
    <3>1. 2 * RunOf(q, j) >= total
      BY <2>1, <2>2, <2>3 DEF EndsAt
    <3> QED
      BY <1>5, <1>6, <1>11, <3>1
  <2>5. ASSUME NEW i \in j..Len(q)
        PROVE  SameSide(RunOf(q, i), total)
    <3>1. i \in 1..Len(q)
      BY <2>4
    <3>2. 2 * RunOf(q, i) >= total
      <4>1. CASE i = j
        BY <2>1, <2>2, <2>3, <4>1 DEF EndsAt
      <4>2. CASE i # j
        <5> DEFINE c == q[i].block
        <5>1. c \in FromBlock..ToBlock /\ Between(q, s, i)
          BY <1>5, <3>1
        <5>2. ~(c <= b)
          BY <2>2, <3>1, <4>2 DEF EndsAt
        <5>3. c \in b..ToBlock /\ c - 1 \in b..ToBlock
          BY <1>9, <2>1, <5>1, <5>2
        <5>4. RunOf(q, i) >= Taken(s, c - 1) \/ RunOf(q, i) >= Taken(s, c)
          BY <5>1, SMTT(30) DEF Between
        <5>5. 2 * Taken(s, c - 1) >= total /\ 2 * Taken(s, c) >= total
          BY <2>3, <5>3
        <5>6. Taken(s, c) \in Int /\ Taken(s, c - 1) \in Int /\ RunOf(q, i) \in Int
          <6>1. c \in Int /\ c - 1 \in Int
            BY <1>9, <5>1
          <6> DEFINE e == c - 1
          <6> HIDE DEF c
          <6>2. Taken(s, c) \in Int
            BY <6>1, TakenMore
          <6>3. e \in Int
            BY <6>1
          <6> HIDE DEF e
          <6>4. Taken(s, e) \in Int
            BY <6>3, TakenMore
          <6>5. RunOf(q, i) \in Int
            BY <1>5, <3>1
          <6> QED
            BY <6>2, <6>4, <6>5 DEF e
        <5> HIDE DEF c
        <5> QED
          BY <1>6, <5>4, <5>5, <5>6
      <4> QED
        BY <4>1, <4>2
    <3> QED
      BY <1>6, <1>11, <3>2 DEF SameSide
  <2>6. j \in S
    <3>1. j \in DOMAIN q
      BY <1>3, <2>4
    <3> QED
      BY <1>4, <2>5, <3>1
  <2>7. m <= j
    BY <1>7, <2>6
  <2>8. q[m].block <= b
    BY <1>8, <2>2, <2>7 DEF EndsAt
  <2> QED
    BY <1>1, <1>9, <2>1, <2>8
<1> QED
  BY <1>9, <1>10, <1>11

-----------------------------------------------------------------------------
(* Outflows first, then inflows, then the curve. *)

InTurn ==
  /\ OutsFirst(events)
  /\ evmPc \in {"start", "out"} => \A i \in 1..Len(events) : events[i].dv >= 0

LEMMA FetchedInTurn ==
  ASSUME PraedaShape, InTurn, GetLogs
  PROVE  InTurn'
<1> DEFINE new == Bumped(evmPc, Logs(evmPc, chunk, ChunkEnd(chunk)))
<1>1. /\ evmPc \in {"out", "in"} /\ Advance
      /\ history \in Seq(Transfers) /\ events \in Seq(Crossings)
  BY DEF GetLogs, PraedaShape
<1>2. (evmPc = "in" => evmPc' \notin {"start", "out"}) /\ evmPc' # "start"
  BY <1>1 DEF Advance
<1>3. CASE UNCHANGED events
  BY <1>1, <1>2, <1>3 DEF InTurn, OutsFirst
<1>4. CASE events' = events \o new
  <2>1. /\ new \in Seq(Crossings)
        /\ evmPc = "out" => \A i \in 1..Len(new) : new[i].dv >= 0
        /\ evmPc = "in" => \A i \in 1..Len(new) : new[i].dv <= 0
    <3>1. CASE evmPc = "out"
      BY <1>1, <3>1, OutChunkAdds
    <3>2. CASE evmPc = "in"
      BY <1>1, <3>2, InChunkAdds
    <3> QED
      BY <1>1, <3>1, <3>2
  <2> HIDE DEF new
  <2> DEFINE n == Len(events)
             m == Len(new)
  <2>2. /\ n \in Nat /\ m \in Nat /\ Len(events') = n + m
        /\ \A i \in 1..n + m : \/ i \in 1..n /\ events'[i] = events[i]
                               \/ i > n /\ \E k \in 1..m : events'[i] = new[k]
    <3>1. /\ n \in Nat /\ m \in Nat /\ Len(events') = n + m
          /\ \A i \in 1..n + m : (i \in 1..n /\ events'[i] = events[i])
                                 \/ (i > n /\ i - n \in 1..m /\ events'[i] = new[i - n])
      BY <1>1, <1>4, <2>1
    <3> QED
      BY <3>1
  <2>3. (\A i \in 1..n : events[i].dv \in Int) /\ (\A i \in 1..m : new[i].dv \in Int)
    BY <1>1, <2>1, SignedWorths
  <2> HIDE DEF n, m
  <2>4. CASE evmPc = "out"
    <3>1. \A i \in 1..n + m : events'[i].dv >= 0 /\ events'[i].dv \in Int
      BY <2>1, <2>2, <2>3, <2>4 DEF InTurn, n, m
    <3> QED
      BY <2>2, <3>1 DEF InTurn, OutsFirst
  <2>5. CASE evmPc = "in"
    <3>1. \A k \in 1..m : new[k].dv <= 0
      BY <2>1, <2>5 DEF m
    <3>2. ASSUME NEW i \in 1..n + m, NEW j \in 1..n + m, i <= j, events'[i].dv < 0
          PROVE  events'[j].dv <= 0
      <4>1. CASE j > n /\ \E k \in 1..m : events'[j] = new[k]
        BY <3>1, <4>1
      <4>2. CASE j \in 1..n /\ events'[j] = events[j]
        <5>1. i \in 1..n /\ events'[i] = events[i]
          BY <2>2, <3>2, <4>2
        <5> QED
          BY <3>2, <4>2, <5>1 DEF InTurn, OutsFirst, n
      <4> QED
        BY <2>2, <4>1, <4>2
    <3> QED
      BY <1>2, <2>2, <2>5, <3>2 DEF InTurn, OutsFirst
  <2> QED
    BY <1>1, <2>4, <2>5
<1> QED
  BY <1>3, <1>4 DEF GetLogs

\* The curve has its samples, from the first block to the last.
Curve(p) ==
  /\ p \in Seq([block : Int, usd : Int]) /\ Len(p) = Samples + 1
  /\ p[1].block = FromBlock /\ p[Samples + 1].block = ToBlock
CurveIsWhole == evmPc = "code" => Curve(points)

LEMMA WholeParts ==
  ASSUME NEW w \in Int, NEW d \in Nat, d > 0, NEW r \in 0..d - 1, NEW x \in Int, x = w * d + r
  PROVE  x \div d = w
<1> DEFINE q == x \div d
           p == q * d
<1>1. q \in Int /\ p \in Int /\ p <= x /\ x < p + d
  BY DEF q
<1>2. CASE q < w
  <2>1. (q + 1) * d <= w * d
    BY <1>1, <1>2
  <2>2. (q + 1) * d = p + d
    BY <1>1
  <2> HIDE DEF q, p
  <2> QED
    BY <1>1, <2>1, <2>2
<1>3. CASE q > w
  <2>1. (w + 1) * d <= q * d
    BY <1>1, <1>3
  <2>2. (w + 1) * d = w * d + d
    BY <1>1
  <2> QED
    BY <1>1, <2>1, <2>2
<1> HIDE DEF q, p
<1> QED
  BY <1>1, <1>2, <1>3 DEF q

LEMMA SampledFromEndToEnd ==
  /\ \A i \in Int : SampleBlock(i) \in Int
  /\ SampleBlock(0) = FromBlock /\ SampleBlock(Samples) = ToBlock
<1> DEFINE w == ToBlock - FromBlock
           d == 2 * Samples
<1>1. /\ FromBlock \in Nat /\ ToBlock \in Nat /\ w \in Int /\ Samples \in Nat \ {0}
      /\ d \in Nat /\ d > 0 /\ Samples \in 0..d - 1
  BY PraedaAssumption
<1>2. SampleBlock(0) = FromBlock
  <2>1. 2 * w * 0 + Samples = Samples /\ Samples = 0 * d + Samples /\ 0 \in Int /\ Samples \in Int
    BY <1>1
  <2>2. Samples \div d = 0
    <3> HIDE DEF d
    <3> QED
      BY <1>1, <2>1, WholeParts
  <2> QED
    BY <1>1, <2>1, <2>2 DEF SampleBlock
<1>3. SampleBlock(Samples) = ToBlock
  <2> DEFINE x == 2 * w * Samples + Samples
  <2>1. x \in Int /\ x = w * d + Samples
    BY <1>1
  <2>2. x \div d = w
    <3> HIDE DEF d, w, x
    <3> QED
      BY <1>1, <2>1, WholeParts
  <2>3. SampleBlock(Samples) = FromBlock + x \div d
    BY DEF SampleBlock
  <2> HIDE DEF x, d
  <2> QED
    BY <1>1, <2>2, <2>3
<1>4. ASSUME NEW i \in Int
      PROVE  SampleBlock(i) \in Int
  <2> DEFINE x == 2 * w * i + Samples
  <2>1. x \in Int
    BY <1>1
  <2>2. SampleBlock(i) = FromBlock + x \div d
    BY DEF SampleBlock
  <2> HIDE DEF x, d
  <2>3. x \div d \in Int
    BY <1>1, <2>1
  <2> QED
    BY <1>1, <2>2, <2>3
<1> QED
  BY <1>2, <1>3, <1>4

LEMMA BalanceIsInt ==
  ASSUME history \in Seq(Transfers), NEW b
  PROVE  BalanceAt(b) \in Int
<1>1. ASSUME NEW T
      PROVE  Moved(Filter(history, T)) \in Int
  <2> DEFINE P == Picked(history, T)
  <2>1. P \subseteq DOMAIN history
    BY DEF Picked
  <2> HIDE DEF P
  <2>2. IsFiniteSet(P) /\ \A i \in P : Valued[i] \in Int
    BY <2>1, HistoryIsFinite, FS_Subset
  <2>3. Over(Valued, P) \in Int
    BY <2>2, OverIsInt
  <2>4. Moved(Filter(history, T)) = Over(Valued, P)
    BY MovedOfSome DEF P
  <2> QED
    BY <2>3, <2>4
<1>2. \A dir : Moved(Logs(dir, FromBlock, b)) \in Int
  BY <1>1, Zenon DEF Logs
<1> DEFINE x == Moved(Logs("out", FromBlock, b))
           y == Moved(Logs("in", FromBlock, b))
<1>3. x \in Int /\ y \in Int /\ BalanceAt(b) = Reserve - x + y
  BY <1>2 DEF BalanceAt
<1> HIDE DEF x, y
<1> QED
  BY <1>3, PraedaAssumption

LEMMA CurveIsDrawn ==
  ASSUME PraedaShape, DrawdownCurve
  PROVE  Curve(points')
<1> DEFINE n == Samples + 1
           f(i) == [block |-> SampleBlock(i - 1), usd |-> BalanceAt(SampleBlock(i - 1))]
<1>1. points' = [i \in 1..n |-> f(i)] /\ history \in Seq(Transfers)
  BY DEF DrawdownCurve, PraedaShape
<1>2. Samples \in Nat /\ n \in Nat /\ 1 \in 1..n /\ n \in 1..n /\ 1 - 1 = 0 /\ n - 1 = Samples
  BY PraedaAssumption
<1>3. \A i \in 1..n : f(i) \in [block : Int, usd : Int]
  <2> SUFFICES ASSUME NEW i \in 1..n
               PROVE  f(i) \in [block : Int, usd : Int]
    OBVIOUS
  <2>1. i - 1 \in Int
    BY <1>2
  <2> DEFINE b == SampleBlock(i - 1)
  <2>2. b \in Int
    BY <2>1, SampledFromEndToEnd
  <2> HIDE DEF b
  <2>3. BalanceAt(b) \in Int
    BY <1>1, BalanceIsInt
  <2> QED
    BY <2>2, <2>3 DEF b
<1>4. f(1).block = FromBlock /\ f(n).block = ToBlock
  BY <1>2, SampledFromEndToEnd
<1> HIDE DEF f, n
<1>5. points' \in [1..n -> [block : Int, usd : Int]] /\ points'[1] = f(1) /\ points'[n] = f(n)
  BY <1>1, <1>2, <1>3
<1>6. points' \in Seq([block : Int, usd : Int]) /\ Len(points') = n
  <2> DEFINE S == [block : Int, usd : Int]
             p == points'
  <2>1. p \in [1..n -> S] /\ n \in Nat
    BY <1>2, <1>5
  <2> HIDE DEF S, p
  <2>2. p \in Seq(S) /\ Len(p) = n
    BY <2>1
  <2> QED
    BY <2>2 DEF S, p
<1> QED
  BY <1>4, <1>5, <1>6 DEF Curve, n

LEMMA StepsStayInTurn ==
  ASSUME PraedaShape, InTurn, CurveIsWhole, [PraedaNext]_praedaVars
  PROVE  InTurn' /\ CurveIsWhole'
<1>1. CASE ServesWindow
  <2>1. events' = <<>> /\ evmPc' \in {"out", "done"}
    BY <1>1 DEF ServesWindow, PraedaShape, Refuse
  <2> QED
    BY <2>1 DEF InTurn, OutsFirst, CurveIsWhole
<1>2. CASE GetLogs
  <2>1. evmPc' # "code"
    BY <1>2 DEF GetLogs, Advance
  <2> QED
    BY <1>2, <2>1, FetchedInTurn DEF CurveIsWhole
<1>3. CASE DrawdownCurve
  <2>1. events' = events /\ evmPc' = "code"
    BY <1>3 DEF DrawdownCurve
  <2> QED
    BY <1>3, <2>1, CurveIsDrawn DEF InTurn, OutsFirst, CurveIsWhole, Curve
<1>4. CASE ResolveEndpoints \/ EvmFails
  <2>1. events' = events /\ evmPc' = "done"
    BY <1>4 DEF ResolveEndpoints, EvmFails, Refuse
  <2> QED
    BY <2>1 DEF InTurn, OutsFirst, CurveIsWhole
<1>5. CASE UNCHANGED praedaVars
  BY <1>5 DEF praedaVars, InTurn, OutsFirst, CurveIsWhole, Curve
<1> QED
  BY <1>1, <1>2, <1>3, <1>4, <1>5 DEF PraedaNext

-----------------------------------------------------------------------------
(* Timings. *)

LEMMA SamplesAreTyped ==
  ASSUME NEW p, Curve(p)
  PROVE  Len(p) = Samples + 1 /\ \A k \in 1..Len(p) : p[k].block \in Int /\ p[k].usd \in Int
<1> DEFINE S == [block : Int, usd : Int]
<1>1. p \in Seq(S) /\ Len(p) = Samples + 1
  BY DEF Curve
<1>2. \A x \in S : x.block \in Int /\ x.usd \in Int
  OBVIOUS
<1> HIDE DEF S
<1>3. \A k \in 1..Len(p) : p[k] \in S
  BY <1>1
<1> QED
  BY <1>1, <1>2, <1>3

\* Every block of the window lies between two samples.
LEMMA BetweenSamples ==
  ASSUME Curve(points), NEW b \in FromBlock..ToBlock,
         NEW i, i = Min({k \in 1 .. Len(points) - 1 : b \in points[k].block .. points[k + 1].block})
  PROVE  i \in 1..Len(points) - 1 /\ b \in points[i].block .. points[i + 1].block
<1> DEFINE n == Samples + 1
           S == {k \in 2..n : b <= points[k].block}
           K == {k \in 1 .. Len(points) - 1 : b \in points[k].block .. points[k + 1].block}
<1>1. /\ b \in Int /\ n \in Nat /\ n >= 2 /\ Len(points) = n
      /\ \A k \in 1..n : points[k].block \in Int
      /\ points[1].block = FromBlock /\ points[n].block = ToBlock
  <2>1. b \in Int /\ n \in Nat /\ n >= 2
    BY PraedaAssumption
  <2>2. Len(points) = n /\ points[1].block = FromBlock /\ points[n].block = ToBlock
    BY DEF Curve
  <2>3. \A k \in 1..n : points[k].block \in Int
    BY <2>2, SamplesAreTyped
  <2> QED
    BY <2>1, <2>2, <2>3
<1> HIDE DEF n
<1>2. S \subseteq Nat /\ n \in S
  BY <1>1
<1>3. PICK l \in S : \A k \in S : l <= k
  <2> HIDE DEF S
  <2> QED
    BY <1>2, SmallestNat
<1>4. points[l - 1].block <= b
  <2>1. CASE l = 2
    BY <1>1, <2>1
  <2>2. CASE l # 2
    <3>1. l - 1 \in 2..n /\ ~(l <= l - 1)
      BY <1>1, <1>3, <2>2
    <3>2. l - 1 \notin S
      BY <1>3, <3>1
    <3> QED
      BY <1>1, <3>1, <3>2
  <2> QED
    BY <2>1, <2>2
<1>5. l - 1 \in K
  <2>1. l - 1 \in 1..n - 1 /\ (l - 1) + 1 = l /\ points[l].block \in Int /\ points[l - 1].block \in Int
    BY <1>1, <1>3
  <2> QED
    BY <1>1, <1>3, <1>4, <2>1
<1>6. K \subseteq Nat
  BY <1>1
<1>7. i = Min(K)
  OBVIOUS
<1> HIDE DEF K
<1>8. \E x \in K : \A y \in K : x <= y
  BY <1>5, <1>6, SmallestNat
<1>9. i \in K
  BY <1>7, <1>8 DEF Min
<1> QED
  BY <1>9 DEF K

LEMMA TimingIsInt ==
  ASSUME Curve(points), NEW b \in FromBlock..ToBlock
  PROVE  Timing(b) \in Int
<1> DEFINE i == Min({k \in 1 .. Len(points) - 1 : b \in points[k].block .. points[k + 1].block})
           lo == points[i]
           hi == points[i + 1]
           width == IF hi.block = lo.block THEN 1 ELSE hi.block - lo.block
           fall == points[1].usd - points[Len(points)].usd
           span == IF fall = 0 THEN 1 ELSE fall
           up == IF span > 0 THEN 1 ELSE -1
           fallen == up * ((points[1].usd - lo.usd) * width - (hi.usd - lo.usd) * (b - lo.block))
           x == Unit * fallen
           y == width * up * span
           d == x \div y
<1>1. Drawdown(b) = IF d < 0 THEN 0 ELSE IF d > Unit THEN Unit ELSE d
  BY DEF Drawdown
<1>2. i \in 1..Len(points) - 1 /\ b \in lo.block..hi.block
  BY BetweenSamples
<1> HIDE DEF i
<1>3. /\ lo.block \in Int /\ lo.usd \in Int /\ hi.block \in Int /\ hi.usd \in Int
      /\ points[1].usd \in Int /\ points[Len(points)].usd \in Int
      /\ b \in Int /\ Unit \in Nat
  <2>1. /\ Len(points) \in Nat /\ Len(points) >= 1
        /\ \A k \in 1..Len(points) : points[k].block \in Int /\ points[k].usd \in Int
    BY SamplesAreTyped, PraedaAssumption
  <2>2. /\ i \in 1..Len(points) /\ i + 1 \in 1..Len(points) /\ 1 \in 1..Len(points)
        /\ Len(points) \in 1..Len(points)
    BY <1>2, <2>1
  <2> QED
    BY <2>1, <2>2, PraedaAssumption
<1> DEFINE total == points[1].usd
           rest == points[Len(points)].usd
<1>4. width \in Int /\ width > 0
  <2>1. hi.block = lo.block \/ hi.block > lo.block
    BY <1>2, <1>3
  <2> HIDE DEF lo, hi
  <2> QED
    BY <1>3, <2>1
<1>5. span \in Int /\ up \in Int /\ up * span \in Int /\ up * span > 0
  <2>1. fall \in Int
    BY <1>3
  <2> HIDE DEF fall
  <2>2. span \in Int /\ span # 0
    BY <2>1
  <2> HIDE DEF span
  <2> QED
    BY <2>2
<1> DEFINE high == up * span
<1>6. fallen \in Int
  <2> HIDE DEF lo, hi, width, up
  <2> DEFINE r == total - lo.usd
             s == hi.usd - lo.usd
             t == b - lo.block
  <2>0. r \in Int /\ s \in Int /\ t \in Int
    BY <1>3
  <2>1. r * width \in Int /\ s * t \in Int
    <3> HIDE DEF r, s, t
    <3> QED
      BY <1>4, <2>0
  <2> DEFINE u == r * width
             v == s * t
  <2>3. fallen = up * (u - v)
    OBVIOUS
  <2> HIDE DEF u, v, fallen
  <2> QED
    BY <1>5, <2>1, <2>3 DEF u, v
<1>7. x \in Int
  <2> HIDE DEF fallen
  <2> QED
    BY <1>3, <1>6
<1>8. y \in Int /\ y > 0
  <2>1. y = width * high
    <3> HIDE DEF width, up, span
    <3> QED
      BY <1>4, <1>5
  <2>2. high \in Int /\ high > 0
    BY <1>5
  <2> HIDE DEF width, high, y
  <2> QED
    BY <1>4, <2>1, <2>2
<1> HIDE DEF x, y
<1>9. d \in Int
  BY <1>7, <1>8
<1> HIDE DEF d
<1>10. Drawdown(b) \in Int
  BY <1>1, <1>3, <1>9
<1> QED
  BY <1>3, <1>10 DEF Timing

-----------------------------------------------------------------------------
(* The median. *)

Timed(R) == IsFiniteSet(R) /\ \A r \in R : r.L \in Int
Before(R, x) == {q \in R : q.L < x}
By(R, x) == {q \in R : q.L <= x}

LEMMA CountsGrow ==
  ASSUME NEW R, Timed(R), NEW x \in Int, NEW y \in Int
  PROVE  /\ Cardinality(R) \in Nat /\ Cardinality(By(R, x)) \in Nat /\ Cardinality(Before(R, x)) \in Nat
         /\ Cardinality(By(R, x)) <= Cardinality(R)
         /\ x <= y => Cardinality(By(R, x)) <= Cardinality(By(R, y))
         /\ x < y => Cardinality(By(R, x)) <= Cardinality(Before(R, y))
         /\ (x < y /\ \E r \in R : r.L = y) => Cardinality(By(R, x)) < Cardinality(By(R, y))
<1> DEFINE A == By(R, x)
           B == By(R, y)
           C == Before(R, y)
           D == Before(R, x)
<1>1. IsFiniteSet(R) /\ A \in SUBSET R /\ B \in SUBSET R /\ C \in SUBSET R /\ D \in SUBSET R
  BY DEF Timed, By, Before
<1>2. /\ x <= y => A \in SUBSET B
      /\ x < y => A \in SUBSET C
      /\ (x < y /\ \E r \in R : r.L = y) => A # B
  BY DEF Timed, By, Before
<1> HIDE DEF A, B, C, D
<1>3. IsFiniteSet(A) /\ IsFiniteSet(B) /\ IsFiniteSet(C) /\ IsFiniteSet(D) /\ Cardinality(A) <= Cardinality(R)
  BY <1>1, FS_Subset
<1>4. /\ Cardinality(A) \in Nat /\ Cardinality(B) \in Nat /\ Cardinality(C) \in Nat
      /\ Cardinality(D) \in Nat /\ Cardinality(R) \in Nat
  BY <1>1, <1>3, FS_CardinalityType
<1>5. A \in SUBSET B => Cardinality(A) <= Cardinality(B) /\ (Cardinality(B) = Cardinality(A) => A = B)
  BY <1>3, FS_Subset
<1>6. A \in SUBSET C => Cardinality(A) <= Cardinality(C)
  BY <1>3, FS_Subset
<1>7. (x < y /\ \E r \in R : r.L = y) => Cardinality(A) < Cardinality(B)
  <2> SUFFICES ASSUME x < y, \E r \in R : r.L = y
               PROVE  Cardinality(A) < Cardinality(B)
    OBVIOUS
  <2>1. A \in SUBSET B /\ A # B
    BY <1>2
  <2>2. Cardinality(A) <= Cardinality(B) /\ Cardinality(B) # Cardinality(A)
    BY <1>5, <2>1
  <2> QED
    BY <1>4, <2>2
<1> QED
  BY <1>2, <1>3, <1>4, <1>5, <1>6, <1>7 DEF A, B, C, D

LEMMA LatestOfTimed ==
  ASSUME NEW R, Timed(R), R # {}
  PROVE  \E m \in R : \A r \in R : r.L <= m.L
<1> DEFINE n == Cardinality(R)
           S == {n - Cardinality(By(R, r.L)) : r \in R}
<1>1. \A r \in R : /\ r.L \in Int /\ n \in Nat /\ Cardinality(By(R, r.L)) \in Nat
                   /\ Cardinality(By(R, r.L)) <= n
  <2> SUFFICES ASSUME NEW r \in R
               PROVE  /\ r.L \in Int /\ n \in Nat /\ Cardinality(By(R, r.L)) \in Nat
                      /\ Cardinality(By(R, r.L)) <= n
    OBVIOUS
  <2> DEFINE x == r.L
  <2>1. x \in Int
    BY DEF Timed
  <2> HIDE DEF x
  <2>2. n \in Nat /\ Cardinality(By(R, x)) \in Nat /\ Cardinality(By(R, x)) <= n
    BY <2>1, CountsGrow
  <2> QED
    BY <2>1, <2>2 DEF x
<1> HIDE DEF n
<1>2. S \subseteq Nat /\ S # {}
  BY <1>1
<1>3. PICK s \in S : \A t \in S : s <= t
  <2> HIDE DEF S
  <2> QED
    BY <1>2, SmallestNat
<1>4. PICK m \in R : s = n - Cardinality(By(R, m.L))
  OBVIOUS
<1>5. ASSUME NEW r \in R
      PROVE  r.L <= m.L
  <2> DEFINE x == m.L
             y == r.L
  <2>1. n - Cardinality(By(R, x)) <= n - Cardinality(By(R, y))
    BY <1>3, <1>4
  <2>2. /\ x \in Int /\ y \in Int /\ n \in Nat
        /\ Cardinality(By(R, x)) \in Nat /\ Cardinality(By(R, y)) \in Nat
    BY <1>1
  <2>3. \E q \in R : q.L = y
    OBVIOUS
  <2> HIDE DEF x, y
  <2>4. x < y => Cardinality(By(R, x)) < Cardinality(By(R, y))
    BY <2>2, <2>3, CountsGrow
  <2>5. y <= x
    BY <2>1, <2>2, <2>4
  <2> QED
    BY <2>5 DEF x, y
<1> QED
  BY <1>5

\* The k-th smallest.
IsNth(R, k, r) == Cardinality(Before(R, r.L)) < k /\ k <= Cardinality(By(R, r.L))

LEMMA NthExists ==
  ASSUME NEW R, Timed(R), NEW k \in 1..Cardinality(R)
  PROVE  \E r \in R : IsNth(R, k, r)
<1> DEFINE n == Cardinality(R)
           S == {r \in R : k <= Cardinality(By(R, r.L))}
           T == {Cardinality(By(R, r.L)) : r \in S}
<1>1. \A r \in R : r.L \in Int /\ Cardinality(By(R, r.L)) \in Nat /\ Cardinality(Before(R, r.L)) \in Nat
  <2> SUFFICES ASSUME NEW r \in R
               PROVE  r.L \in Int /\ Cardinality(By(R, r.L)) \in Nat /\ Cardinality(Before(R, r.L)) \in Nat
    OBVIOUS
  <2> DEFINE x == r.L
  <2>1. x \in Int
    BY DEF Timed
  <2> HIDE DEF x
  <2>2. Cardinality(By(R, x)) \in Nat /\ Cardinality(Before(R, x)) \in Nat
    BY <2>1, CountsGrow
  <2> QED
    BY <2>1, <2>2 DEF x
<1>2. R # {}
  BY FS_EmptySet
<1>3. n \in Nat
  BY FS_CardinalityType DEF Timed
<1>4. S # {}
  <2>1. PICK m \in R : \A r \in R : r.L <= m.L
    BY <1>2, LatestOfTimed
  <2>2. By(R, m.L) = R
    BY <2>1 DEF By
  <2>3. Cardinality(By(R, m.L)) = n
    BY <2>2
  <2> QED
    BY <1>3, <2>3
<1>5. T \subseteq Nat /\ T # {}
  BY <1>1, <1>4
<1>6. PICK c \in T : \A d \in T : c <= d
  <2> HIDE DEF T
  <2> QED
    BY <1>5, SmallestNat
<1>7. PICK r \in S : c = Cardinality(By(R, r.L))
  OBVIOUS
<1> DEFINE B == Before(R, r.L)
<1>8. Cardinality(B) < k
  <2> SUFFICES ASSUME ~(Cardinality(B) < k)
               PROVE  FALSE
    OBVIOUS
  <2>1. B # {}
    BY <1>1, FS_EmptySet
  <2>2. B \in SUBSET R /\ IsFiniteSet(R)
    BY DEF Timed, Before
  <2>3. Timed(B)
    <3> HIDE DEF B
    <3>1. IsFiniteSet(B)
      BY <2>2, FS_Subset
    <3> QED
      BY <2>2, <3>1 DEF Timed
  <2>4. PICK q \in B : \A p \in B : p.L <= q.L
    <3> HIDE DEF B
    <3> QED
      BY <2>1, <2>3, LatestOfTimed
  <2>5. q \in R /\ q.L < r.L
    BY <2>4 DEF Before
  <2>6. By(R, q.L) = B
    <3>1. r.L \in Int /\ q.L \in Int /\ q.L < r.L /\ \A p \in R : p.L \in Int
      BY <1>1, <2>5
    <3>2. \A p \in R : p.L <= q.L => p.L < r.L
      BY <3>1
    <3>3. \A p \in R : p.L < r.L => p.L <= q.L
      BY <2>4 DEF Before
    <3> QED
      BY <3>2, <3>3 DEF By, Before
  <2>7. k <= Cardinality(By(R, q.L))
    BY <1>1, <2>6
  <2>8. Cardinality(By(R, q.L)) \in T
    BY <2>5, <2>7
  <2> DEFINE x == q.L
             y == r.L
  <2>9. x \in Int /\ y \in Int /\ x < y /\ \E p \in R : p.L = y
    BY <1>1, <2>5
  <2>10. c = Cardinality(By(R, y)) /\ c <= Cardinality(By(R, x))
    BY <1>6, <1>7, <2>8
  <2> HIDE DEF x, y
  <2>11. /\ Cardinality(By(R, x)) < Cardinality(By(R, y))
         /\ Cardinality(By(R, x)) \in Nat /\ Cardinality(By(R, y)) \in Nat
    BY <2>9, CountsGrow
  <2> QED
    BY <2>10, <2>11
<1> QED
  BY <1>7, <1>8 DEF IsNth

LEMMA NthsGrow ==
  ASSUME NEW R, Timed(R), NEW k \in Nat, NEW l \in Nat, k <= l,
         NEW r \in R, IsNth(R, k, r), NEW q \in R, IsNth(R, l, q)
  PROVE  r.L <= q.L
<1> DEFINE x == q.L
           y == r.L
<1>1. x \in Int /\ y \in Int
  BY DEF Timed
<1>2. Cardinality(Before(R, y)) < k /\ l <= Cardinality(By(R, x))
  BY DEF IsNth
<1> HIDE DEF x, y
<1>3. /\ Cardinality(By(R, x)) \in Nat
      /\ x < y => Cardinality(By(R, x)) <= Cardinality(Before(R, y))
  BY <1>1, CountsGrow
<1>4. Cardinality(Before(R, y)) \in Nat
  BY <1>1, CountsGrow
<1>5. y <= x
  BY <1>1, <1>2, <1>3, <1>4
<1> QED
  BY <1>5 DEF x, y

\* Who is past the median is no earlier than half of them.
LEMMA PastMedianIsHalf ==
  ASSUME NEW R, Timed(R), R # {}, NEW L \in Int, PastMedian(L, R)
  PROVE  2 * Cardinality(By(R, L)) >= Cardinality(R)
<1> DEFINE n == Cardinality(R)
           h == n \div 2
           nth(k) == CHOOSE r \in R : IsNth(R, k, r)
<1>1. IF n % 2 = 1 THEN L >= nth(h + 1).L ELSE 2 * L >= nth(h).L + nth(h + 1).L
  BY DEF PastMedian, IsNth, Before, By
<1>2. n \in Nat /\ n # 0
  BY FS_CardinalityType, FS_EmptySet DEF Timed
<1> HIDE DEF n
<1>3. /\ n % 2 = 1 \/ n % 2 = 0
      /\ n % 2 = 1 => h \in Nat /\ n = 2 * h + 1
      /\ n % 2 = 0 => h \in Nat /\ n = 2 * h
  BY <1>2
<1> DEFINE odd == n % 2 = 1
<1>4. odd => L >= nth(h + 1).L
  BY <1>1
<1>5. ~odd => 2 * L >= nth(h).L + nth(h + 1).L
  BY <1>1
<1>6. (odd => h \in Nat /\ n = 2 * h + 1) /\ (~odd => h \in Nat /\ n = 2 * h)
  BY <1>3
<1> HIDE DEF odd, h
<1>7. \A k \in 1..n : nth(k) \in R /\ IsNth(R, k, nth(k)) /\ nth(k).L \in Int
  <2> SUFFICES ASSUME NEW k \in 1..n
               PROVE  nth(k) \in R /\ IsNth(R, k, nth(k)) /\ nth(k).L \in Int
    OBVIOUS
  <2>1. \E r \in R : IsNth(R, k, r)
    BY NthExists DEF n
  <2>2. nth(k) \in R /\ IsNth(R, k, nth(k))
    BY <2>1, Zenon
  <2> QED
    BY <2>2 DEF Timed
<1> HIDE DEF nth
<1>8. ASSUME NEW k \in 1..n, nth(k).L <= L
      PROVE  Cardinality(By(R, L)) \in Nat /\ k <= Cardinality(By(R, L))
  <2> DEFINE x == nth(k).L
  <2>1. x \in Int /\ x <= L /\ k <= Cardinality(By(R, x))
    BY <1>7, <1>8 DEF IsNth
  <2> HIDE DEF x
  <2>2. /\ Cardinality(By(R, x)) \in Nat /\ Cardinality(By(R, L)) \in Nat
        /\ Cardinality(By(R, x)) <= Cardinality(By(R, L))
    <3>1. Cardinality(By(R, x)) \in Nat /\ (x <= L => Cardinality(By(R, x)) <= Cardinality(By(R, L)))
      BY <2>1, CountsGrow
    <3>2. Cardinality(By(R, L)) \in Nat
      BY CountsGrow
    <3> QED
      BY <2>1, <3>1, <3>2
  <2> QED
    BY <2>1, <2>2
<1>9. CASE odd
  <2>1. h + 1 \in 1..n /\ n <= 2 * (h + 1)
    BY <1>2, <1>6, <1>9
  <2>2. Cardinality(By(R, L)) \in Nat /\ h + 1 <= Cardinality(By(R, L))
    <3>1. nth(h + 1).L <= L
      BY <1>4, <1>7, <1>9, <2>1
    <3> QED
      BY <1>8, <2>1, <3>1
  <2>3. 2 * Cardinality(By(R, L)) >= n
    BY <1>2, <1>6, <1>9, <2>1, <2>2
  <2> QED
    BY <2>3 DEF n
<1>10. CASE ~odd
  <2>1. h \in 1..n /\ h + 1 \in 1..n /\ n = 2 * h /\ h \in Nat /\ h + 1 \in Nat /\ h <= h + 1
    BY <1>2, <1>6, <1>10
  <2> DEFINE p == nth(h)
             q == nth(h + 1)
             l == h + 1
  <2>2. p \in R /\ q \in R /\ IsNth(R, h, p) /\ IsNth(R, l, q) /\ p.L \in Int /\ q.L \in Int
        /\ 2 * L >= p.L + q.L
    BY <1>5, <1>7, <1>10, <2>1
  <2>3. l \in Nat /\ h <= l
    BY <2>1
  <2> HIDE DEF p, q, l
  <2>4. p.L <= q.L
    BY <2>1, <2>2, <2>3, NthsGrow
  <2>5. p.L <= L
    BY <2>2, <2>4
  <2>6. Cardinality(By(R, L)) \in Nat /\ h <= Cardinality(By(R, L))
    BY <1>8, <2>1, <2>5 DEF p
  <2>7. 2 * Cardinality(By(R, L)) >= n
    BY <2>1, <2>6
  <2> QED
    BY <2>7 DEF n
<1> QED
  BY <1>9, <1>10

-----------------------------------------------------------------------------
(* The classes. *)

LEMMA AsManyImages ==
  ASSUME NEW S, IsFiniteSet(S), NEW f, \A x, y \in S : f[x] = f[y] => x = y,
         NEW T, T = {f[x] : x \in S}
  PROVE  Cardinality(T) = Cardinality(S)
<1> DEFINE g == [x \in S |-> f[x]]
<1>1. g \in Surjection(S, T)
  BY DEF Surjection
<1>2. g \in Injection(S, T)
  BY DEF Injection, IsInjective
<1> HIDE DEF g
<1> QED
  BY <1>1, <1>2, FS_Surjection

\* A copy of the rows that keeps their timings.
CopyOf(S, R, f) ==
  /\ S = {f[r] : r \in R}
  /\ \A r \in R : f[r].L = r.L
  /\ \A r, q \in R : f[r] = f[q] => r = q

LEMMA CopiesCountAlike ==
  ASSUME NEW R, IsFiniteSet(R), NEW f, NEW S, CopyOf(S, R, f), NEW x
  PROVE  Cardinality(S) = Cardinality(R) /\ Cardinality(By(S, x)) = Cardinality(By(R, x))
<1>1. S = {f[r] : r \in R} /\ \A r, q \in R : f[r] = f[q] => r = q
  BY DEF CopyOf
<1>2. Cardinality(S) = Cardinality(R)
  BY <1>1, AsManyImages
<1> DEFINE A == By(R, x)
           B == By(S, x)
<1>3. B = {f[r] : r \in A}
  BY DEF CopyOf, By
<1>4. A \in SUBSET R
  BY DEF By
<1> HIDE DEF A, B
<1>5. IsFiniteSet(A)
  BY <1>4, FS_Subset
<1>6. \A r, q \in A : f[r] = f[q] => r = q
  BY <1>1, <1>4
<1>7. Cardinality(B) = Cardinality(A)
  BY <1>3, <1>5, <1>6, AsManyImages
<1> QED
  BY <1>2, <1>7 DEF A, B

LEMMA MetIsFinite == ASSUME events \in Seq(Crossings) PROVE IsFiniteSet(Met)
<1> DEFINE acc == [i \in DOMAIN events |-> events[i].account]
<1>1. IsFiniteSet(DOMAIN events)
  <2>1. DOMAIN events = 1..Len(events) /\ Len(events) \in Nat
    OBVIOUS
  <2> QED
    BY <2>1, FS_Interval
<1>2. Met = {acc[i] : i \in DOMAIN events}
  BY DEF Met
<1> HIDE DEF acc
<1> QED
  BY <1>1, <1>2, ImageIsFinite

\* Where an account is timed.
CommittedAt(a) == DecisiveBlock(EventsOf(a), SumOf(EventsOf(a)))

\* Who is called early is no later than half of the accounts that could be resolved.
EarlyIsEarly(made) ==
  LET resolved == {q \in made : q.cls # "ROUTE_UNRESOLVED"}
  IN \A r \in made : r.cls = "EARLY_TOP_OUTFLOW"
                       => 2 * Cardinality(By(resolved, r.L)) >= Cardinality(resolved)

LEMMA ClassesAreEarned ==
  ASSUME events \in Seq(Crossings), \A a \in Met : Timing(CommittedAt(a)) \in Int
  PROVE  EarlyIsEarly(Classify(Unclassified))
<1> DEFINE entry(a) ==
             LET s == EventsOf(a)  b == DecisiveBlock(s, SumOf(s))
             IN [account |-> a, E |-> SumOf(s), block |-> b, L |-> Timing(b),
                 cls |-> IF a \in Intermediaries THEN "ROUTE_UNRESOLVED" ELSE "none"]
           raw == Unclassified
           resolved == {r \in raw : r.cls = "none"}
           outflows == {r \in resolved : r.E > 0}
           K == IF outflows = {} THEN 1 ELSE (Cardinality(outflows) + 19) \div 20
           met(r) == Min({i \in DOMAIN events : events[i].account = r.account})
           rank(r) == Cardinality({q \in outflows : q.E > r.E \/ (q.E = r.E /\ met(q) < met(r))})
           early(r) == rank(r) < K /\ PastMedian(r.L, resolved)
           class(r) ==
             CASE r.E < 0 -> "NET_INFLOW" [] r.E = 0 -> "NET_ZERO"
               [] OTHER -> IF early(r) THEN "EARLY_TOP_OUTFLOW" ELSE "NET_OUTFLOW"
           final(r) == IF r.cls # "none" THEN r ELSE [r EXCEPT !.cls = class(r)]
           out == Classify(Unclassified)
           open == {q \in out : q.cls # "ROUTE_UNRESOLVED"}
<1>1. raw = {entry(a) : a \in Met}
  <2>1. Met = {e.account : e \in ToSet(events)}
    BY DEF Met, ToSet
  <2> QED
    BY <2>1 DEF Unclassified
<1>2. out = {final(r) : r \in raw}
  BY DEF Classify
<1>3. \A r : /\ class(r) # "ROUTE_UNRESOLVED"
             /\ class(r) = "EARLY_TOP_OUTFLOW" => PastMedian(r.L, resolved)
  <2> HIDE DEF resolved, rank, K
  <2> QED
    OBVIOUS
<1> HIDE DEF class, K, met, rank, early
<1>4. \A a \in Met : /\ entry(a).account = a /\ entry(a).L = Timing(CommittedAt(a))
                     /\ entry(a).cls \in {"none", "ROUTE_UNRESOLVED"}
                     /\ entry(a).cls = "none" =>
                          /\ final(entry(a)).account = a /\ final(entry(a)).L = entry(a).L
                          /\ final(entry(a)).cls = class(entry(a))
  BY DEF CommittedAt
<1> HIDE DEF entry
<1>5. \A r \in raw : /\ r.account \in Met /\ r = entry(r.account) /\ r.L \in Int
                     /\ r.cls \in {"none", "ROUTE_UNRESOLVED"}
                     /\ r.cls = "none" =>
                          /\ final(r).account = r.account /\ final(r).L = r.L
                          /\ final(r).cls = class(r)
                     /\ r.cls # "none" => final(r) = r
  BY <1>1, <1>4
<1> HIDE DEF final, raw
<1>6. IsFiniteSet(resolved)
  <2> DEFINE rowOf == [a \in Met |-> entry(a)]
  <2>1. raw = {rowOf[a] : a \in Met}
    BY <1>1
  <2> HIDE DEF rowOf
  <2>2. IsFiniteSet(raw)
    BY <2>1, MetIsFinite, ImageIsFinite
  <2> QED
    BY <2>2, FS_Subset
<1> DEFINE f == [r \in resolved |-> final(r)]
<1>7. \A r \in resolved : /\ r \in raw /\ f[r] = final(r) /\ f[r].L = r.L /\ f[r].cls = class(r)
                          /\ f[r].account = r.account
  BY <1>5
<1>8. CopyOf(open, resolved, f)
  <2>1. open = {f[r] : r \in resolved}
    <3>1. \A q \in open : \E r \in resolved : q = f[r]
      BY <1>2, <1>5, <1>7
    <3>2. \A r \in resolved : f[r] \in open
      BY <1>2, <1>3, <1>7
    <3> HIDE DEF f, open, resolved
    <3> QED
      BY <3>1, <3>2
  <2>2. \A r, q \in resolved : f[r] = f[q] => r = q
    <3> HIDE DEF f, resolved
    <3> QED
      BY <1>5, <1>7
  <2> HIDE DEF f, open, resolved
  <2> QED
    BY <1>7, <2>1, <2>2 DEF CopyOf
<1>9. Timed(resolved)
  BY <1>5, <1>6 DEF Timed
<1>10. ASSUME NEW r \in out, r.cls = "EARLY_TOP_OUTFLOW"
       PROVE  2 * Cardinality(By(open, r.L)) >= Cardinality(open)
  <2>1. PICK p \in raw : r = final(p)
    BY <1>2
  <2>2. p \in resolved
    BY <1>5, <1>10, <2>1
  <2> DEFINE x == r.L
  <2>3. x = p.L /\ x \in Int /\ resolved # {}
    BY <1>5, <2>1, <2>2
  <2>4. PastMedian(x, resolved)
    BY <1>3, <1>5, <1>10, <2>1, <2>2, <2>3
  <2> HIDE DEF x, resolved, open, f
  <2>5. 2 * Cardinality(By(resolved, x)) >= Cardinality(resolved)
    BY <1>9, <2>3, <2>4, PastMedianIsHalf
  <2>6. Cardinality(open) = Cardinality(resolved) /\ Cardinality(By(open, x)) = Cardinality(By(resolved, x))
    BY <1>6, <1>8, CopiesCountAlike
  <2> QED
    BY <2>5, <2>6 DEF x
<1> HIDE DEF open, out
<1>11. open = {q \in out : q.cls # "ROUTE_UNRESOLVED"}
  BY DEF open
<1>12. EarlyIsEarly(out)
  BY <1>10, <1>11 DEF EarlyIsEarly
<1> QED
  BY <1>12 DEF out

-----------------------------------------------------------------------------
(* The report is made. *)

\* What was taken from an account's events up to a block is what the chain has.
LEMMA EventsAreTaken ==
  ASSUME PraedaShape, EventsAreWhole, evmPc = "code", ~hole, NEW a \in Outside,
         NEW b \in FromBlock..ToBlock
  PROVE  /\ Taken(EventsOf(a), b) = NetTaken(a, b)
         /\ Total(events, Counted(Span(a, b))) = NetTaken(a, b)
<1> DEFINE A == Span(a, b)
<1>1. history \in Seq(Transfers) /\ events \in Seq(Crossings)
  BY DEF PraedaShape
<1>2. A \in SUBSET Moments
  BY PraedaAssumption DEF Span, Moments
<1>3. Total(events, Counted(A)) = Gains(A)
  BY <1>2 DEF EventsAreWhole
<1>4. Gains(A) = NetTaken(a, b)
  BY <1>1, GainsAreTaken
<1>5. Taken(EventsOf(a), b) = Total(events, Counted(A))
  BY <1>1, SumOfItsEvents DEF Taken
<1> QED
  BY <1>3, <1>4, <1>5

LEMMA MetHasEvents ==
  ASSUME events \in Seq(Crossings), NEW a \in Met
  PROVE  Len(EventsOf(a)) # 0
<1> DEFINE T == {e \in ToSet(events) : e.account = a}
           s == Filter(events, T)
<1>1. KeptFrom(s, events, T, Len(events))
  <2> HIDE DEF T
  <2> QED
    BY FilterInOrder
<1>2. PICK i \in 1..Len(events) : events[i].account = a
  BY DEF Met
<1>3. events[i] \in T
  BY <1>2 DEF ToSet
<1> HIDE DEF s, T
<1>4. \E k \in 1..Len(s) : s[k] = events[i]
  BY <1>1, <1>2, <1>3 DEF KeptFrom
<1>5. Len(s) # 0
  BY <1>4
<1> QED
  BY <1>5 DEF s, T, EventsOf

\* Where an account is timed is where its events settle.
LEMMA MetSettles ==
  ASSUME events \in Seq(Crossings), OutsFirst(events), NEW a \in Met
  PROVE  /\ CommittedAt(a) \in FromBlock..ToBlock
         /\ \A c \in CommittedAt(a)..ToBlock : SameSide(Taken(EventsOf(a), c), SumOf(EventsOf(a)))
         /\ SumOf(EventsOf(a)) > 0 =>
              \A b \in FromBlock..CommittedAt(a) - 1 :
                \E c \in b..ToBlock : ~SameSide(Taken(EventsOf(a), c), SumOf(EventsOf(a)))
<1> DEFINE s == EventsOf(a)
           total == SumOf(s)
           d == DecisiveBlock(s, total)
<1>1. s \in Seq(Crossings)
  BY SumOfItsEvents
<1>2. OutsFirst(s)
  BY FilterKeepsOuts DEF EventsOf
<1>3. Len(s) # 0
  BY MetHasEvents
<1>4. total = SumOf(s) /\ d = DecisiveBlock(s, total)
  OBVIOUS
<1> HIDE DEF s, total, d
<1>5. /\ d \in FromBlock..ToBlock
      /\ \A c \in d..ToBlock : SameSide(Taken(s, c), total)
      /\ total > 0 => \A b \in FromBlock..d - 1 :
                        \E c \in b..ToBlock : ~SameSide(Taken(s, c), total)
  BY <1>1, <1>2, <1>3, <1>4, DecisiveSettles
<1>6. CommittedAt(a) = d /\ EventsOf(a) = s /\ SumOf(EventsOf(a)) = total
  BY DEF CommittedAt, d, total, s
<1> QED
  BY <1>5, <1>6

LEMMA RowsCommit ==
  ASSUME PraedaShape, EventsAreWhole, InTurn, CurveIsWhole, evmPc = "code", ~hole,
         NEW made, made = Classify(Unclassified)
  PROVE  /\ \A r \in made :
              /\ Settled(r.account, r.block)
              /\ r.E > 0 => \A b \in FromBlock..r.block - 1 : ~Settled(r.account, b)
         /\ EarlyIsEarly(made)
<1>1. events \in Seq(Crossings) /\ OutsFirst(events) /\ Curve(points)
  BY DEF PraedaShape, InTurn, CurveIsWhole
<1>2. EarlyIsEarly(made)
  <2>1. ASSUME NEW a \in Met
        PROVE  Timing(CommittedAt(a)) \in Int
    <3>1. CommittedAt(a) \in FromBlock..ToBlock
      BY <1>1, MetSettles
    <3> QED
      BY <1>1, <3>1, TimingIsInt
  <2> QED
    BY <1>1, <2>1, ClassesAreEarned
<1>3. ASSUME NEW r \in made
      PROVE  /\ Settled(r.account, r.block)
             /\ r.E > 0 => \A b \in FromBlock..r.block - 1 : ~Settled(r.account, b)
  <2> DEFINE a == r.account
             d == r.block
             total == r.E
  <2>1. a \in Met /\ total = SumOf(EventsOf(a)) /\ d = CommittedAt(a)
    <3>1. RowPerAccount(made)
      BY <1>1, RowsAreAccounts
    <3>2. r.account \in Met /\ r.E = SumOf(EventsOf(r.account))
          /\ r.block = DecisiveBlock(EventsOf(r.account), r.E)
      BY <3>1 DEF RowPerAccount
    <3> QED
      BY <3>2 DEF CommittedAt
  <2>2. a \in Outside
    <3>1. PICK i \in 1..Len(events) : events[i].account = a
      BY <1>1, <2>1 DEF Met
    <3> QED
      BY <3>1 DEF PraedaShape
  <2> HIDE DEF a, d, total
  <2>3. /\ d \in FromBlock..ToBlock
        /\ \A c \in d..ToBlock : SameSide(Taken(EventsOf(a), c), total)
        /\ total > 0 => \A b \in FromBlock..d - 1 :
                          \E c \in b..ToBlock : ~SameSide(Taken(EventsOf(a), c), total)
    BY <1>1, <2>1, MetSettles
  <2>4. \A c \in FromBlock..ToBlock : Taken(EventsOf(a), c) = NetTaken(a, c)
    BY <2>2, EventsAreTaken
  <2>5. FromBlock \in Nat /\ ToBlock \in Nat /\ FromBlock <= ToBlock /\ d \in Int
    BY <2>3, PraedaAssumption
  <2>6. total = NetTaken(a, ToBlock)
    <3>1. Taken(EventsOf(a), ToBlock) = total
      BY <1>1, <2>1, SumOfItsEvents, AllOfThem DEF Taken
    <3> QED
      BY <2>4, <2>5, <3>1
  <2>7. Settled(a, d)
    <3>1. \A c \in d..ToBlock : c \in FromBlock..ToBlock
      BY <2>3, <2>5
    <3> QED
      BY <2>3, <2>4, <2>6, <3>1 DEF Settled
  <2>8. ASSUME total > 0, NEW b \in FromBlock..d - 1
        PROVE  ~Settled(a, b)
    <3>1. PICK c \in b..ToBlock : ~SameSide(Taken(EventsOf(a), c), total)
      BY <2>3, <2>8
    <3>2. c \in FromBlock..ToBlock
      BY <2>5
    <3> QED
      BY <2>4, <2>6, <3>1, <3>2 DEF Settled
  <2> QED
    BY <2>7, <2>8 DEF a, d, total
<1> QED
  BY <1>2, <1>3

LEMMA ResolveEndpointsKeeps ==
  PraedaShape /\ EventsAreWhole /\ ResolveEndpoints
    => PraedaShape' /\ EventsAreWhole' /\ LedgerIsWhole'
<1> SUFFICES ASSUME PraedaShape, EventsAreWhole, ResolveEndpoints
             PROVE  PraedaShape' /\ EventsAreWhole' /\ LedgerIsWhole'
  OBVIOUS
<1> DEFINE made == Classify(Unclassified)
<1>1. PICK failed : ledger' = [verdict |-> "RECONSTRUCTED", rows |-> made,
                               clusters |-> ClustersOf(made, failed)]
  BY DEF ResolveEndpoints
<1>2. /\ evmPc = "code" /\ evmPc' = "done" /\ UNCHANGED <<history, chunk, events, hole, points>>
      /\ history \in Seq(Transfers) /\ events \in Seq(Crossings)
      /\ \A i \in 1..Len(events) : events[i].account \in Outside
  BY DEF ResolveEndpoints, PraedaShape
<1>3. PraedaShape' /\ EventsAreWhole'
  BY <1>2 DEF PraedaShape, EventsAreWhole, Moments, Outside
<1>4. RowPerAccount(made)
  BY <1>2, RowsAreAccounts
<1> HIDE DEF made
<1>5. ASSUME ~hole
      PROVE  /\ \A r \in made : r.account \in Outside /\ r.E = NetTaken(r.account, ToBlock)
             /\ \A a \in Outside :
                  NetTaken(a, ToBlock) # 0 => \E r \in made : r.account = a
             /\ SumFunction([r \in made |-> r.E]) = Reserve - BalanceAt(ToBlock)
             /\ SumFunction([c \in ClustersOf(made, failed) |-> c.E]) = Reserve - BalanceAt(ToBlock)
             /\ \A c \in ClustersOf(made, failed) :
                  c.fp # "eoa" => \A a \in c.members : Code[a] = c.fp
  <2>1. \A A \in SUBSET Moments : Total(events, Counted(A)) = Gains(A)
    BY <1>2, <1>5 DEF EventsAreWhole
  <2>2. \A a \in Outside :
          /\ Taken(EventsOf(a), ToBlock) = NetTaken(a, ToBlock)
          /\ Total(events, Counted(Span(a, ToBlock))) = NetTaken(a, ToBlock)
    <3>1. ToBlock \in FromBlock..ToBlock
      BY PraedaAssumption
    <3> QED
      BY <1>2, <1>5, <3>1, EventsAreTaken
  <2>3. \A r \in made : r.account \in Outside /\ r.E = NetTaken(r.account, ToBlock)
    <3> SUFFICES ASSUME NEW r \in made
                 PROVE  r.account \in Outside /\ r.E = NetTaken(r.account, ToBlock)
      OBVIOUS
    <3> DEFINE a == r.account
    <3>1. a \in Met /\ r.E = SumOf(EventsOf(a))
      BY <1>4 DEF RowPerAccount
    <3>2. a \in Outside
      BY <1>2, <3>1 DEF Met
    <3> HIDE DEF a
    <3>3. SumOf(EventsOf(a)) = Taken(EventsOf(a), ToBlock)
      BY <1>2, SumOfItsEvents, AllOfThem DEF Taken
    <3>4. r.E = NetTaken(a, ToBlock)
      BY <2>2, <3>1, <3>2, <3>3
    <3> QED
      BY <3>2, <3>4 DEF a
  <2>4. \A a \in Outside : NetTaken(a, ToBlock) # 0 => \E r \in made : r.account = a
    <3> SUFFICES ASSUME NEW a \in Outside, NetTaken(a, ToBlock) # 0
                 PROVE  \E r \in made : r.account = a
      OBVIOUS
    <3>1. Total(events, Counted(Span(a, ToBlock))) # 0
      BY <2>2
    <3>2. a \in Met
      BY <1>2, <3>1, NotMetNothing
    <3> QED
      BY <1>4, <3>2 DEF RowPerAccount
  <2>5. SumFunction([r \in made |-> r.E]) = Reserve - BalanceAt(ToBlock)
    <3>1. Moments \in SUBSET Moments
      OBVIOUS
    <3>2. Total(events, Counted(Moments)) = Gains(Moments)
      BY <2>1, <3>1
    <3>3. SumFunction([r \in made |-> r.E]) = Total(events, Counted(Moments))
      BY <1>2, <1>4, RowsAddUp
    <3>4. Gains(Moments) = Reserve - BalanceAt(ToBlock)
      BY <1>2, GainsAreLost
    <3> QED
      BY <3>2, <3>3, <3>4
  <2>6. IsFiniteSet(made) /\ \A r \in made : r.E \in Int
    BY <1>2, <1>4, RowsAddUp DEF RowPerAccount
  <2>7. /\ SumFunction([c \in ClustersOf(made, failed) |-> c.E]) = SumFunction([r \in made |-> r.E])
        /\ \A c \in ClustersOf(made, failed) :
             c.fp # "eoa" => \A a \in c.members : Code[a] = c.fp
    BY <2>6, ClustersAddUp
  <2> QED
    BY <2>3, <2>4, <2>5, <2>7
<1>6. LedgerIsWhole'
  <2>1. /\ ledger'.rows = made /\ ledger'.clusters = ClustersOf(made, failed)
        /\ hole' = hole
    BY <1>1, <1>2
  <2>2. \A a : NetTaken(a, ToBlock)' = NetTaken(a, ToBlock)
    BY <1>2 DEF NetTaken
  <2>3. BalanceAt(ToBlock)' = BalanceAt(ToBlock)
    BY <1>2 DEF BalanceAt, Logs
  <2> QED
    BY <1>5, <2>1, <2>2, <2>3 DEF LedgerIsWhole, Outside
<1> QED
  BY <1>3, <1>6

LEMMA StepsKeepWhole ==
  ASSUME PraedaShape, EventsAreWhole, LedgerIsWhole, [PraedaNext]_praedaVars
  PROVE  PraedaShape' /\ EventsAreWhole' /\ LedgerIsWhole'
<1>1. CASE ServesWindow
  BY <1>1, ServesWindowKeeps
<1>2. CASE GetLogs
  BY <1>2, GetLogsKeeps
<1>3. CASE DrawdownCurve
  BY <1>3, DrawdownCurveKeeps
<1>4. CASE ResolveEndpoints
  BY <1>4, ResolveEndpointsKeeps
<1>5. CASE EvmFails
  <2>1. Refuse /\ UNCHANGED <<chunk, events, hole, points>> /\ history' \in Seq(Transfers)
    BY <1>5 DEF EvmFails, PraedaShape
  <2> QED
    BY <2>1, RefuseKeeps
<1>6. CASE UNCHANGED praedaVars
  <2>1. PraedaShape'
    BY <1>6 DEF praedaVars, PraedaShape, Outside
  <2>2. OutLimit' = OutLimit /\ InLimit' = InLimit
    BY <1>6 DEF praedaVars, OutLimit, InLimit
  <2>3. EventsAreWhole'
    <3> SUFFICES ASSUME evmPc # "done", ~hole, NEW A \in SUBSET Moments
                 PROVE  (Total(events, Counted(A)) = Gains(A))'
      BY <1>6 DEF praedaVars, EventsAreWhole, Moments, Outside
    <3>1. Total(events, Counted(A)) = Gains(A)
      BY DEF EventsAreWhole
    <3>2. Gains(A)' = Gains(A)
      BY <1>6, <2>2 DEF praedaVars, Gains, Left, Came, Worth, OutWorth, InWorth
    <3>3. Total(events, Counted(A))' = Total(events, Counted(A))
      BY <1>6 DEF praedaVars, Total, Worth, Counted, Crossings
    <3> QED
      BY <3>1, <3>2, <3>3
  <2>4. LedgerIsWhole'
    BY <1>6 DEF praedaVars, LedgerIsWhole, Reconstructed, Outside, NetTaken, BalanceAt, Logs
  <2> QED
    BY <2>1, <2>3, <2>4
<1> QED
  BY <1>1, <1>2, <1>3, <1>4, <1>5, <1>6 DEF PraedaNext

\* However the window was cut into chunks and whatever failed on the way, the ledger is
\* whole or there is none (reconstruct-evm.mjs: getLogsChunked, buildUnclassifiedLedger,
\* classifyAll, resolveEndpoints).
THEOREM LedgerIsTrue == PraedaSpec => []LedgerIsWhole
<1> DEFINE Inv == PraedaShape /\ EventsAreWhole /\ LedgerIsWhole
<1>1. PraedaInit => Inv
  BY PraedaInitHolds
<1>2. Inv /\ [PraedaNext]_praedaVars => Inv'
  BY StepsKeepWhole
<1>3. Inv => LedgerIsWhole
  OBVIOUS
<1> QED
  BY <1>1, <1>2, <1>3, PTL DEF PraedaSpec

LEMMA CommitmentsKeep ==
  ASSUME PraedaShape, EventsAreWhole, InTurn, CurveIsWhole, CommitsForGood, [PraedaNext]_praedaVars
  PROVE  CommitsForGood'
<1>1. CASE ServesWindow \/ GetLogs \/ DrawdownCurve \/ EvmFails
  <2>1. ledger' = NoReport \/ ledger'.verdict = "UNRECONSTRUCTED"
    BY <1>1 DEF ServesWindow, GetLogs, DrawdownCurve, EvmFails, Refuse, PraedaShape
  <2> QED
    BY <2>1 DEF CommitsForGood, Reconstructed
<1>2. CASE ResolveEndpoints
  <2> DEFINE made == Classify(Unclassified)
  <2>1. /\ evmPc = "code" /\ UNCHANGED <<history, hole>> /\ ledger'.rows = made
    BY <1>2 DEF ResolveEndpoints
  <2>2. ASSUME ~hole
        PROVE  /\ \A r \in made :
                    /\ Settled(r.account, r.block)
                    /\ r.E > 0 => \A b \in FromBlock..r.block - 1 : ~Settled(r.account, b)
               /\ EarlyIsEarly(made)
    <3>1. made = Classify(Unclassified)
      OBVIOUS
    <3> HIDE DEF made
    <3> QED
      BY <2>1, <2>2, <3>1, RowsCommit
  <2>3. \A a, b : Settled(a, b)' <=> Settled(a, b)
    <3>1. \A a, c : NetTaken(a, c)' = NetTaken(a, c)
      BY <2>1 DEF NetTaken
    <3> QED
      BY <3>1 DEF Settled
  <2> HIDE DEF made
  <2> QED
    BY <2>1, <2>2, <2>3 DEF CommitsForGood, EarlyIsEarly, By
<1>3. CASE UNCHANGED praedaVars
  <2>1. \A a, b : Settled(a, b)' <=> Settled(a, b)
    <3>1. \A a, c : NetTaken(a, c)' = NetTaken(a, c)
      BY <1>3 DEF praedaVars, NetTaken
    <3> QED
      BY <3>1 DEF Settled
  <2> QED
    BY <1>3, <2>1 DEF praedaVars, CommitsForGood, Reconstructed
<1> QED
  BY <1>1, <1>2, <1>3 DEF PraedaNext

\* The block an account is said to have committed at is one from which what it took never
\* again left the terminal half of what it took in the end, the first such block for who took
\* more than it gave, and who is called early was no later than half of those that could be
\* resolved (reconstruct-evm.mjs: decisiveBlock, drawdownAt, classifyAll).
THEOREM CommitmentsHold == PraedaSpec => []CommitsForGood
<1> DEFINE Inv == PraedaShape /\ EventsAreWhole /\ LedgerIsWhole /\ InTurn /\ CurveIsWhole
                  /\ CommitsForGood
<1>1. PraedaInit => Inv
  <2> SUFFICES ASSUME PraedaInit
               PROVE  Inv
    OBVIOUS
  <2>1. InTurn /\ CurveIsWhole /\ CommitsForGood
    BY DEF PraedaInit, InTurn, OutsFirst, CurveIsWhole, CommitsForGood, Reconstructed
  <2> QED
    BY <2>1, PraedaInitHolds
<1>2. Inv /\ [PraedaNext]_praedaVars => Inv'
  BY StepsKeepWhole, StepsStayInTurn, CommitmentsKeep
<1>3. Inv => CommitsForGood
  OBVIOUS
<1> QED
  BY <1>1, <1>2, <1>3, PTL DEF PraedaSpec
=============================================================================
