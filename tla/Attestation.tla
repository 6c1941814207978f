---------------------------- MODULE Attestation ----------------------------
(***************************************************************************)
(* redde/attest.mjs and redde/verify-attestation.mjs: a checker's report   *)
(* is signed on some machine, travels, and is presented to a relying party *)
(* later.  A hash is what it is of; a signature names its key and what it  *)
(* was made over; a public key is the machine's name.                      *)
(***************************************************************************)
EXTENDS Integers, FiniteSets

CONSTANTS
  Signers,    \* the machines, each with its key
  Subjects,      \* what is attested: pools, Marinade's state account
  TTL_SLOTS,  \* how long an attestation is good for
  MAX_TTL_SLOTS,  \* the longest the verifier accepts
  MaxSlot,    \* bound on the slots
  MaxSigned,  \* bound on the attestations signed
  None

ASSUME AttestationAssumption ==
  /\ {TTL_SLOTS, MAX_TTL_SLOTS, MaxSlot, MaxSigned} \subseteq Nat
  /\ TTL_SLOTS <= MAX_TTL_SLOTS /\ None \notin Signers \cup Subjects \cup Int

VARIABLES
  slot,     \* the chain's slot
  report,   \* the last report of a checker
  signed,   \* what was signed: by whom, of which report, as which class, the attestation
  ruling    \* the last answer to a relying party

attVars == <<slot, report, signed, ruling>>

Classes == {"spl", "marinade"}
Slots == 0..MaxSlot
Reports ==
  [shape : Classes, target : Subjects, verdict : {"GREEN", "RED", "STALE"}, slot : Slots \cup {None}]

AttInit == slot = 0 /\ report = None /\ signed = {} /\ ruling = None

-----------------------------------------------------------------------------
\* bindingFrom: of the report all but the class, which the caller names.
BindingFrom(v, cls, signer) ==
  [class |-> cls, target |-> v.target, verdict |-> v.verdict, signer |-> signer,
   issued_at_slot |-> v.slot,
   expiry_slot |-> IF v.slot = None THEN None ELSE v.slot + TTL_SLOTS]

Sign(signer, binding) ==
  [binding |-> binding, claim_hash |-> binding, signature |-> [key |-> signer, over |-> binding]]

\* A GREEN that could not expire is not signed.
Refused(binding) == binding.verdict = "GREEN" /\ binding.issued_at_slot = None

SchemaErrors(b) ==
  /\ b.issued_at_slot # None /\ b.expiry_slot # None
  /\ \/ b.expiry_slot < b.issued_at_slot
     \/ b.expiry_slot - b.issued_at_slot > MAX_TTL_SLOTS

SignatureVerifies(a) == a.signature = [key |-> a.binding.signer, over |-> a.claim_hash]
ValidAsSigned(a) == ~SchemaErrors(a.binding) /\ SignatureVerifies(a)
Valid(a) ==
  ~SchemaErrors(a.binding) /\ a.claim_hash = a.binding /\ SignatureVerifies(a)

\* Pinned signer, GREEN, the class and target asked for, not expired at the slot used;
\* without a slot, or an expiry, no.
Authorized(b, pin, cls, target, used) ==
  /\ b.signer = pin /\ b.verdict = "GREEN" /\ b.class = cls /\ b.target = target
  /\ used # None /\ b.expiry_slot # None /\ used <= b.expiry_slot

Answer(a, pin, cls, target, used) ==
  CASE ~Valid(a) -> "INVALID"
    [] Valid(a) /\ None \in {pin, target} -> "VALID"
    [] OTHER -> IF Authorized(a.binding, pin, cls, target, used)
                THEN "AUTHORIZED" ELSE "NOT AUTHORIZED"

-----------------------------------------------------------------------------
\* What may arrive: an attestation as signed, or damaged in a field of its binding, the
\* hash made anew or not.
Damaged(a, b) == {[a EXCEPT !.binding = b], [a EXCEPT !.binding = b, !.claim_hash = b]}
Arriving(a) ==
  LET b == a.binding
  IN {a} \cup UNION ({Damaged(a, [b EXCEPT !.target = t]) : t \in Subjects}
       \cup {Damaged(a, [b EXCEPT !.verdict = "GREEN"])}
       \cup {Damaged(a, [b EXCEPT !.signer = s]) : s \in Signers}
       \cup {Damaged(a, [b EXCEPT !.expiry_slot = e]) : e \in Slots})

\* The chain goes on.
Tick ==
  /\ ruling = None /\ slot < MaxSlot /\ slot' = slot + 1
  /\ UNCHANGED <<report, signed, ruling>>

\* A checker ran; a report cut short by an error carries no slot.
RunChecker ==
  /\ ruling = None /\ Cardinality(signed) < MaxSigned
  /\ report' \in {r \in Reports : r.slot \in {slot, None}}
  /\ UNCHANGED <<slot, signed, ruling>>

\* attest.mjs, on a report that need not be fresh.
Attest ==
  \E s \in Signers, cls \in Classes :
    LET b == BindingFrom(report, cls, s)
    IN /\ ruling = None /\ report # None /\ ~Refused(b)
       /\ signed' = signed \cup {[by |-> s, of |-> report, as |-> cls, att |-> Sign(s, b)]}
       /\ Cardinality(signed') <= MaxSigned
       /\ UNCHANGED <<slot, report, ruling>>

\* verify-attestation.mjs: the slot is the caller's, the endpoint's (which may lag), or
\* not to be had.
VerifyAttestation ==
  \E s \in signed, pin \in Signers \cup {None}, cls \in Classes, target \in Subjects \cup {None} :
    /\ ruling = None
    /\ \E a \in Arriving(s.att), used \in 0..slot \cup {None} :
         ruling' = [pin |-> pin, class |-> cls, target |-> target, used |-> used,
                    answer |-> Answer(a, pin, cls, target, used)]
    /\ UNCHANGED <<slot, report, signed>>

AttNext == Tick \/ RunChecker \/ Attest \/ VerifyAttestation

AttSpec == AttInit /\ [][AttNext]_attVars

-----------------------------------------------------------------------------
\* AUTHORIZED only where the pinned machine signed a checker's GREEN of that very target,
\* made no longer ago than the time to live, however the attestation travelled; and of
\* that class, unless whoever signed named the wrong one (attest.mjs cannot tell).
AuthorizedMeansSigned ==
  ruling # None /\ ruling.answer = "AUTHORIZED" =>
    \E s \in signed :
      /\ s.by = ruling.pin /\ s.of.verdict = "GREEN" /\ s.of.target = ruling.target
      /\ s.of.slot \in Slots /\ ruling.used <= s.of.slot + TTL_SLOTS
      /\ s.as = s.of.shape => s.of.shape = ruling.class
=============================================================================
