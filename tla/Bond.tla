-------------------------------- MODULE Bond --------------------------------
(***************************************************************************)
(* vesper/bond.mjs: the ledger in which a node bonds a claim, a challenger *)
(* stakes against it, the judge adjudicates and the stakes settle.  The    *)
(* three exported operations share one ledger object.  postClaim and       *)
(* finalize run to completion; challenge() suspends at                     *)
(* `await adjudicate(...)`, after the challenger has been debited and      *)
(* before anything settles, so it is two actions here.                     *)
(*                                                                         *)
(* Amounts are integers in units of the ledger's sixth decimal             *)
(* (toFixed(6)).  A claim is the id the ledger files it under and a body,  *)
(* what the judge reads of it.  The entry keeps no trace of the body that  *)
(* was bonded, so challenge() finds it by the id of the claim it is handed *)
(* and the judge rules on the body handed in: valid exactly when it is not *)
(* in FalseBodies, or it throws.                                           *)
(***************************************************************************)
EXTENDS Integers, FiniteSets, Functions

CONSTANTS
  Claims,       \* claim ids
  Nodes,        \* claimers and challengers
  Bodies,       \* what the judge reads of a claim: its inputs and its verdict
  FalseBodies,  \* the bodies canonical re-execution contradicts
  Stakes,       \* the bond sizes a caller may pass
  WindowSecs,   \* the challenge window a claimer may pass
  MaxTime,      \* bound on the clock the callers read nowTs from
  Overlap,      \* may an operation start while a challenge awaits the judge?
  MaxThrows,    \* bound on the adjudications that throw (RPC failure, claim_type
                \* the judge does not know); 0: the judge always answers
  None          \* an absent entry, challenge or call

\* The binary fraction decides how half a unit rounds: no stake has a tenth there.
ASSUME StakeAssumption == Stakes \subseteq Nat /\ \A s \in Stakes : s % 10 # 5
ASSUME WindowAssumption == WindowSecs \subseteq Nat /\ MaxTime \in Nat
ASSUME FiniteAssumption == IsFiniteSet(Claims) /\ IsFiniteSet(Nodes)
ASSUME BodyAssumption == FalseBodies \subseteq Bodies
ASSUME ModeAssumption == Overlap \in BOOLEAN /\ MaxThrows \in Nat

VARIABLES
  bonds,     \* state.bonds: Claims -> entry, or None
  balances,  \* state.balances
  treasury,  \* state.treasury
  calls,     \* challenger -> the challenge() call it awaits, or None
  stranded,  \* challenger -> stakes debited by calls that threw (history)
  rash,      \* nodes that bonded a false body or challenged with a true one (history)
  swapped,   \* node -> the bonds a body it never vouched for cost it (history)
  throws,    \* the adjudications that threw so far
  now        \* the clock

vars == <<bonds, balances, treasury, calls, stranded, rash, swapped, throws, now>>

States == {"POSTED", "SLASHED", "CHALLENGE_FAILED", "FINALIZED"}

\* closes is posted_ts + window_secs.  Nothing reads the verdict or b.challenge: left
\* out.  vouched, the body handed to postClaim, is history: the ledger forgets it.
Entry == [state : States, node : Nodes, bond : Stakes, closes : Nat, vouched : Bodies]

\* The claim handed to challenge(): the id it carries and its body.
Call == [claim : Claims, stake : Stakes, body : Bodies]

ASSUME NoneAssumption == None \notin Entry \cup Call

\* TREASURY_CUT: a tenth, rounded to the sixth decimal.
CutSigned(amount) == -((amount + 5) \div 10)
Cut(amount) == (amount + 5) \div 10

\* What the winner of a ruling is credited: the own stake and the lost one, less
\* the cut.
PayoutKeepsCut(own, lost) == own + lost
PayoutForgetsOwn(own, lost) == lost - Cut(lost)
Payout(own, lost) == own + (lost - Cut(lost))

\* credit(): s.balances[who] += amt, at the sixth decimal.
CreditedAtFive(who, amt) == [balances EXCEPT ![who] = ((@ + amt) \div 10) * 10]
Credited(who, amt) == [balances EXCEPT ![who] = @ + amt]

\* The state of the entry is not looked at.
IsKnown(c) == bonds[c] # None
IsPosted(c) == bonds[c] # None /\ bonds[c].state = "POSTED"

\* The repository's own caller awaits each operation before the next one.
MayStart == Overlap \/ \A n \in Nodes : calls[n] = None

Init ==
  /\ bonds = [c \in Claims |-> None]
  /\ balances = [n \in Nodes |-> 0]
  /\ treasury = 0
  /\ calls = [n \in Nodes |-> None]
  /\ stranded = [n \in Nodes |-> 0]
  /\ rash = {}
  /\ swapped = [n \in Nodes |-> 0]
  /\ throws = 0
  /\ now = 0

PostClaim(c, n, bond, window, body) ==
  /\ MayStart
  /\ bonds[c] = None
  /\ balances' = Credited(n, -bond)
  /\ bonds' = [bonds EXCEPT ![c] = [state |-> "POSTED", node |-> n, bond |-> bond,
                                    closes |-> now + window, vouched |-> body]]
  /\ rash' = rash \cup {m \in {n} : body \in FalseBodies}
  /\ UNCHANGED <<treasury, calls, stranded, swapped, throws, now>>

\* challenge() up to its await: any body that carries the id of a POSTED entry.  A node
\* has at most one call in flight.
Challenge(c, n, stake, body) ==
  /\ MayStart
  /\ calls[n] = None
  /\ IsPosted(c)
  /\ balances' = Credited(n, -stake)
  /\ calls' = [calls EXCEPT ![n] = [claim |-> c, stake |-> stake, body |-> body]]
  /\ rash' = rash \cup {m \in {n} : body \notin FalseBodies}
  /\ UNCHANGED <<bonds, treasury, stranded, swapped, throws, now>>

\* challenge() from the ruling on.  The entry is the one read before the await
\* and its state is not looked at again.
Settle(n) ==
  LET c     == calls[n].claim
      b     == bonds[c]
      stake == calls[n].stake
      body  == calls[n].body
  IN /\ calls[n] # None
     /\ \/ /\ body \in FalseBodies
           /\ balances' = Credited(n, Payout(stake, b.bond))
           /\ treasury' = treasury + Cut(b.bond)
           /\ bonds' = [bonds EXCEPT ![c].state = "SLASHED"]
           /\ swapped' = [swapped EXCEPT ![b.node] =
                           @ + IF b.state = "POSTED" /\ body # b.vouched THEN b.bond ELSE 0]
        \/ /\ body \notin FalseBodies
           /\ balances' = Credited(b.node, Payout(b.bond, stake))
           /\ treasury' = treasury + Cut(stake)
           /\ bonds' = [bonds EXCEPT ![c].state = "CHALLENGE_FAILED"]
           /\ UNCHANGED swapped
     /\ calls' = [calls EXCEPT ![n] = None]
     /\ UNCHANGED <<stranded, rash, throws, now>>

\* adjudicate() throws: challenge() rejects, and nothing takes the debit back.
AdjudicateThrows(n) ==
  /\ throws < MaxThrows
  /\ calls[n] # None
  /\ stranded' = [stranded EXCEPT ![n] = @ + calls[n].stake]
  /\ calls' = [calls EXCEPT ![n] = None]
  /\ throws' = throws + 1
  /\ UNCHANGED <<bonds, balances, treasury, rash, swapped, now>>

Finalize(c) ==
  /\ MayStart
  /\ IsPosted(c)
  /\ now >= bonds[c].closes
  /\ balances' = Credited(bonds[c].node, bonds[c].bond)
  /\ bonds' = [bonds EXCEPT ![c].state = "FINALIZED"]
  /\ UNCHANGED <<treasury, calls, stranded, rash, swapped, throws, now>>

Tick ==
  /\ now < MaxTime
  /\ now' = now + 1
  /\ UNCHANGED <<bonds, balances, treasury, calls, stranded, rash, swapped, throws>>

Next ==
  \/ \E c \in Claims, n \in Nodes, s \in Stakes, body \in Bodies :
       \/ \E w \in WindowSecs : PostClaim(c, n, s, w, body)
       \/ Challenge(c, n, s, body)
  \/ \E n \in Nodes : Settle(n) \/ AdjudicateThrows(n)
  \/ \E c \in Claims : Finalize(c)
  \/ Tick

Spec == Init /\ [][Next]_vars

-----------------------------------------------------------------------------
(* The promises of the ledger. *)

TypeOK ==
  /\ bonds \in [Claims -> Entry \cup {None}]
  /\ balances \in [Nodes -> Int]
  /\ treasury \in Nat
  /\ calls \in [Nodes -> Call \cup {None}]
  /\ stranded \in [Nodes -> Nat]
  /\ rash \subseteq Nodes
  /\ swapped \in [Nodes -> Nat]
  /\ throws \in 0..MaxThrows
  /\ now \in 0..MaxTime

\* An awaited challenge is against a claim the ledger has an entry for, and when
\* operations do not overlap that entry is still POSTED and the call is alone.
\* This is what makes the entry read before the await good after it.
AwaitedIsBonded ==
  \A n \in Nodes : calls[n] # None =>
    /\ bonds[calls[n].claim] # None
    /\ ~Overlap =>
         /\ bonds[calls[n].claim].state = "POSTED"
         /\ \A m \in Nodes \ {n} : calls[m] = None

\* What the ledger owes: the bonds of the open claims and the stakes in flight.
Locked == [c \in Claims |-> IF IsPosted(c) THEN bonds[c].bond ELSE 0]
InFlight == [n \in Nodes |-> IF calls[n] # None THEN calls[n].stake ELSE 0]

\* Money is neither created nor destroyed: at every instant what the nodes are
\* owed and owe, the treasury, and what is locked, in flight or stranded sum to
\* zero (credit, postClaim, challenge and finalize together).
Conservation ==
  SumFunction(balances) + treasury + SumFunction(Locked)
    + SumFunction(InFlight) + SumFunction(stranded) = 0

\* A claim leaves POSTED once: SLASHED, CHALLENGE_FAILED and FINALIZED entries
\* are never paid out again or relabelled (the state checks of challenge and
\* finalize).
SettledForGood ==
  [][\A c \in Claims :
       bonds[c] # None /\ bonds[c].state # "POSTED" => bonds'[c] = bonds[c]]_vars

\* The bonds and stakes node n has at risk.
HisBonds(n) == [c \in Claims |-> IF IsPosted(c) /\ bonds[c].node = n
                                 THEN bonds[c].bond ELSE 0]
AtRisk(n) == SumFunction(HisBonds(n)) + InFlight[n]

\* Honesty costs nothing but this: a node that only bonds bodies re-execution confirms
\* and only challenges with bodies it contradicts never has less than it put at risk,
\* whatever the others post, challenge and finalize meanwhile, except for the stakes
\* thrown adjudications took and for the bonds it lost to another body under the id of
\* its claim, which challenge() never compares with the one bonded.
HonestyIsFree ==
  \A n \in Nodes \ rash : balances[n] + AtRisk(n) + stranded[n] + swapped[n] >= 0

(***************************************************************************)
(* The refinement: the pot of a claim is its bond while POSTED, with the   *)
(* stake of the challenge in flight against it, and empty once settled.    *)
(***************************************************************************)
Against(c) == {n \in Nodes : calls[n] # None /\ calls[n].claim = c}

Pot(c) ==
  LET n == CHOOSE m \in Nodes : m \in Against(c)
      b == bonds[c]
  IN IF b = None THEN [stage |-> "none"]
     ELSE IF b.state # "POSTED" THEN [stage |-> "settled"]
     ELSE IF Against(c) = {} THEN [stage |-> "bonded", by |-> b.node, put |-> b.bond]
     ELSE [stage |-> "contested", by |-> b.node, put |-> b.bond,
           rival |-> n, against |-> calls[n].stake, body |-> calls[n].body]

E == INSTANCE Escrow WITH balance <- balances, pot <- [c \in Claims |-> Pot(c)]

\* One call at a time and a judge that answers: the ledger is an escrow whose
\* pots are paid out once, to the side that re-execution of the contesting body names.
EscrowSpec == E!ESpec
=============================================================================
