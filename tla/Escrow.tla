------------------------------- MODULE Escrow -------------------------------
(***************************************************************************)
(* What the bond ledger promises: the stakes put on a claim go into one    *)
(* pot, the pot leaves the ledger once, and who receives it is decided by  *)
(* re-executing the body the claim was contested with, which nothing ties  *)
(* to the body its claimer bonded.  Bond.tla is shown to implement this.   *)
(***************************************************************************)
EXTENDS Integers

CONSTANTS
  Claims,       \* claim ids
  Nodes,        \* claimers and challengers
  Bodies,       \* what the judge reads of a claim
  FalseBodies,  \* the bodies canonical re-execution contradicts
  Stakes,       \* stake sizes
  Cut(_)        \* the treasury's share of a lost stake

VARIABLES
  balance,      \* Nodes -> Int, net of everything locked
  treasury,     \* what lost stakes have paid to the treasury
  pot           \* Claims -> the stakes on the claim

evars == <<balance, treasury, pot>>

NoPot == [stage |-> "none"]
Bonded(n, a) == [stage |-> "bonded", by |-> n, put |-> a]
Contested(n, a, m, b, body) ==
  [stage |-> "contested", by |-> n, put |-> a, rival |-> m, against |-> b, body |-> body]
Settled == [stage |-> "settled"]

EInit ==
  /\ balance = [n \in Nodes |-> 0]
  /\ treasury = 0
  /\ pot = [c \in Claims |-> NoPot]

\* A claimer puts a stake behind a claim that has none.
Stake(c, n, a) ==
  /\ pot[c] = NoPot
  /\ pot' = [pot EXCEPT ![c] = Bonded(n, a)]
  /\ balance' = [balance EXCEPT ![n] = @ - a]
  /\ UNCHANGED treasury

\* A challenger puts a stake against a bonded claim and brings a body of it.
Contest(c, n, a, body) ==
  /\ pot[c].stage = "bonded"
  /\ pot' = [pot EXCEPT ![c] = Contested(@.by, @.put, n, a, body)]
  /\ balance' = [balance EXCEPT ![n] = @ - a]
  /\ UNCHANGED treasury

\* The pot goes to the challenger if re-execution contradicts the body it brought, else
\* to the claimer, less the treasury's share of the loser's stake.
Award(c) ==
  LET loss   == IF pot[c].body \in FalseBodies THEN pot[c].put ELSE pot[c].against
      winner == IF pot[c].body \in FalseBodies THEN pot[c].rival ELSE pot[c].by
  IN /\ pot[c].stage = "contested"
     /\ pot' = [pot EXCEPT ![c] = Settled]
     /\ balance' = [balance EXCEPT ![winner] =
                      @ + pot[c].put + pot[c].against - Cut(loss)]
     /\ treasury' = treasury + Cut(loss)

\* An uncontested stake goes back to whoever put it.
Release(c) ==
  /\ pot[c].stage = "bonded"
  /\ pot' = [pot EXCEPT ![c] = Settled]
  /\ balance' = [balance EXCEPT ![pot[c].by] = @ + pot[c].put]
  /\ UNCHANGED treasury

ENext ==
  \E c \in Claims :
    \/ \E n \in Nodes, a \in Stakes :
         Stake(c, n, a) \/ \E body \in Bodies : Contest(c, n, a, body)
    \/ Award(c)
    \/ Release(c)

ESpec == EInit /\ [][ENext]_evars
=============================================================================
