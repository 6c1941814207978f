----------------------------- MODULE StakePool -----------------------------
(***************************************************************************)
(* An SPL stake pool on chain, as redde/verify.mjs reads it: the header,   *)
(* the mint, the reserve, the validator list and the stake accounts, at    *)
(* one slot.  The program that changes them is not part of the repository: *)
(* the operations are those whose effect on these fields INVARIANT_SPEC.md *)
(* describes.  Amounts are small integers (lamports, shares).              *)
(***************************************************************************)
EXTENDS Integers

CONSTANTS
  Rent,      \* the reserve's rent-exempt minimum
  Amounts    \* lamports and shares moved by one operation

ASSUME PoolAssumption == Rent \in Nat /\ Amounts \subseteq Nat \ {0}

\* One validator.  `list` is what the pool records of it (stamp: the epoch it was
\* last updated in), `stake` what its two
\* canonical stake accounts hold, `parked` what third parties hold in other
\* accounts under the pool's authority; `usable` says whether the validator's
\* account is staked and owned as the pool needs it.
Pools ==
  [total : Nat, supply : Nat, updated : Nat,     \* header
   mint : Nat, reserve : Nat,
   list : [active : Nat, transient : Nat, seed : Nat, stamp : Nat],
   stake : [active : Nat, transient : Nat], usable : BOOLEAN, parked : Nat,
   epoch : Nat]                                  \* of the cluster

\* Shares for x lamports, and lamports for m shares.
Shares(p, x) == IF p.total = 0 THEN x ELSE (x * p.supply) \div p.total
Lamports(p, m) == IF p.supply = 0 THEN 0 ELSE (m * p.total) \div p.supply

Deposit(p, x) ==
  [p EXCEPT !.total = @ + x, !.reserve = @ + x,
            !.supply = @ + Shares(p, x), !.mint = @ + Shares(p, x)]

CanWithdraw(p, m) == m <= p.mint /\ m <= p.supply /\ Lamports(p, m) <= p.reserve - Rent
Withdraw(p, m) ==
  [p EXCEPT !.total = @ - Lamports(p, m), !.reserve = @ - Lamports(p, m),
            !.supply = @ - m, !.mint = @ - m]

\* A holder's direct SPL Token burn.
CanBurn(p, m) == m <= p.mint
Burn(p, m) == [p EXCEPT !.mint = @ - m]

\* Reserve to the validator's transient account.
CanDelegate(p, x) == x <= p.reserve - Rent
Delegate(p, x) ==
  [p EXCEPT !.reserve = @ - x, !.stake.transient = @ + x,
            !.list.transient = @ + x, !.list.seed = @ + 1]

\* Lamports sent to the reserve, or parked in a stake account whose withdrawer is
\* the pool.  Neither touches header or list.
Donate(p, x) == [p EXCEPT !.reserve = @ + x]
Park(p, x) == [p EXCEPT !.parked = @ + x]

\* The epoch turns and active stake is rewarded.
TurnEpoch(p) == [p EXCEPT !.epoch = @ + 1,
                          !.stake.active = IF @ > 0 THEN @ + 1 ELSE 0]

\* The once-per-epoch update: transient stake merges, the records become what the
\* accounts hold and the header what the records say.
CanUpdate(p) == p.updated < p.epoch /\ p.reserve >= Rent
Update(p) ==
  LET active == IF p.usable THEN p.stake.active + p.stake.transient ELSE 0
  IN [p EXCEPT !.list.active = active, !.list.transient = 0, !.list.stamp = p.epoch,
               !.stake.active = @ + p.stake.transient, !.stake.transient = 0,
               !.total = p.reserve - Rent + active, !.updated = p.epoch]

Successors(p) ==
  {Deposit(p, x) : x \in Amounts}
    \cup {Withdraw(p, m) : m \in {n \in Amounts : CanWithdraw(p, n)}}
    \cup {Burn(p, m) : m \in {n \in Amounts : CanBurn(p, n)}}
    \cup {Delegate(p, x) : x \in {n \in Amounts : CanDelegate(p, n)}}
    \cup {Donate(p, x) : x \in Amounts} \cup {Park(p, x) : x \in Amounts}
    \cup {TurnEpoch(p)} \cup {Update(q) : q \in {r \in {p} : CanUpdate(r)}}

\* The truth about a pool at one slot: no share beyond those the header prices, and
\* what the pool controls, net of rent, covers what it claims.
Backing(p) ==
  p.reserve - Rent + (IF p.usable THEN p.stake.active ELSE 0) + p.stake.transient
Sound(p) == p.mint <= p.supply /\ Backing(p) >= p.total

\* Header above its own records: what INV-2a looks for.
SelfContradictory(p) == p.reserve + p.list.active + p.list.transient < p.total
=============================================================================
