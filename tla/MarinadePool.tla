---------------------------- MODULE MarinadePool ----------------------------
(***************************************************************************)
(* Marinade on chain, as redde/verify-marinade.mjs reads it, at one slot:  *)
(* the state account, the mSOL mint, the reserve, one listed stake account *)
(* and the open tickets.  The program is not part of the repository; its   *)
(* operations are those the fields the checker reads are named after.      *)
(***************************************************************************)
EXTENDS Integers

CONSTANTS
  RentExempt,  \* the reserve's rent
  Amounts      \* lamports and mSOL moved by one operation

ASSUME MarinadeAssumption == RentExempt \in Nat /\ Amounts \subseteq Nat \ {0}

\* `state` is the state account, `stamp` the epoch of the stake record, `stake` what
\* the listed account holds net of rent, `open` the sum of the open tickets.
States == [supply : Nat, available : Nat, active : Nat, cooling : Nat, tickets : Nat]
Pools ==
  [state : States, mint : Nat, reserve : Nat, stamp : Nat,
   stake : Nat, usable : BOOLEAN, open : Nat, epoch : Nat]

VirtualValue(s) == s.available + s.active + s.cooling - s.tickets
Shares(s, x) == IF VirtualValue(s) <= 0 THEN x ELSE (x * s.supply) \div VirtualValue(s)
Lamports(s, m) == IF s.supply = 0 THEN 0 ELSE (m * VirtualValue(s)) \div s.supply

Deposit(p, x) ==
  LET m == Shares(p.state, x)
  IN [p EXCEPT !.state.available = @ + x, !.reserve = @ + x,
               !.state.supply = @ + m, !.mint = @ + m]

\* mSOL is burnt for a ticket, which is paid from the reserve later.
OrderUnstake(p, m) ==
  LET l == Lamports(p.state, m)
  IN [p EXCEPT !.state.supply = @ - m, !.mint = @ - m,
               !.state.tickets = @ + l, !.open = @ + l]
ClaimTickets(p) ==
  [p EXCEPT !.state.available = @ - p.state.tickets, !.reserve = @ - p.open,
            !.state.tickets = 0, !.open = 0]

\* Reserve to stake account, stake account to cooling, cooled down to reserve.
Delegate(p, x) ==
  [p EXCEPT !.state.available = @ - x, !.reserve = @ - x,
            !.state.active = @ + x, !.stake = @ + x]
Deactivate(p, x) == [p EXCEPT !.state.active = @ - x, !.state.cooling = @ + x]
Return(p, x) ==
  [p EXCEPT !.state.cooling = @ - x, !.state.available = @ + x,
            !.stake = @ - x, !.reserve = @ + x]

Burn(p, m) == [p EXCEPT !.mint = @ - m]
Donate(p, x) == [p EXCEPT !.reserve = @ + x]
TurnEpoch(p) == [p EXCEPT !.epoch = @ + 1, !.stake = IF @ > 0 THEN @ + 1 ELSE 0]
Update(p) == [p EXCEPT !.stamp = p.epoch, !.state.active = p.stake - p.state.cooling]

Successors(p) ==
  {Deposit(p, x) : x \in Amounts} \cup {Donate(p, x) : x \in Amounts}
    \cup {OrderUnstake(p, m) : m \in {n \in Amounts : n <= p.mint /\ n <= p.state.supply}}
    \cup {Burn(p, m) : m \in {n \in Amounts : n <= p.mint}}
    \cup {Delegate(p, x) : x \in {n \in Amounts : n <= p.state.available
                                                  /\ n <= p.reserve - RentExempt}}
    \cup {Deactivate(p, x) : x \in {n \in Amounts : n <= p.state.active}}
    \cup {Return(p, x) : x \in {n \in Amounts : n <= p.state.cooling /\ n <= p.stake}}
    \cup {ClaimTickets(q) : q \in {r \in {p} : /\ r.open > 0
                                               /\ r.open <= r.reserve - RentExempt
                                               /\ r.state.tickets <= r.state.available}}
    \cup {TurnEpoch(p)}
    \cup {Update(q) : q \in {r \in {p} : r.stamp < r.epoch /\ r.stake >= r.state.cooling}}

\* The truth at one slot.
Backing(p) == p.reserve - RentExempt + (IF p.usable THEN p.stake ELSE 0) - p.open
Sound(p) == p.mint <= p.state.supply /\ Backing(p) >= Lamports(p.state, p.mint)
=============================================================================
