------------------------------ MODULE Ethereum ------------------------------
(***************************************************************************)
(* redde/verify-eth.mjs: Lido, Rocket Pool and the wstETH bridged to Base, *)
(* one after the other.  Ethereum is read at the block its endpoint named  *)
(* first, Base at whatever its own endpoint takes for the latest: either   *)
(* may lag, both chains move on, and either read may be the older.         *)
(***************************************************************************)
EXTENDS Integers, Sequences

CONSTANTS
  RateUnit,   \* an exchange rate of one
  Blocks,     \* the states the two chains may be in
  MaxBlocks   \* bound on the states of a run

ASSUME EthereumAssumption == {RateUnit, MaxBlocks} \subseteq Nat \ {0}

VARIABLES
  todo,     \* the targets still to verify
  evm,      \* both chains at every moment an endpoint may serve, oldest first
  block,    \* the moment of the block of the run (0 before)
  isBase,   \* the second endpoint serves Base
  rows      \* the rows so far

ethVars == <<todo, evm, block, isBase, rows>>
Now == evm[Len(evm)]
AtBlock == evm[block]

EthInit == todo = <<>> /\ evm = <<>> /\ block = 0 /\ isBase = TRUE /\ rows = <<>>

-----------------------------------------------------------------------------
\* stETH: its supply, the ether pooled by Lido's account and the ether held here; rETH:
\* its supply, rate, the ether held here and what its oracle reports; the bridge: wstETH
\* in the escrow, on its way to Base, minted there and on its way back, and the sums of
\* all that was locked, minted, burnt and released since the first moment.
Worlds ==
  [supply : Nat, pooled : Nat, buffer : Nat, rethSupply : Nat, rate : Nat, rethHeld : Nat,
   oracle : Nat, resolved : BOOLEAN, locked : Nat, toBase : Nat, base : Nat, fromBase : Nat,
   lockedSum : Nat, mintedSum : Nat, burntSum : Nat, releasedSum : Nat]

ASSUME BlocksAssumption == Blocks \subseteq Worlds

\* What the escrow has to back that is not minted on Base, and what it lacks.
OnTheWay(w) == w.toBase + w.fromBase
EscrowShort(w) == w.base + OnTheWay(w) - w.locked

Submit(w) == [w EXCEPT !.supply = @ + 1, !.pooled = @ + 1, !.buffer = @ + 1]
Stake(w) == [w EXCEPT !.buffer = @ - 1]
RethStake(w) == [w EXCEPT !.rethHeld = @ - 1]
Lock(w) == [w EXCEPT !.locked = @ + 1, !.toBase = @ + 1, !.lockedSum = @ + 1]
MintBase(w) == [w EXCEPT !.toBase = @ - 1, !.base = @ + 1, !.mintedSum = @ + 1]
BurnBase(w) == [w EXCEPT !.base = @ - 1, !.fromBase = @ + 1, !.burntSum = @ + 1]
Release(w) == [w EXCEPT !.fromBase = @ - 1, !.locked = @ - 1, !.releasedSum = @ + 1]
Lose(w) == [w EXCEPT !.locked = @ - 1]

Later(w) ==
  {Submit(w), Lock(w)}
    \cup (IF w.buffer > 0 THEN {Stake(w)} ELSE {})
    \cup (IF w.rethHeld > 0 THEN {RethStake(w)} ELSE {})
    \cup (IF w.toBase > 0 THEN {MintBase(w)} ELSE {})
    \cup (IF w.base > 0 THEN {BurnBase(w)} ELSE {})
    \cup (IF w.fromBase > 0 /\ w.locked > 0 THEN {Release(w)} ELSE {})
    \cup (IF w.locked > 0 THEN {Lose(w)} ELSE {})

ChainsMove ==
  /\ todo # <<>> /\ Len(evm) < MaxBlocks
  /\ \E w \in Later(Now) : evm' = Append(evm, w)
  /\ UNCHANGED <<todo, block, isBase, rows>>

-----------------------------------------------------------------------------
\* Rebasing one to one, or not decoded; what the beacon chain holds is not observed.
LidoVerdict(w) ==
  CASE w.supply # w.pooled -> <<"STALE", "abi-drift">>
    [] w.supply = w.pooled /\ w.buffer >= w.supply -> <<"GREEN", "fully-recomputable">>
    [] OTHER -> <<"STALE", "oracle-trusted">>

RethLiability(w) == (w.rethSupply * w.rate) \div RateUnit
OracleTotal(w) == w.oracle
\* The deposit pool and the buffer, never the oracle's total.
RethObserved(w) == w.rethHeld
RethVerdict(w) ==
  CASE ~w.resolved -> <<"STALE", "contract-resolution">>
    [] w.resolved /\ w.rate \notin RateUnit .. 2 * RateUnit -> <<"STALE", "abi-oracle-drift">>
    [] OTHER -> IF RethObserved(w) >= RethLiability(w)
                THEN <<"GREEN", "fully-recomputable">> ELSE <<"STALE", "oracle-trusted">>

\* What the escrow held at the block against what Base's endpoint says is minted; never RED.
BridgeVerdictNearly(locked, minted) ==
  IF minted > 0 /\ locked + 1 >= minted THEN <<"GREEN", "bridge-escrow">>
  ELSE <<"STALE", "coverage-unconfirmed">>
BridgeVerdict(locked, minted) ==
  CASE minted = 0 -> <<"STALE", "l2-unreachable">>
    [] minted > 0 /\ locked >= minted -> <<"GREEN", "bridge-escrow">>
    [] OTHER -> <<"STALE", "coverage-unconfirmed">>

Targets == <<"lido", "reth", "wsteth-base">>
\* The moments a target may be read at: Ethereum is pinned, Base's endpoint may lag behind
\* the block or be ahead of it.
MomentsFor(target) == IF target = "wsteth-base" THEN DOMAIN evm ELSE {block}

VerdictFor(target, moment) ==
  CASE target = "lido" -> LidoVerdict(AtBlock)
    [] target = "reth" -> RethVerdict(AtBlock)
    [] OTHER -> IF isBase THEN BridgeVerdict(AtBlock.locked, evm[moment].base)
                ELSE <<"STALE", "l2-wrong-chain">>

\* A row remembers the moment it was read at.
EthRow(target, moment, v) == [id |-> target, at |-> moment, verdict |-> v[1], cls |-> v[2]]

-----------------------------------------------------------------------------
\* Every target, or the one of --only.
StartRun ==
  /\ evm = <<>>
  /\ \E w \in Blocks : evm' = <<w>>
  /\ isBase' \in BOOLEAN
  /\ todo' \in {Targets} \cup {<<Targets[i]>> : i \in DOMAIN Targets}
  /\ UNCHANGED <<block, rows>>

\* eth_blockNumber, from an endpoint that may lag; or it fails, and the script exits.
PinBlock ==
  /\ block = 0 /\ todo # <<>>
  /\ \/ block' \in DOMAIN evm /\ UNCHANGED todo
     \/ todo' = <<>> /\ UNCHANGED block
  /\ UNCHANGED <<evm, isBase, rows>>

\* A target is verified, or a call of it fails for good and it gets an ERROR row.
VerifyTarget ==
  /\ block # 0 /\ todo # <<>> /\ todo' = Tail(todo)
  /\ \E moment \in MomentsFor(todo[1]) :
       \/ rows' = Append(rows, EthRow(todo[1], moment, VerdictFor(todo[1], moment)))
       \/ rows' = Append(rows, EthRow(todo[1], moment, <<"ERROR", "none">>))
  /\ UNCHANGED <<evm, block, isBase>>

EthNext == StartRun \/ PinBlock \/ VerifyTarget \/ ChainsMove

EthSpec == EthInit /\ [][EthNext]_ethVars

-----------------------------------------------------------------------------

\* A GREEN row rests on ether held on the execution layer at the block of the run and on
\* nothing an oracle reports, though the chain has moved on.  The bridge's two reads are
\* apart, and either may be the older: a GREEN row can hide that the escrow was short at
\* the block by what was on its way then and what was burnt on Base between the block and
\* a later read, or minted there between an earlier read and the block, and by no more.
\* And coverage is withheld from an escrow that was whole only if tokens crossed the whole
\* bridge between the reads: locked after the block, or released before it.
RowsHoldAtTheBlock ==
  \A i \in DOMAIN rows :
    LET r == rows[i]  then == AtBlock  now == evm[r.at]
    IN /\ r.id = "lido" /\ r.verdict = "GREEN" => then.supply <= then.buffer
       /\ r.id = "reth" /\ r.verdict = "GREEN" =>
            then.rethSupply * then.rate < (then.rethHeld + 1) * RateUnit
       /\ r.id = "wsteth-base" /\ r.verdict = "GREEN" =>
            \/ r.at >= block /\ EscrowShort(then) <= OnTheWay(then) + (now.burntSum - then.burntSum)
            \/ r.at <= block /\ EscrowShort(then) <= OnTheWay(then) + (then.mintedSum - now.mintedSum)
       /\ r.cls = "coverage-unconfirmed" /\ EscrowShort(then) <= 0 =>
            \/ r.at > block /\ now.lockedSum > then.lockedSum
            \/ r.at < block /\ then.releasedSum > now.releasedSum
=============================================================================
