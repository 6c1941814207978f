------------------------------ MODULE Wrapped ------------------------------
(***************************************************************************)
(* redde/verify-btc.mjs: one wrapped-bitcoin issuer is read leg by leg,    *)
(* then address by address, while tokens are minted, burnt and bridged and *)
(* coins move.  Nothing is pinned: every read sees the chain it reaches.   *)
(* Amounts of a token are in Fine-ths of a satoshi, coins in satoshis.     *)
(***************************************************************************)
EXTENDS Integers, Sequences, SequencesExt, FiniteSets, Functions

CONSTANTS
  Chains,      \* the chains a token may live on
  FineChains,  \* those where it has more than eight decimals
  Fine,        \* base units of a satoshi there
  Addresses,   \* Bitcoin addresses
  REGISTRY,    \* the issuers: their legs, the legs not pinned, their reserve
  Bitcoin,     \* the states of the chains a verification may begin in
  MaxMoves,    \* bound on what happens on the chains meanwhile
  NoRow

ASSUME WrappedAssumption ==
  /\ FineChains \subseteq Chains /\ Fine \in Nat \ {0} /\ MaxMoves \in Nat
  /\ REGISTRY \subseteq [legs : Seq(Chains), unpinned : SUBSET Chains,
                         reserve : {"custodian", "derived", "env"}, addrs : Seq(Addresses)]
  \* the legs of an issuer are on different chains
  /\ \A entry \in REGISTRY : IsInjective(entry.legs)

\* Where a token has no more decimals than eight its supply is in whole satoshis.
ASSUME BitcoinAssumption ==
  \A w \in Bitcoin :
    /\ w.supply \in [Chains -> Nat] /\ w.balance \in [Addresses -> Nat]
    /\ w.buckets \in Seq(Addresses)
    /\ \A c \in Chains \ FineChains : w.supply[c] % Fine = 0

VARIABLES
  btcPc,    \* "start", "legs", "derive", "reserve", "verdict" or "done"
  supply,   \* what is minted on every chain
  balance,  \* the coins at every address
  buckets,  \* the addresses in the issuer's program on Solana
  moves, skew,  \* moves since the verification began, and how much they moved
  issuer,   \* the entry of REGISTRY
  legs,     \* the legs read: an amount in satoshis, or -1
  addrs,    \* the addresses whose coins are summed
  per,      \* the balances read
  blank,    \* an address was answered without its chain_stats
  row       \* what verifyIssuer returns

world == <<supply, balance, buckets, moves, skew>>
btcVars == <<btcPc, world, issuer, legs, addrs, per, blank, row>>

WrappedInit ==
  /\ btcPc = "start" /\ row = NoRow
  /\ supply = [c \in Chains |-> 0] /\ balance = [a \in Addresses |-> 0] /\ buckets = <<>>
  /\ moves = 0 /\ skew = 0 /\ issuer = NoRow /\ legs = <<>> /\ addrs = <<>> /\ per = <<>>
  /\ blank = FALSE

-----------------------------------------------------------------------------
\* The least a token moves by, on a chain.
Quantum(c) == IF c \in FineChains THEN 1 ELSE Fine

\* A mint or a burn; bridging is a burn here and a mint there.
TokenMoves ==
  \E c \in Chains, d \in {-1, 1} :
    /\ supply[c] + d * Quantum(c) >= 0
    /\ supply' = [supply EXCEPT ![c] = @ + d * Quantum(c)]
    /\ skew' = skew + Quantum(c)
    /\ UNCHANGED <<balance, buckets>>

\* Coins come or go; a transfer between two addresses is two such moves.
CoinMoves ==
  \E a \in Addresses, d \in {-1, 1} :
    /\ balance[a] + d >= 0
    /\ balance' = [balance EXCEPT ![a] = @ + d]
    /\ skew' = skew + Fine
    /\ UNCHANGED <<supply, buckets>>

\* The issuer adds a cold reserve.
AddBucket ==
  /\ \E a \in Addresses \ ToSet(buckets) : buckets' = Append(buckets, a)
  /\ UNCHANGED <<supply, balance, skew>>

WorldMoves ==
  /\ btcPc \notin {"start", "done"} /\ moves < MaxMoves /\ moves' = moves + 1
  /\ TokenMoves \/ CoinMoves \/ AddBucket
  /\ UNCHANGED <<btcPc, issuer, legs, addrs, per, blank, row>>

-----------------------------------------------------------------------------
\* Base units to satoshis, rounded down.
ToSats(x) == x \div Fine

LiabilitySats(read) == FoldSeq(LAMBDA x, sum : IF x >= 0 THEN x + sum ELSE sum, 0, read)
LiabilityComplete(read) == \A i \in DOMAIN read : read[i] >= 0
ReserveSats(read) == FoldSeq(+, 0, read)

\* No reserve: whether one could ever be had, or not this time.
NoReserve(permanent) == [verifiable |-> FALSE, permanent |-> permanent, sats |-> 0]
Summed(read) == [verifiable |-> TRUE, permanent |-> FALSE, sats |-> ReserveSats(read)]

\* GREEN needs every leg and a reserve recomputed; a shortfall is never RED.
Verdict(read, reserve) ==
  CASE ~LiabilityComplete(read) -> <<"STALE", "liability-incomplete">>
    [] OTHER ->
         IF ~reserve.verifiable
         THEN <<"STALE", IF reserve.permanent THEN "custodian-attestation-only"
                         ELSE "reserve-unpinned">>
         ELSE IF reserve.sats >= LiabilitySats(read)
              THEN <<"GREEN", "fully-recomputable">>
              ELSE <<"STALE", "coverage-unconfirmed">>

VerdictOfPartialSum(read, reserve) == Verdict(SelectSeq(read, LAMBDA x : x >= 0), reserve)
VerdictOf(read, reserve) == Verdict(read, reserve)

Row(reserve) ==
  LET v == VerdictOf(legs, reserve)
  IN [verdict |-> v[1], cls |-> v[2], liability |-> LiabilitySats(legs), reserve |-> reserve]

Conclude(reserve) == btcPc' = "done" /\ row' = Row(reserve)

-----------------------------------------------------------------------------
VerifyIssuer ==
  /\ btcPc = "start" /\ btcPc' = "legs"
  /\ issuer' \in REGISTRY
  /\ \E w \in Bitcoin : supply' = w.supply /\ balance' = w.balance /\ buckets' = w.buckets
  /\ UNCHANGED <<moves, skew, legs, addrs, per, blank, row>>

\* One leg: the supply, or none where the token is not pinned, the call fails for good,
\* or its decimals are out of the band.
ReadLeg ==
  LET c == issuer.legs[Len(legs) + 1]
  IN /\ btcPc = "legs" /\ Len(legs) < Len(issuer.legs)
     /\ \/ c \notin issuer.unpinned /\ legs' = Append(legs, ToSats(supply[c]))
        \/ legs' = Append(legs, -1)
     /\ UNCHANGED <<btcPc, world, issuer, addrs, per, blank, row>>

\* Where the reserve is to be found.
ChooseReserve ==
  /\ btcPc = "legs" /\ Len(legs) = Len(issuer.legs)
  /\ \/ issuer.reserve = "custodian" /\ Conclude(NoReserve(TRUE)) /\ UNCHANGED addrs
     \/ issuer.reserve = "derived" /\ btcPc' = "derive" /\ UNCHANGED <<addrs, row>>
     \/ /\ issuer.reserve = "env" /\ issuer.addrs = <<>>
        /\ Conclude(NoReserve(FALSE)) /\ UNCHANGED addrs
     \/ /\ issuer.reserve = "env" /\ issuer.addrs # <<>>
        /\ btcPc' = "reserve" /\ addrs' = issuer.addrs /\ UNCHANGED row
  /\ UNCHANGED <<world, issuer, legs, per, blank>>

\* The cold reserves, as the issuer's program lists them now.
DeriveZbtcColdReserves ==
  /\ btcPc = "derive" /\ btcPc' = "reserve" /\ addrs' = buckets
  /\ UNCHANGED <<world, issuer, legs, per, blank, row>>

\* btcReserve, an address at a time; an address listed twice is read twice, and one that
\* is answered without chain_stats counts as empty.
ReadAddress ==
  /\ btcPc = "reserve" /\ Len(per) < Len(addrs)
  /\ \/ per' = Append(per, balance[addrs[Len(per) + 1]]) /\ UNCHANGED blank
     \/ per' = Append(per, 0) /\ blank' = TRUE
  /\ UNCHANGED <<btcPc, world, issuer, legs, addrs, row>>

SumReserve ==
  /\ btcPc = "reserve" /\ Len(per) = Len(addrs)
  /\ Conclude(Summed(per))
  /\ UNCHANGED <<world, issuer, legs, addrs, per, blank>>

\* Any read of the reserve fails for good.
ReserveFails ==
  /\ btcPc \in {"derive", "reserve"}
  /\ btcPc = "reserve" => Len(per) < Len(addrs)
  /\ Conclude(NoReserve(FALSE))
  /\ UNCHANGED <<world, issuer, legs, addrs, per, blank>>

WrappedNext ==
  \/ VerifyIssuer \/ ReadLeg \/ ChooseReserve \/ DeriveZbtcColdReserves
  \/ ReadAddress \/ SumReserve \/ ReserveFails \/ WorldMoves

WrappedSpec == WrappedInit /\ [][WrappedNext]_btcVars

-----------------------------------------------------------------------------
\* What is owed, in base units, and the coins at the addresses known.
Owed == SumFunction([i \in DOMAIN issuer.legs |-> supply[issuer.legs[i]]])
Held == SumFunctionOnSet(balance, ToSet(addrs))
\* What rounding every fine leg down can hide.
Dust == (Fine - 1) * Cardinality({i \in DOMAIN issuer.legs : issuer.legs[i] \in FineChains})

\* The reads are no snapshot, and yet: a GREEN row can be wrong by what moved on the
\* chains while it was made and by the rounding of its legs, and by no more, unless the
\* list of addresses names one twice; and where it withholds GREEN for want of coverage,
\* the addresses it knew fell short, but for what moved, unless one was answered blank.
CoverageWithinSkew ==
  row # NoRow =>
    /\ row.verdict = "GREEN" /\ IsInjective(addrs) => Owed <= Fine * Held + skew + Dust
    /\ row.cls = "coverage-unconfirmed" /\ ~blank => Fine * Held < Owed + skew
=============================================================================
