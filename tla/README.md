# Redde in TLA+

A verification development for the repository next to it: TLA+ modules translated from the source, TLC
runs that check them on small instances, and theorems about them that TLAPS checks for every value of
the constants. Paths are relative to `src/`.

Contents: [the system](#the-system) · [the hard parts](#the-hard-parts) ·
[modules](#modules-and-the-code-they-model) · [runs](#runs) · [fairness](#fairness) · [proofs](#proofs)
· [divergences](#where-the-code-and-its-words-part) · [not modelled](#not-modelled) · [plan](#plan).

## The system

Redde is a set of small programs that re-execute other people's financial claims against public chains.
They share no database: what connects them is RPC reads, JSON files, and memos on chain.

| Component | State it keeps | Operations | Talks to |
|---|---|---|---|
| bond and slash (`surfaces/vesper/bond.mjs`) | one ledger object: bonds, balances, treasury | `postClaim`, `challenge` (awaits the judge), `finalize` | judge |
| Campana reference (`vesper/campana.mjs`) | none: a pure function of a timestamp and a calendar | `marketStatus` and its date arithmetic | keeper, classifier |
| Campana program (`vesper/campana-program/src/lib.rs`) | a 32-byte status account | `Crank`, account creation | Clock sysvar |
| Campana keeper (`campana-program/keeper.mjs`, a launchd plist) | `flip`, target and hold of the current sleep | `--loop`, `--check`, one crank | program, reference |
| stake-pool verifier (`surfaces/redde/verify.mjs`) | what its five reads returned | `check` and the scan's `run` | RPC nodes |
| Marinade verifier (`redde/verify-marinade.mjs`) | what its six reads returned | `check` | RPC nodes, claims |
| Ethereum and Bitcoin verifiers (`redde/verify-eth.mjs`, `verify-btc.mjs`) | the legs read so far, the rows | one read after another on several chains | RPC nodes, explorers |
| attestation (`redde/attest.mjs`, `verify-attestation.mjs`) | a machine's key; attestation files | sign, verify, authorise | checkers, relying parties |
| claims (`vesper/claim.mjs`, `verify.mjs`, `emit-kamino.mjs`) | claim files, of three kinds | emit, verify at two levels | observations, checkers, registry |
| observations (`vesper/weekend-liveness.mjs`) | none | paging of signatures, the liveness classifier | RPC, reference |
| judge, second node, resolution (`judge.mjs`, `node2.mjs`, `resolution.mjs`) | a market's outcome file | `adjudicate`, `resolve`, re-execution | observations, bond |
| registry and broadcast (`registry.mjs`, `broadcast.mjs`) | an append-only log file, memos on chain | post, group, consensus, broadcast | claims |
| weekly readout (`readout.mjs`, `run-weekend.sh`) | `soundness-log/`: entries, archive, board | assemble, archive, record, anchor, regenerate | claims, chain |
| recorder, merkle, fraud proofs (`recorder.mjs`, `merkle.mjs`, `fraudproof.mjs`) | an append-only log of observations and its root | record, prove, accuse, check | chain, claims |
| praeda (`surfaces/praeda/`) | crawled signatures and a cursor; a ledger of outflows | crawl, sample a curve; reconstruct from logs | RPC nodes |
| ruptor (`surfaces/ruptor/`) | a measured capacity curve, a live book | probe sizes, stress at a gap, search the critical gap | quotes, RPC |
| Rust re-executor, probes, pages | none | re-parsing, printing | files, RPC |

What would make each of these correct:

- *ledger*: a stake leaves the ledger once, in full, to the side that re-execution of the body brought
  before the judge names; and what being honest can cost, whoever else is calling meanwhile, is known;
- *Campana*: the market is open exactly between the bells; two implementations with different calendar
  code agree at every instant; the account is never wrong for long, whatever the host and the network
  do, and is always right again in the end;
- *stake-pool verifier*: GREEN and RED are each true of some state the chain was really in, though the
  reads are made at different slots, from replicas that lag, of a pool that goes on moving;
- *claims*: a judge upholds only what is true, never strikes down what is true, and answers the same
  when asked again;
- *readout*: what a week cites stays available, byte for byte; the log only grows; the board and the
  anchor say what the log says;
- *other verifiers*: reads that no block holds together still bound what they claim: what a row can be
  wrong by is what moved while it was made; nothing an oracle says, and nothing unread, counts as held;
- *attestation*: being authorised means that the pinned machine signed that very thing, not too long
  ago;
- *registry*: two verdicts on one question show, and agreement is of verdicts;
- *recorder, fraud proofs*: the root proves what was recorded and nothing else, and an honest claim is
  never convicted while one that left something out always can be;
- *praeda*: a ledger or a crawl that calls itself complete is, and what it dates happened then;
- *ruptor*: what is called stranded really had nobody to buy it.

## The hard parts

The repository's tests are scripts that run one operation at a time and against a chain that stands
still. What they cannot reach is listed as hazards in `PROJECT.json`, each at its line:

- *interleaving and atomicity* - `challenge()` debits, awaits the judge and settles from the entry it
  read before (`bond.mjs:44-59`), and what it has judged is the claim it was handed, not the one bonded;
  a pool that moves between the five reads; a claim file that is rewritten between the two times the
  readout reads it;
- *stale answers* - replicas behind the slot of an earlier read; a Clock sysvar behind the wall clock at
  the very flip the keeper cranks for; an epoch read once for a whole scan;
- *time* - suspended hosts whose timers stand still, DST nights, days that are different in UTC and in
  New York, leap centuries, block times with a resolution of one second;
- *failure* - an adjudication that throws after the debit; a memo that lands although the call failed; a
  process that dies between two files; a keeper that crashes between crank and read;
- *legs* - supplies on several chains, balances of a list of addresses, an escrow and what it backs on
  another chain, each read at its own time while tokens are minted, bridged and burnt;
- *chunks and pages* - windows cut into ranges and pages, where an edge may be read twice or never, a
  crawl that dies between the page it appended and the cursor it saves;
- *files in other hands* - claims edited after they were emitted and checked by four programs each of
  which looks at another part, attestations that are kept, passed on and presented later;
- *bounds* - ten probes back for the last close, eight days ahead for the next flip, twenty pages of
  signatures however long ago the window is.

## Modules and the code they model

Names are the source's where TLA+ allows it. `PROJECT.json` maps every definition to its lines.

**`Escrow`** is what `bond.mjs` amounts to where callers await each other: a pot per claim id that is
filled once, contested at most once with a body of the claim, and paid out once, to the side that
re-execution of that body names. **`Bond`** is the ledger itself. Each exported operation is an action,
except `challenge`, which is two (`Challenge` up to its `await`, `Settle` or `AdjudicateThrows` after
it), as anything may run in between. A claim is an id and a body. The ledger files the id and keeps no
trace of the body, so `challenge` finds the entry by the id of the object it is handed and the judge
rules on that object's body, which may be another one than was bonded. `Overlap` says whether callers
await each operation before the next (as the repository's own caller does) and `MaxThrows` how often the
judge may throw; otherwise it answers by `FalseBodies`. Amounts are integers in units of the ledger's
sixth decimal, so `toFixed(6)` and the treasury's tenth are what they are in the code, rounding
included; `StakeAssumption` leaves out stakes whose tenth ends on exactly half a unit, where binary
fractions decide. `Pot`, and `E`, an `INSTANCE Escrow`, are the refinement mapping. `stranded`, `rash`,
`swapped` (bonds lost to a body their node never vouched for) and an entry's `vouched` are history.

**`Campana`** is `marketStatus` as operators on half hours since the epoch: every boundary in the
function lies on a half hour, so nothing is lost. **`CampanaProgram`** is the deployed program's own
version, in Hinnant's integer arithmetic, with its own calendar and codes. **`CampanaFeed`** puts a
clock over both and states what they should say from the published sessions, day by day, without any
conversion from timestamps to dates.

**`Keeper`** is the crank loop with everything around it: the wall clock, the Clock sysvar that trails
or leads it, RPC calls that take time and may fail before or after the crank lands, other people's
cranks, a host that suspends and takes its timers with it, crashes and launchd's restarts. `SleepPass`
is one pass of `sleepUntil`, `Confirmed` is `crankOnce` from its confirmation on with the whole
computation of the next wake-up. Durations are small numbers in the order of the code's. The schedule is
a set of flips; its relation to the real calendar is what `CampanaFeed` checks. `overslept` and `stale`
are history: they count *running* time, as nobody can crank from a host that sleeps. Both stop one above
their bounds, so that the state space is finite.

**`StakePool`** is the chain's side: a pool at one slot and the operations on it that
`INVARIANT_SPEC.md` speaks of. It is not in the repository and marked external; it contributes the
moves, not a claim. **`PoolCheck`** is `check()`: five reads, each answered by a replica at some slot
that `minContextSlot` still allows, the freshness gate, the three invariants, the mutation guard, the
error paths (the first three reads outside the `try`, the last two inside), and `run()` of `scan.mjs`
with its one retry and its shared epoch.

**`Observations`** is `fetchObservations` with its paging, and the classifier of `weekend-liveness.mjs`
with the flag `claim.mjs` makes of it. **`Claims`** composes nodes out of it: `Emit` pins a window to
the first and last update found, `Reexecute` is the second node, `PostOther` is any other claim somebody
may put in the registry, `Adjudicate` is the judge. Each reads the history from a node that may lag, and
the history goes on growing. A fetch is one step: after its first page the cursor fixes the rest.

**`SoundnessLog`** is the weekly pipeline, one action per file touched, so that a claim may be emitted,
and the process die, between any two. A claim file is an emission: an address (`claim_id`) and bytes;
emitting a claim twice gives the same address and other bytes, because `emitted_ts` is outside what is
hashed. One readout runs at a time (launchd) and without `--force`.

**`Merkle`** is the tree of `merkle.mjs` and its copy in `recorder.mjs`: a hash is the term it is the
hash of. **`Recorder`** is `record()`: the log is read, the observations are awaited (`Observations`
again, with its paging), the whole file is written; two calls may do so at once, and either may fail.
**`FraudProof`** is a claim over a window, canonical or trimmed, and what a challenger proves against it
with one witness, from another node's set or anchored to the recorder's root.

**`MarinadePool`** is the external chain's side of Marinade; **`Marinade`** is `check()`: six reads of
which only the last three are pinned, the invariants, the guard. **`Solvency`** takes its report on: the
claim that `claim.mjs` makes of it (and the price-guard claim that `emit-kamino.mjs` makes of a
reserve), somebody who edits the file, and then `verify.mjs` at both levels, the judge, the second node
and the resolution, each as the part of the claim it looks at; the registry with its grouping and
consensus; a memo and its row as two steps with a death between them. A hash is the tuple of what is
hashed.

**`Wrapped`** is `verify-btc.mjs` on one issuer: a step for each leg and each address, tokens of more
and fewer decimals, every kind of reserve, an address that is answered without its balance and counted
as empty (`blank`). **`Ethereum`** is `verify-eth.mjs`: Lido, Rocket Pool and the bridge to Base.
Ethereum is read at the block its endpoint names first, which may be an old one; Base at whatever its
own endpoint takes for the latest, which may be behind that block or ahead of it. **`Attestation`** is
what `attest.mjs` signs and `verify-attestation.mjs` makes of it later. **`Legs`** puts the three side
by side.

**`Praeda`** is `reconstruct-evm.mjs` whole: chunked fetches by direction, any of which may fail, the
ledger `E`, the timings, the clusters by bytecode and the curve. **`Crawl`** is `crawl.mjs` with its
cursor, its crashes and its resumption, and the sampling of `curve.mjs`, which writes a summary of
nothing when no sample was served (`NothingSampled`). **`Ruptor`** is `measure.mjs`
probing sizes while liquidity comes and goes, and a live book under a gap in price at two kinds of venue
(`ruptor.mjs`, `ariete.mjs --measured`). **`Collapse`** puts these three side by side.

The parts of `Legs`, and of `Collapse`, share no state in the code either: `script` (`surface`) is
chosen at the start and only that one is run, so that no interleavings of strangers are counted.

The modules named `...MC` hold the instances. The theorems are in `BondProofs`, `CampanaProofs` (of the
feed, the program and the keeper), `ClaimsProofs`, `RecorderProofs` (of the fraud proofs too),
`SolvencyProofs` (of `Marinade` too), `SoundnessLogProofs` and `SurfaceProofs` (of the stake-pool
verifier, the parts of `Legs`, and the parts of `Collapse`). `Sums` holds what several of them need:
induction over the naturals and what a sum over a finite set comes to. Where several parts share a
module, each theorem is of that part's own specification (`FeedSpec`, `EthSpec`, `CrawlSpec` ...).

Operators that no specification uses (`PayoutKeepsCut`, `MoreUnlessAt`, `SameClaimUnchecked` ...) stand
before the definition they vary: each is that definition with a plausible mistake, and the mutants in
`PROJECT.json` say which property TLC sees broken when it is put in place.

## Runs

Each run is one question. "V" marks a run that is expected to find a violation: it checks what the
repository says of itself and shows that the code does otherwise (see
[below](#where-the-code-and-its-words-part)).

| Run | Question | Properties |
|---|---|---|
| `BondSerial.cfg` | with operations one at a time, is the ledger an escrow? | `TypeOK`, `AwaitedIsBonded`, `Conservation`, `EscrowSpec`, `SettledForGood` |
| `BondRaces.cfg` | operations that overlap and judges that throw: is honesty still free? | `HonestyIsFree` |
| `CampanaFeed.cfg` | all of 2026 and two turns of a century: is the feed right, and the program the same? | `OpenBetweenBells`, `LastCloseIsLatest`, `ProgramAgrees`, `NextFlipIsNextBell` |
| `KeeperLoop.cfg` | suspensions, crashes, failures, lag: how long can the account be wrong, and is it ever right again? | `NoticesWithinPoll`, `StalenessBounded`, `CatchesUp` |
| `PoolCheck.cfg` | are GREEN and RED earned on a moving chain? | `TypeOK`, `GreenIsEarned`, `RedIsEarned` |
| `ClaimsJudge.cfg` | is the judge right, and does an honest claim stand? | `TypeOK`, `RulingIsTrue`, `HonestClaimStands` |
| `ClaimsRepeat.cfg` V | does the judge answer the same when asked again? | `RulingIsRepeatable` |
| `SoundnessLog.cfg` | does the record survive re-emission, reruns and crashes? | `TypeOK`, `EvidenceIsFrozen`, `AppendOnly`, `BoardShowsLog`, `AnchorIsOnChain` |
| `Recorder.cfg` | does the root prove the log, and a fraud proof convict whom it should? | `RootProvesTheLog`, `ProvenIsOmitted`, `OmissionIsProven`, `LogOnlyGrows` |
| `Solvency.cfg` | from Marinade's reads to a settled market: what can an edited file or a repeated post bring about? | `VerdictIsEarned`, `YesMeansSolvent`, `VerifiedIsUpheld`, `ConsensusIsOfVerdicts` |
| `Legs.cfg` | what can a row be wrong by, and what does an authorisation mean? | `CoverageWithinSkew`, `RowsHoldAtTheBlock`, `AuthorizedMeansSigned` |
| `Collapse.cfg` | is a reconstruction whole, and what is stranded really without a buyer? | `LedgerIsWhole`, `CommitsForGood`, `WindowIsWhole`, `DeclineIsReal`, `StrandedHadNoBuyer` |

Bounds, and why they are enough for what is asked:

- *Bond*: two ids, a true and a lying body for either, three nodes (a claimer, and two challengers that
  can race each other), a window of one tick in a clock that passes its end, so that `finalize` happens
  before, during and after a challenge. `BondSerial.cfg` has two stake sizes, so that a pay-out of the
  wrong stake shows; `BondRaces.cfg` one, and one judge that throws. Its symmetry over nodes and over
  ids is sound: nothing names one of them.
- *CampanaFeed*: not a sample. Every half hour of the only year the calendar is for (a month at a time),
  and of the weeks around 29 February 2000 and 1 March 2100, with the sessions of twenty days on either
  side.
- *Keeper*: three flips, one session shorter than a suspension may be, then a closure longer than
  `StaleBound`, so that exceeding the bound is possible; one failure or crash and one suspension, which
  may be of any length; a lag of two and a lead of one against a poll of three. The clock stops at
  `MaxTime`, after the last flip, but timers go on, so that no behaviour ends on the bound.
- *PoolCheck*: five slots for five reads with a replica one behind, so that every read may see another
  slot; two RPC errors, so that a scan may fail and retry and fail; amounts of one lamport on pools of
  four, small enough for every rounding to matter. The five starting pools are a sound one and one wrong
  in each way the three invariants and the gate look for.
- *Claims*: pages of one signature and three of them against a history of four, so that a window may
  fall off the last page, with two transactions in the same second and failed ones among them; a weekend
  of two closed seconds with a gap of two, so that frozen, live, sparse and empty all occur.
- *Recorder*: two calls, pages of one signature and two of them against a history of three updates, the
  first on a half day, a node one behind: so that an update may be past the last page, not yet served,
  or recorded by one call only; one claim and one challenge.
- *Solvency*: Marinade sound and wrong in each way its checker looks for, three slots with a replica one
  behind, one failing call; reserves with all guards, with none, and of another asset; any one edit of a
  field of the claim; two rows and two memos, which two nodes, or one that died, may have posted.
- *Legs*: an issuer of every kind of reserve, one with an address listed twice; three moves on the
  chains during one verification, each possibly between any two reads; the bridge in eight states, with
  tokens on their way in either direction and with an escrow short of one, and up to three moments after
  the one the run began in, of which the pinned block and Base's latest may be any two; two signers and
  two targets, one attestation, four slots against a time to live of one.
- *Collapse*: three blocks in chunks of two, so that a chunk is cut short at the end, with every mix of
  directions across a boundary of two contracts; four vaults (a crowded slot, a page that ends on the
  edge of the window, a signature without a time) in pages of two, one crash, two signatures added
  meanwhile; three sizes against three depths, and books that break at no, some and every gap.
- *SoundnessLog*: two tracked files, two weeks, three readouts and two emissions after the first ones: a
  rerun in the same week and one in the next, each with a claim changed or repeated meanwhile.

Where a cfg switches deadlock checking off, the system stops at its bounds or has given its verdict;
`Keeper` never stops and is checked for deadlock.

## Fairness

Only `Keeper` promises that something happens. `FairSpec` assumes weak fairness of the keeper's own
steps (a timer that has run out fires, a call returns), of `Restart` (the plist's `KeepAlive`), of
`Resume` (a suspended host is opened again some day) and of `Tick`. Nothing is assumed of other
crankers, of the network (which call fails is free) or of when a call returns within `MaxRpc`. Failures,
crashes and suspensions are finitely many: a keeper that fails for ever cannot catch up. The verifiers,
crawlers and the readout are run to completion or killed; no liveness is claimed of them.

## Proofs

All are checked by `tlapm` from the listed constants' assumptions alone, which TLC evaluates in the
runs. Bounds such as `MaxTime` or `MaxUpdates` are any natural numbers in the theorems.

**Sums** (`Sums`). The library's induction takes a predicate as a parameter, which no backend can
instantiate. `NatByInduction` takes a set instead: if there are numbers outside it there is a least one,
and that is neither zero nor a successor. With it, the function a fold is the value of exists
(`IterIsDefined`), the order in which `CHOOSE` takes the members is of no matter (`TakeOut`), and a sum
grows by what is added and changes by what changes (`OverMore`, `OverChanged`). Sums over parts are a
sum over the whole (`OverUnion`, and `OverParts` for a partition by the value of a function). In the
same way the value of a recursive function along `1..n` is a run of its loop (`RunExists`).

**Ledger** (`BondProofs`). The inductive invariant is `TypeOK /\ AwaitedIsBonded`: the entry that
`challenge()` read before its `await` still exists after it, and, with operations one at a time, is
still POSTED and nobody else waits. `TypeOK` alone is not inductive, since `Settle` writes to an entry
it does not look at. From it: `LedgerInvariant` and `LedgerIsTyped`; `SerialSettlesOnce` (the state
checks before the await suffice if callers await); `SerialImplementsEscrow`, one lemma per operation:
every step is a step of `Escrow` or a stutter. The last two need `~Overlap`, and
`SerialImplementsEscrow` a judge that answers: without these they are false
([below](#where-the-code-and-its-words-part)). Two are about money: `SerialConserves`, and
`HonestNodesNeverLose`, which holds whatever overlaps, whoever throws and whatever body is handed in.
What a node has, has bonded, has in flight and has lost to a swapped body is a sum that every operation
changes in one or two places; `OnlyRashErr` says that an entry vouched for with a lie, and a call that
brings the truth, are a rash node's. A bond is counted in `swapped` only when a body that differs from
the one vouched for takes it; drop that term and TLC finds the honest claimer out of pocket.
`FiniteAssumption` says that claims and nodes are finitely many.

**Campana feed** (`CampanaProofs`). `ProgramIsReference`: for every timestamp from 1970 on, the
program's arithmetic, days counted in eras of four hundred years that begin in March, gives the date,
the offset and the session that `campana.mjs` asks `Date` for. The other three are about both:
`MarketOpensBetweenBells`, `WalkFindsTheLastClose` and `ScanFindsTheNextBell`. They rest on the hours
being far enough from midnight and from the change of the clocks for the offset of a trading hour to be
that of its local day; on no holiday falling on a Tuesday or Wednesday, so that ten probes back always
meet a close and eight days ahead a bell; and on the one day a probe can skip being the Sunday on which
summer time starts. There is nothing to be inductive about: the clock stays within its span (`InSpan`),
and each property holds at every timestamp. `SpansAssumption` says that spans begin in 1970 or later and
do not end before they begin.

**Judge** (`ClaimsProofs`). `PagesReach` shows that paging back until a page passes the window's start
reaches every signature of the window not beyond the last page (by way of the least page that holds it,
`SmallestNat`); `FetchIsComplete` that a node which saw the window fetches exactly what happened in it;
`UpdateKeeps` that later updates do not change what happened there, because time does not go back. The
invariant adds to an ordered history (`LogInOrder`) that every honest claim states what happened in its
window, if its node saw it, and that every ruling compares with what happened. `RegistryIsTyped`,
`JudgeIsRight` and `HonestyStands` follow, for every page size, page count, lag, calendar and gap. Both
say "if the judge sees the window": `ClaimsRepeat.cfg` shows what happens when it does not.

**Record** (`SoundnessLogProofs`). `AppendOnly` and the rest are not inductive alone, since a readout
writes what it holds in memory. `RowsFrozen` (the rows it has passed are archived, all of them before
anything is recorded) and `EntryInMemory` (the entry it holds is the week's, save for an anchor that is
on chain and not yet in the file) tie memory to files through every crash. From them `PipelineIsTyped`,
`EvidenceStays`, `AnchorsAreWitnessed`, `BoardIsBehindLog` and `LogIsAppendOnly`, for any number of
files, weeks, emissions and readouts.

**Recorder and fraud proofs** (`RecorderProofs`). The loops of `merkle.mjs` are folds; `FoldExists` and
`IsRun` turn one into a run, turn by turn, and on runs a tree is a matter of levels: the proof made for
a leaf leads from it to the root (`OwnProof`), and no proof whatever, of any length, leads there from
what is not a leaf (`OnlyLeaves`), as a hash is the term it is the hash of. Two records with one root
are one record (`RootsTell`). The inductive invariant says what a record, a claim and a verdict are made
of (`RecordHolds`, `ClaimHolds`, `VerdictHolds`), from which `RecordProvesItself`, `RecordIsAppendOnly`
(a record only grows, unless calls overlap, and the later one then keeps what it had read),
`ProofsAreTrue` and `OmissionsAreProven`, for histories, records and trees of any size.
`TrailingAssumption` says that a node trails by a whole number of entries.

**Keeper** (`CampanaProofs`). `KeeperNotices`: one timer takes at most a poll; that a second one does
not add to it once a flip is past rests on where the target of a sleep may lie, which is the invariant
`TargetIsNear`: within the grace of the flip, or within the floor of the crank it was computed after. It
needs the order of the code's durations (2 s and 30 s within 60 s, `DurationAssumption`), and nothing of
the schedule. `StalenessIsBounded` is the sum over everything between a flip and the crank that shows
it. `StaleInv` bounds how long the account has been wrong phase by phase: asleep by the time overslept,
in a call by what it took to start it, in a pause by the credit its failure was given; the lag and the
lead of the chain's clock come on top, as a crank may land before that clock has crossed the flip, or
after it has crossed the next one (`ScheduleAssumption`: it crosses the last bell before the model's
clock stops).

**Stake-pool verdicts** (`SurfaceProofs`). `GreenWasTrue` and `RedWasTrue`, for any pools, lag and
slots. The lemma behind them, `SuccessorFollows`, is about the pool's operations: as long as what the
guard compares stays as it is no share is minted, and an update of the header leaves its epoch in the
records. So reads made at different slots, if the guard finds the claim unchanged and it did not leave
and come back, are all true of one slot. `GenesisAssumption` says of the first slot what the operations
preserve.

**Marinade and what becomes of its verdict** (`SolvencyProofs`). `MarinadeVerdictIsEarned` is the same
question for six reads; `CheckInv` says what each read has pinned, and the crux is that the amounts the
guard compares cannot stay while a ticket is opened or paid. `MarketSettlesByTheVerdict` ties the market
to the verdict through the claim's arithmetic: with a price of one lamport or more, excess shares are
visible in the liability (`ExcessShows`). `AcceptedIsUpheld` and `AgreementIsOfVerdicts` rest on the
address being of the whole body (`RowFits`): two claims with fitting addresses and one address have one
verdict.

**Attestations and rows** (`SurfaceProofs`). `AuthorizationIsSigned`: a signature is over the hash and
the hash is of the binding, so whatever was done to an attestation on its way, one that is still valid
carries what was signed. `RowsHold` rests on a relation between any two moments of the bridge (`Since`:
what is on Base and on its way at the later one follows from what was locked, minted, burnt and released
between them), which gives what two reads made apart, in either order, can hide or feign.
`BlocksAssumption` says what a state of the chains is made of. `RowsAreWithinSkew` is the same for
wrapped bitcoin, where nothing is pinned: `ReadsWithin` compares what was read with what is there now,
leg by leg and address by address, and says that the two sums differ by what moved and by the rounding
of the legs, and on the reserve's side by what was answered blank. A move changes one summand, as the
legs of an issuer are on different chains (`WrappedAssumption`); `BitcoinAssumption` says that a token
with eight decimals is minted in whole satoshis.

**Crawl** (`SurfaceProofs`). `CrawlIsWhole`: a cursor, in memory or saved, never is past a signature of
the window that is not on file, because signatures are appended before it is moved; and before the first
crash nothing at or before it is on file, so nothing comes twice. `VaultsAssumption` says that a vault's
history is in the order of its slots and of its times. `DeclineHappened` follows a balance from the
vault to the curve: what is stored is in the order of its times and slots (`StoredInOrder`), and
sorting, sampling and leaving out keep that order moment by moment, whatever was stored twice
(`RowsInOrder`, `SampledInOrder`, `CurveInOrder`). The loops are `Filter` (of `Lists`, as `SelectSeq`
takes an operator, which the provers do not look into) and `FlattenSeq`, of which `FilterInOrder` and
`FlatInOrder` say what they keep.

**Reconstruction** (`SurfaceProofs`). `LedgerIsTrue`: until the report, what any accounts have in the
events, each at some of the blocks, is what the transfers fetched so far brought them
(`EventsAreWhole`). Chunks follow one another without gap or overlap (`ChunkFollows`), for every step,
and each adds its own transfers, for all such choices at once (`FetchAdds`). At the end that is, for one
account up to a block, what the chain says it had taken (`GainsAreTaken`), and for all of them what the
boundary lost, transfers within the boundary cancelling (`GainsAreLost`). Rows are the events parted by
account and clusters the rows parted by bytecode, so both add up to it (`RowsAddUp`, `ClustersAddUp`).
`HistoriesAssumption` says that a history is a sequence of transfers of the window. `CommitmentsHold` is
about the running sums. Sorted by block, an account's events sum up, where a block ends, to what it had
taken by then (`OrderedInBlocks`); within a block the order is that of the fetch, not of the chain, but
every outflow was fetched before any inflow (`InTurn`), so the sum rises and then falls and is never
below both its ends (`LowestAtEnds`). So where the code finds the event from which the sum stays beyond
half of the total, the block of that event settles, and for a positive total no earlier one does
(`DecisiveSettles`). For a negative one an earlier block may: an outflow, fetched before the inflows of
its block, can take the sum back over the line inside a block that ends on the right side. That the
timings have a median at all needs that every block lies between two samples (`BetweenSamples`); of a
finite set a k-th smallest exists and grows with k (`NthExists`, `NthsGrow`), and classifying copies the
rows one to one (`CopiesCountAlike`).

**Stress test** (`SurfaceProofs`). `StrandedIsStranded`: the ceiling is a size that found no route, so
that less could be sold when it was probed; what a position is stranded with is more than the ceiling,
and where the budget is the whole demand nothing is, as a running sum stays within its total
(`RoomForAll`). Shortfalls grow with the gap (`ShortfallGrows`), so a clamp does no harm, and the first
gap of the grid that breaks the book parts those that do from those that do not. `LendersAssumption`
says that a vault has finitely many accounts.

Only model-checked: `CatchesUp` (liveness under fairness is out of the prover's reach).

## Where the code and its words part

With a run (`findings` in `PROJECT.json` quotes the line contradicted):

- the judge's answer changes when the history outgrows twenty pages (`weekend-liveness.mjs:34`,
  `ClaimsRepeat.cfg`).

Met while modelling; a property that one of these would break excepts it by name:

- two overlapping challenges of one claim both settle, and a claim finalised during a challenge is paid
  out twice (`bond.mjs:48-59`, the state is not looked at after the await);
- lying is not always punished, and not only lying is (`bond.mjs:10-11` says that "lying AND frivolous
  challenging are both punished, and the referee is re-execution"): `challenge()` looks the bond up by
  the `claim_id` of the object it is handed and adjudicates that object (`bond.mjs:41-46`). An edited
  body under an honest claim's id slashes the claimer, a true body under a lie's id acquits it. `Escrow`
  says who is paid then; `HonestyIsFree` counts what it costs (`swapped`);
- a judge that throws strands the challenger's stake (`bond.mjs:44-46`);
- a second readout of a week anchors claims that the week's entry does not cite (`readout.mjs:220`);
- re-emitting an unchanged claim makes the next readout stop with "archive collision" although nothing
  is wrong (`readout.mjs:95`, `claim.mjs:109`);
- the mutation guard sees the ends of its window only (`verify.mjs:249`): a claim that changes and
  changes back between them passes. `GreenIsEarned` and `RedIsEarned` say so in their exemption
  `ClaimReturned`. `INVARIANT_SPEC.md:128-129` reads as if nothing could change unseen. Marinade's guard
  is the same, and its re-read is pinned to the slot of the snapshot only (`verify-marinade.mjs:169`);
- the scan's retry looks for its reason in the first note (`scan.mjs:54`), and a supply drift is noted
  before the failure: a drifted pool is not retried (`FailureNotedFirst`);
- two recorder runs that overlap lose observations: the later one writes the file as it had read it
  (`recorder.mjs:61-72`);
- `verifyFraudProof` never recomputes the root a claim carries: one with the canonical root and trimmed
  observations passes its check (`fraudproof.mjs:48-63`);
- a Marinade report in which the liability check is unanswered becomes a RED claim (`claim.mjs:216`,
  `:63`), and excess mSOL at a price below one lamport, or at no supply, a GREEN one of a RED report;
- the registry trusts the `claim_id` that is posted, its group key leaves out the end of the window
  (`registry.mjs:51`) and is `eundefined` for every price-guard claim;
- a broadcast that dies between memo and row is repeated with a second memo (`broadcast.mjs:55`);
- a resolution is written with its outcome even when the claim did not reproduce; judge and second node
  throw on a price-guard claim;
- `verify-btc.mjs` counts an address given twice in the environment twice (`:275`);
- `verify-btc.mjs` counts an address whose answer lacks `chain_stats` as empty (`:190-191`): a row short
  of coverage may be short of an answer only;
- `attest.mjs --class` can name a class the checker's report does not bear out (`attest.mjs:101`);
- `reconstruct-evm.mjs` takes an empty answer of a node that has pruned the blocks for no transfers
  (`:199`), and an account whose code cannot be fetched for one without code (`:276`);
- `crawl.mjs` reads a missing block time as 0, which ends the crawl early (`:61`, `:77`), and an empty
  page as the beginning of the history (`:54`); a page appended before a crash is appended again;
- `curve.mjs:45` calls its rows chronological, but those of one slot stay newest first; and when no
  sample is served it writes a summary without numbers before it throws (`:85-87`);
- `measure.mjs` counts a quote that failed as a size without a route (`:34`), leaves the ceiling unset
  when every size routes (`:39`, `:55`), whereupon `ariete.mjs:45` strands the whole book; and after the
  first size without a route goes on appending larger ones that have one (`:56`). Without any route
  `ariete.mjs` throws on the empty curve (`:26`, `:55`);
- `ariete.mjs:37` says that everything past the ceiling is stranded, but a smaller position behind one
  that did not fit still clears.

Seen while reading, and of no run:

- `keeper.mjs --check` compares the status alone (`keeper.mjs:107`), the loop also the last close and
  the calendar version;
- `challenge()` does not look at the window: a claim nobody finalised can be challenged for ever;
- a half day counts as closed for the classifier (`weekend-liveness.mjs:63`) and as open for fraud
  proofs and the recorder (`fraudproof.mjs:34`, `recorder.mjs:67`).

## Not modelled

`PROJECT.json` lists every component with its status. Left out for good: page generators, probes and
printing (no state); cryptography (hashes and signatures are taken as what they identify); byte layouts,
address derivation (base58, bech32, keccak, RLP) and account authentication, abstracted to which
accounts and addresses are usable; the Rust re-executor and `reexec.mjs`, which decode a snapshot a
second time; the Campana client, three calls in a row. RPC retries in `core/rpc.mjs` appear as what they
lead to, an answer that may be old or a failure; the rotation of endpoints does not. Of praeda,
`reconstruct.mjs` stops at its own gate (its flows and curve are not implemented); of ruptor, the
constant-product simulation of `ariete.mjs` and the backtests; of the scan, its bounded concurrency and
the board file; of the readout, two at once, `--force`, and writes cut short.

## Plan

Done, in this order: the ledger and its contract; the calendar, twice, and the keeper; the stake-pool
verifier; claims and the judge; the weekly record; the recorder, its trees and fraud proofs; Marinade
and what claims, markets and the registry make of it; the verifiers that read several chains, and
attestations; reconstructions, crawls and stress tests; and the proofs listed above.

Next, most important first:

1. `SoundnessLog` extended with a second concurrent readout, `--force`, and writes cut short.
2. `Bond` composed with the real judge of `Claims` instead of its ruling.
3. `Rpc` - the retry, rotation and `minContextSlot` wait of `core/rpc.mjs`, and `PoolCheck` on top of
   it.
4. `ariete.mjs`'s constant-product capacity search against its definition.
