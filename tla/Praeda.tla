------------------------------- MODULE Praeda -------------------------------
(***************************************************************************)
(* praeda/evm/reconstruct-evm.mjs: the transfers across a boundary inside  *)
(* a window of blocks, fetched outflows first and in chunks, become a      *)
(* ledger of net outflows E and timings L, or no ledger at all.  The past  *)
(* is settled; what may go wrong is the endpoint.  Values are in dollars.  *)
(***************************************************************************)
EXTENDS Integers, Sequences, SequencesExt, FiniteSetsExt, Functions, Lists

CONSTANTS
  Accounts, Boundary, Intermediaries,
  Code,        \* the bytecode of every account, "eoa" for those without
  FromBlock, ToBlock,  \* the window
  Step,        \* blocks to a chunk
  Samples,     \* intervals of the drawdown curve
  Reserve,     \* what the boundary holds before the window
  Unit,        \* timings are in Unit-ths
  Histories,   \* the transfers of the window, in the order of the chain
  NoReport

ASSUME PraedaAssumption ==
  /\ Boundary \cup Intermediaries \subseteq Accounts
  /\ FromBlock \in Nat /\ ToBlock \in Nat /\ FromBlock < ToBlock
  /\ {Step, Samples, Unit} \subseteq Nat \ {0}
  /\ Reserve \in Nat
Transfers == [block : FromBlock .. ToBlock, from : Accounts, to : Accounts, value : Nat]
ASSUME HistoriesAssumption == Histories \subseteq Seq(Transfers)

VARIABLES
  evmPc,    \* "start", "out", "in", "curve", "code" or "done"
  history,  \* the transfers of the window
  chunk,    \* the first block of the next chunk
  events,   \* the signed crossings, as they were fetched
  hole,     \* a chunk was answered empty by a node that had pruned it
  points,   \* the samples of the curve
  ledger    \* the report

praedaVars == <<evmPc, history, chunk, events, hole, points, ledger>>

PraedaInit ==
  /\ evmPc = "start" /\ history = <<>> /\ chunk = FromBlock /\ events = <<>>
  /\ hole = FALSE /\ points = <<>> /\ ledger = NoReport

-----------------------------------------------------------------------------
\* The logs of one direction in a range of blocks.
Logs(dir, first, last) ==
  Filter(history, {t \in ToSet(history) :
    t.block \in first..last /\ (IF dir = "out" THEN t.from ELSE t.to) \in Boundary})

\* A value received from the boundary, or sent into it.
Crossing(dir, t) ==
  IF dir = "out" THEN [account |-> t.to, block |-> t.block, dv |-> t.value]
  ELSE [account |-> t.from, block |-> t.block, dv |-> -t.value]

\* The boundary's own accounts are not counted.
Bumped(dir, logs) ==
  LET crossings == [i \in DOMAIN logs |-> Crossing(dir, logs[i])]
  IN Filter(crossings, {e \in ToSet(crossings) : e.account \notin Boundary})

LastOf(start) == IF start + Step - 1 > ToBlock THEN ToBlock ELSE start + Step - 1
LastOverlapping(start) == IF start + Step > ToBlock THEN ToBlock ELSE start + Step
ChunkEnd(start) == LastOf(start)

-----------------------------------------------------------------------------
EventsOf(a) == Filter(events, {e \in ToSet(events) : e.account = a})
SumOf(s) == SumFunction([i \in DOMAIN s |-> s[i].dv])

\* By block, and as fetched within one.
Ordered(s) ==
  FlattenSeq([i \in 1 .. ToBlock - FromBlock + 1 |->
                Filter(s, {e \in ToSet(s) : e.block = FromBlock + i - 1})])

\* On the terminal side of, and at least half of, the terminal value.
SameSide(x, terminal) == IF terminal >= 0 THEN 2 * x >= terminal ELSE 2 * x <= terminal

\* The block of the first event from which on the running sum stays there.
FirstStaying(s, terminal) ==
  LET ordered == Ordered(s)
      stays(i) == \A j \in i .. Len(ordered) : SameSide(SumOf(SubSeq(ordered, 1, j)), terminal)
  IN ordered[Min({i \in DOMAIN ordered : stays(i)})].block
FirstReaching(s, terminal) ==
  LET ordered == Ordered(s)
  IN ordered[Min({i \in DOMAIN ordered :
                    SameSide(SumOf(SubSeq(ordered, 1, i)), terminal)})].block
DecisiveBlock(s, terminal) == FirstStaying(s, terminal)

\* Drawdown at a block, between the two samples around it, from 0 to Unit.
Drawdown(b) ==
  LET i == Min({k \in 1 .. Len(points) - 1 : b \in points[k].block .. points[k + 1].block})
      lo == points[i]  hi == points[i + 1]
      width == IF hi.block = lo.block THEN 1 ELSE hi.block - lo.block
      fall == points[1].usd - points[Len(points)].usd
      span == IF fall = 0 THEN 1 ELSE fall
      \* (v0 - usd) * width, with the sign of the span
      up == IF span > 0 THEN 1 ELSE -1
      fallen == up * ((points[1].usd - lo.usd) * width - (hi.usd - lo.usd) * (b - lo.block))
      d == (Unit * fallen) \div (width * up * span)
  IN IF d < 0 THEN 0 ELSE IF d > Unit THEN Unit ELSE d

Timing(b) == Unit - Drawdown(b)

-----------------------------------------------------------------------------
Unclassified ==
  LET entry(a) ==
        LET s == EventsOf(a)  b == DecisiveBlock(s, SumOf(s))
        IN [account |-> a, E |-> SumOf(s), block |-> b, L |-> Timing(b),
            cls |-> IF a \in Intermediaries THEN "ROUTE_UNRESOLVED" ELSE "none"]
  IN {entry(a) : a \in {e.account : e \in ToSet(events)}}

\* L is at or past the median: twice as large as the middle two together, or the middle.
PastMedian(L, rows) ==
  LET n == Cardinality(rows)
      Below(r) == Cardinality({q \in rows : q.L < r.L})
      UpTo(r) == Cardinality({q \in rows : q.L <= r.L})
      \* the k-th smallest timing
      Nth(k) == (CHOOSE r \in rows : Below(r) < k /\ k <= UpTo(r)).L
  IN IF n % 2 = 1 THEN L >= Nth(n \div 2 + 1) ELSE 2 * L >= Nth(n \div 2) + Nth(n \div 2 + 1)

\* The classes: who moved out, and which of the largest moved early.
Classify(rows) ==
  LET resolved == {r \in rows : r.cls = "none"}
      outflows == {r \in resolved : r.E > 0}
      K == IF outflows = {} THEN 1 ELSE (Cardinality(outflows) + 19) \div 20
      \* sort() is stable: of equals the first met comes first
      met(r) == Min({i \in DOMAIN events : events[i].account = r.account})
      rank(r) == Cardinality({q \in outflows : q.E > r.E \/ (q.E = r.E /\ met(q) < met(r))})
      class(r) ==
        CASE r.E < 0 -> "NET_INFLOW" [] r.E = 0 -> "NET_ZERO"
          [] OTHER -> IF rank(r) < K /\ PastMedian(r.L, resolved)
                      THEN "EARLY_TOP_OUTFLOW" ELSE "NET_OUTFLOW"
  IN {IF r.cls # "none" THEN r ELSE [r EXCEPT !.cls = class(r)] : r \in rows}

\* What the endpoint says of an account; a call that fails leaves it without code.
Fingerprint(a, failed) == IF a \in failed THEN "eoa" ELSE Code[a]

ClustersOf(rows, failed) ==
  LET group(f) == {r \in rows : Fingerprint(r.account, failed) = f}
  IN {[fp |-> f, members |-> {r.account : r \in group(f)},
       E |-> SumFunction([r \in group(f) |-> r.E])] :
        f \in {Fingerprint(r.account, failed) : r \in rows}}

Refuse ==
  /\ evmPc' = "done"
  /\ ledger' = [verdict |-> "UNRECONSTRUCTED", rows |-> {}, clusters |-> {}]

-----------------------------------------------------------------------------
\* servesWindow: the case is not pinned, or its first block or a balance there is not
\* served; or the reconstruction begins.
ServesWindow ==
  /\ evmPc = "start" /\ history' \in Histories
  /\ \/ evmPc' = "out" /\ UNCHANGED ledger
     \/ Refuse
  /\ UNCHANGED <<chunk, events, hole, points>>

\* The next chunk, then the next direction, then the curve.
Advance ==
  IF chunk + Step <= ToBlock THEN chunk' = chunk + Step /\ UNCHANGED evmPc
  ELSE chunk' = FromBlock /\ evmPc' = IF evmPc = "out" THEN "in" ELSE "curve"

GetLogs ==
  /\ evmPc \in {"out", "in"} /\ Advance
  /\ \/ /\ events' = events \o Bumped(evmPc, Logs(evmPc, chunk, ChunkEnd(chunk)))
        /\ UNCHANGED hole
     \/ \* from a node that no longer has those blocks and does not say so
        hole' = TRUE /\ UNCHANGED events
  /\ UNCHANGED <<history, points, ledger>>

\* What the boundary holds after a block.
Moved(logs) == SumFunction([i \in DOMAIN logs |-> logs[i].value])
BalanceAt(b) ==
  Reserve - Moved(Logs("out", FromBlock, b)) + Moved(Logs("in", FromBlock, b))

SampleBlock(i) == FromBlock + (2 * (ToBlock - FromBlock) * i + Samples) \div (2 * Samples)

DrawdownCurve ==
  /\ evmPc = "curve" /\ evmPc' = "code"
  /\ points' = [i \in 1 .. Samples + 1 |->
                  [block |-> SampleBlock(i - 1), usd |-> BalanceAt(SampleBlock(i - 1))]]
  /\ UNCHANGED <<history, chunk, events, hole, ledger>>

\* The codes of all accounts, as far as they are served, and the report.
ResolveEndpoints ==
  /\ evmPc = "code" /\ evmPc' = "done"
  /\ \E failed \in SUBSET Accounts :
       LET rows == Classify(Unclassified)
       IN ledger' = [verdict |-> "RECONSTRUCTED", rows |-> rows,
                     clusters |-> ClustersOf(rows, failed)]
  /\ UNCHANGED <<history, chunk, events, hole, points>>

\* A call fails for good, its retries spent.
EvmFails ==
  /\ evmPc \in {"out", "in", "curve"} /\ Refuse
  /\ UNCHANGED <<history, chunk, events, hole, points>>

PraedaNext ==
  ServesWindow \/ GetLogs \/ DrawdownCurve \/ ResolveEndpoints \/ EvmFails

\* The reconstruction by itself.
PraedaSpec == PraedaInit /\ [][PraedaNext]_praedaVars

-----------------------------------------------------------------------------
\* What an account took across the boundary up to a block, as the chain has it.
NetTaken(a, b) ==
  LET took == {t \in ToSet(history) : t.from \in Boundary /\ t.to = a /\ t.block <= b}
      gave == {t \in ToSet(history) : t.to \in Boundary /\ t.from = a /\ t.block <= b}
  IN Moved(Filter(history, took)) - Moved(Filter(history, gave))
Outside == Accounts \ Boundary
Reconstructed == ledger # NoReport /\ ledger.verdict = "RECONSTRUCTED"

\* A ledger is whole or there is none: however the window was cut and whatever failed on
\* the way, every account's E is what it took across the boundary, the rows and the
\* clusters both add up to what the boundary lost, and a cluster has one bytecode; unless
\* a node answered for blocks it had pruned.
LedgerIsWhole ==
  Reconstructed /\ ~hole =>
    /\ \A r \in ledger.rows : r.account \in Outside /\ r.E = NetTaken(r.account, ToBlock)
    /\ \A a \in Outside :
         NetTaken(a, ToBlock) # 0 => \E r \in ledger.rows : r.account = a
    /\ SumFunction([r \in ledger.rows |-> r.E]) = Reserve - BalanceAt(ToBlock)
    /\ SumFunction([c \in ledger.clusters |-> c.E]) = Reserve - BalanceAt(ToBlock)
    /\ \A c \in ledger.clusters :
         c.fp # "eoa" => \A a \in c.members : Code[a] = c.fp

\* At the end of that block and of every later one the account was on the side it ended.
Settled(a, b) ==
  \A c \in b .. ToBlock : SameSide(NetTaken(a, c), NetTaken(a, ToBlock))

\* The block an account is said to have committed at is one from which its net flow never
\* again left the terminal half, although inflows are fetched after all outflows; for who
\* took more than it gave it is the first one.  And who is called early was no later than
\* half of the accounts that could be resolved.
CommitsForGood ==
  Reconstructed /\ ~hole =>
    \A r \in ledger.rows :
      /\ Settled(r.account, r.block)
      /\ r.E > 0 => \A b \in FromBlock .. r.block - 1 : ~Settled(r.account, b)
      /\ r.cls = "EARLY_TOP_OUTFLOW" =>
           LET resolved == {q \in ledger.rows : q.cls # "ROUTE_UNRESOLVED"}
           IN 2 * Cardinality({q \in resolved : q.L <= r.L}) >= Cardinality(resolved)
=============================================================================
