------------------------------- MODULE Crawl -------------------------------
(***************************************************************************)
(* praeda/crawl.mjs and praeda/curve.mjs: the signatures of a vault are    *)
(* paged back from now to the far edge of a window, those inside it        *)
(* appended to a file and the cursor saved now and then; the process may   *)
(* die anywhere and be run again.  Then balances are sampled from the file. *)
(***************************************************************************)
EXTENDS Integers, Sequences, SequencesExt, FiniteSetsExt, Functions, Lists

CONSTANTS
  Vaults,      \* histories of a vault: the time, slot and balance of each signature
  PageSize,    \* signatures to a page
  STOP_BEFORE, STORE_BEFORE,  \* the window, its ends included
  MAX_PAGES,
  SaveEvery,   \* pages after which the cursor is saved in any case
  SAMPLES,
  MaxGrowth,   \* bound on the signatures added meanwhile
  MaxCrashes,  \* bound on the times the crawler dies
  NoSummary

ASSUME CrawlAssumption ==
  /\ {PageSize, SaveEvery, SAMPLES} \subseteq Nat \ {0}
  /\ {MAX_PAGES, MaxGrowth, MaxCrashes} \subseteq Nat
  /\ {STOP_BEFORE, STORE_BEFORE} \subseteq Nat
  /\ 0 < STOP_BEFORE /\ STOP_BEFORE <= STORE_BEFORE

\* What is served of a vault is in the order of its slots, and of its times, where it has
\* any.
Signatures == [time : Nat, slot : Nat, bal : Nat]
ASSUME VaultsAssumption ==
  \A v \in Vaults :
    /\ v \in Seq(Signatures) /\ v # <<>>
    /\ \A i, j \in DOMAIN v :
         i < j => /\ v[i].slot <= v[j].slot
                  /\ v[i].time # 0 /\ v[j].time # 0 => v[i].time <= v[j].time

VARIABLES
  crPc,     \* "start", "fetch", "append", "dead", "crawled" or "sampled"
  vault,    \* the vault's signatures, oldest first; time 0 where the endpoint gives none
  page,     \* what is left of the page at hand, newest first
  oldest,   \* the last of that page
  found,    \* how many of it were stored
  state,    \* the crawler's state
  saved,    \* crawl-state.json
  file,     \* window-usdc-sigs.jsonl
  crashes,
  cut,      \* an empty page was served although there was more
  summary   \* what curve.mjs found

crawlVars == <<crPc, vault, page, oldest, found, state, saved, file, crashes, cut, summary>>

\* The cursor is the oldest signature seen, 0 before any.
Fresh == [cursor |-> 0, pages |-> 0, stored |-> 0, reachedGenesis |-> FALSE]

CrawlInit ==
  /\ crPc = "start" /\ vault = <<>> /\ page = <<>> /\ oldest = 0 /\ found = 0 /\ state = Fresh
  /\ saved = Fresh /\ file = <<>> /\ crashes = 0 /\ cut = FALSE /\ summary = NoSummary

-----------------------------------------------------------------------------
InStore(s) == s.time <= STORE_BEFORE /\ s.time >= STOP_BEFORE
PastWindow(s) == s.time < STOP_BEFORE
PastOrAtWindow(s) == s.time <= STOP_BEFORE
Done(s) == PastWindow(s)

\* The page before a cursor, newest first.
PageBefore(cursor) ==
  LET last == IF cursor = 0 THEN Len(vault) ELSE cursor - 1
      n == IF last < PageSize THEN last ELSE PageSize
  IN [k \in 1..n |-> last - k + 1]

BeginCrawl ==
  /\ crPc = "start" /\ crPc' = "fetch" /\ vault' \in Vaults
  /\ UNCHANGED <<page, oldest, found, state, saved, file, crashes, cut, summary>>

Finish(s) == crPc' = "crawled" /\ state' = s /\ saved' = s

\* A page; an empty one is taken for the vault's genesis, whoever served it.
FetchPage ==
  /\ crPc = "fetch" /\ ~state.reachedGenesis /\ state.pages < MAX_PAGES
  /\ \/ /\ PageBefore(state.cursor) # <<>>
        /\ page' = PageBefore(state.cursor) /\ oldest' = Last(page') /\ found' = 0
        /\ crPc' = "append"
        /\ UNCHANGED <<state, saved, cut>>
     \/ /\ Finish([state EXCEPT !.reachedGenesis = TRUE])
        /\ cut' = (cut \/ PageBefore(state.cursor) # <<>>)
        /\ UNCHANGED <<page, oldest, found>>
  /\ UNCHANGED <<vault, file, crashes, summary>>

\* One signature of the page.
AppendSignature ==
  /\ crPc = "append" /\ page # <<>> /\ page' = Tail(page)
  /\ IF InStore(vault[page[1]]) THEN file' = Append(file, page[1]) /\ found' = found + 1
     ELSE UNCHANGED <<file, found>>
  /\ UNCHANGED <<crPc, vault, oldest, state, saved, crashes, cut, summary>>

\* The cursor moves to the oldest of the page, and is saved if anything was stored.
TurnPage ==
  LET s == [state EXCEPT !.cursor = oldest, !.pages = @ + 1, !.stored = @ + found]
  IN /\ crPc = "append" /\ page = <<>>
     /\ IF Done(vault[oldest]) THEN Finish([s EXCEPT !.reachedGenesis = TRUE])
        ELSE /\ crPc' = "fetch" /\ state' = s
             /\ saved' = IF found > 0 \/ s.pages % SaveEvery = 0 THEN s ELSE saved
     /\ UNCHANGED <<vault, page, oldest, found, file, crashes, cut, summary>>

\* The pages allowed are spent, or an earlier run had finished.
StopCrawl ==
  /\ crPc = "fetch" /\ (state.reachedGenesis \/ state.pages >= MAX_PAGES)
  /\ Finish(state)
  /\ UNCHANGED <<vault, page, oldest, found, file, crashes, cut, summary>>

\* The retries of a call are spent, or the process is killed.
CrawlDies ==
  /\ crPc \in {"fetch", "append"} /\ crashes < MaxCrashes
  /\ crPc' = "dead" /\ crashes' = crashes + 1
  /\ page' = <<>> /\ oldest' = 0 /\ found' = 0
  /\ UNCHANGED <<vault, state, saved, file, cut, summary>>

Resume ==
  /\ crPc = "dead" /\ crPc' = "fetch" /\ state' = saved
  /\ UNCHANGED <<vault, page, oldest, found, saved, file, crashes, cut, summary>>

\* The vault goes on after the window.
VaultGrows ==
  /\ crPc \in {"fetch", "append"} /\ Cardinality({i \in DOMAIN vault :
                                          vault[i].time > STORE_BEFORE}) < MaxGrowth
  /\ LET last == vault[Len(vault)]
     IN vault' = Append(vault, [last EXCEPT !.time = STORE_BEFORE + 1, !.slot = @ + 1])
  /\ UNCHANGED <<crPc, page, oldest, found, state, saved, file, crashes, cut, summary>>

-----------------------------------------------------------------------------
SameMoment(i, j) == vault[i].time = vault[j].time /\ vault[i].slot = vault[j].slot

\* Sorted by time and slot; what shares both stays as it was crawled, newest first.
Rows ==
  FlattenSeq([i \in DOMAIN vault |->
    IF \E j \in 1 .. i - 1 : SameMoment(i, j) THEN <<>>
    ELSE Filter(file, {k \in DOMAIN vault : SameMoment(i, k)})])

\* Every stride-th row, and the last.
Sampled(rows) ==
  LET n == Len(rows)
      stride == Max({1, n \div SAMPLES})
      every == [k \in 1 .. (n + stride - 1) \div stride |-> (k - 1) * stride + 1]
      idx == IF every[Len(every)] = n THEN every ELSE Append(every, n)
  IN [k \in DOMAIN idx |-> rows[idx[k]]]

Balances(curve) == [k \in DOMAIN curve |-> vault[curve[k]].bal]
PeakIndex(bals) == Min({k \in DOMAIN bals : bals[k] = Max(Range(bals))})
TroughAfterPeak(bals) == Min(Range(SubSeq(bals, PeakIndex(bals), Len(bals))))
TroughAnywhere(bals) == Min(Range(bals))
PostPeakTrough(bals) == TroughAfterPeak(bals)

\* What is written of no samples; curve.mjs then throws over its missing peak.
NothingSampled == [curve |-> <<>>]

\* curve.mjs: a sample whose transaction is not served is left out.
SampleCurve ==
  /\ crPc = "crawled" /\ file # <<>> /\ crPc' = "sampled"
  /\ \E served \in SUBSET ToSet(file) :
       LET curve == Filter(Sampled(Rows), served)
           bals == Balances(curve)
       IN \/ curve = <<>> /\ summary' = NothingSampled
          \/ /\ curve # <<>>
             /\ summary' = [curve |-> curve, peak |-> Max(Range(bals)),
                            drop |-> Max(Range(bals)) - PostPeakTrough(bals)]
  /\ UNCHANGED <<vault, page, oldest, found, state, saved, file, crashes, cut>>

CrawlNext ==
  \/ BeginCrawl \/ FetchPage \/ AppendSignature \/ TurnPage \/ StopCrawl \/ CrawlDies \/ Resume
  \/ VaultGrows \/ SampleCurve

CrawlSpec == CrawlInit /\ [][CrawlNext]_crawlVars

-----------------------------------------------------------------------------
\* A crawl that says it reached the far edge has every signature of the window, wherever
\* it died and was resumed, and has one twice only if it died; unless a signature came
\* without its time or an empty page for what was not served.
WindowIsWhole ==
  crPc \in {"crawled", "sampled"} /\ saved.reachedGenesis /\ ~cut
      /\ (\A i \in DOMAIN vault : vault[i].time # 0) =>
    /\ ToSet(file) = {i \in DOMAIN vault : InStore(vault[i])}
    /\ crashes = 0 => IsInjective(file) /\ saved.stored = Len(file)

\* The sampled decline happened: some balance was followed by one lower by as much; unless
\* two samples fall into one slot, where the order of the vault is lost, or none was served.
DeclineIsReal ==
  summary # NoSummary /\ summary.curve # <<>>
      /\ (\A k, l \in DOMAIN summary.curve :
            SameMoment(summary.curve[k], summary.curve[l]) =>
              summary.curve[k] = summary.curve[l]) =>
    \E i, j \in DOMAIN vault : i <= j /\ vault[i].bal - vault[j].bal = summary.drop
=============================================================================
