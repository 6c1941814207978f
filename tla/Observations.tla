---------------------------- MODULE Observations ----------------------------
(***************************************************************************)
(* vesper/weekend-liveness.mjs and the CMLS core of claim.mjs: the         *)
(* canonical observations of a price account over a window, and the        *)
(* verdict re-executed from them.  The account's history is a sequence of  *)
(* transactions, oldest first; a signature is the position in it.          *)
(***************************************************************************)
EXTENDS Integers, Sequences

CONSTANTS
  Pages,       \* pages fetchObservations reads at most (20)
  PageSize,    \* signatures on a page (1000)
  MarketAt,    \* marketStatus: time -> OPEN, HALF_DAY or CLOSED
  LiveGap      \* a gap of at least this is not live (30 minutes)

ASSUME PagingAssumption == Pages \in Nat \ {0} /\ PageSize \in Nat \ {0}
ASSUME GapAssumption == LiveGap \in Nat

\* err == null is `ok`.
Transaction == [time : Nat, ok : BOOLEAN]

\* The time of the last signature on page p, counted back from head.
Bottom(log, head, p) == log[head - p * PageSize + 1].time

\* Is there a page after page p?  The read stops below a page that goes back past lo.
MoreUnlessAt(log, head, lo, p) ==
  head - p * PageSize >= 1 /\ Bottom(log, head, p) > lo
More(log, head, lo, p) ==
  head - p * PageSize >= 1 /\ Bottom(log, head, p) >= lo

\* The signatures the pages reach.
Reached(log, head, lo) ==
  {i \in 1..head : \E q \in 1..Pages :
     i > head - q * PageSize /\ \A p \in 1 .. q-1 : More(log, head, lo, p)}

BetweenExclusive(log, positions, lo, hi) ==
  {i \in positions : log[i].ok /\ lo <= log[i].time /\ log[i].time < hi}
Between(log, positions, lo, hi) ==
  {i \in positions : log[i].ok /\ lo <= log[i].time /\ log[i].time <= hi}

\* fetchObservations, answered from a node that has the first head transactions.
FetchObservations(log, head, lo, hi) == Between(log, Reached(log, head, lo), lo, hi)

-----------------------------------------------------------------------------
(* classifyUpdateTimes, guardFromSignal and classify. *)

TimesOf(log, obs) == {log[i].time : i \in obs}

\* A gap no update falls into.
Sparse(times) ==
  \E t, u \in times : /\ u - t >= LiveGap
                      /\ \A v \in times : v <= t \/ u <= v

NotOpen(t) == MarketAt[t] # "OPEN"
ClosedUpdates(log, obs) == {i \in obs : NotOpen(log[i].time)}

Signal(log, obs) ==
  CASE obs = {} -> "NO_DATA"
    [] obs # {} /\ ClosedUpdates(log, obs) = {} -> "FROZEN_THROUGH_CLOSURE"
    [] ClosedUpdates(log, obs) # {} /\ ~Sparse(TimesOf(log, obs)) -> "LIVE_THROUGH_CLOSURE"
    [] OTHER -> "SPARSE"

FlagIsSignal(log, obs) == Signal(log, obs)
\* reexecCmls.
Flag(log, obs) ==
  CASE Signal(log, obs) = "LIVE_THROUGH_CLOSURE" -> "RED"
    [] Signal(log, obs) = "FROZEN_THROUGH_CLOSURE" -> "YELLOW"
    [] OTHER -> "UNKNOWN"
=============================================================================
