------------------------------- MODULE Keeper -------------------------------
(***************************************************************************)
(* campana-program/keeper.mjs --loop: crank the status account, sleep to   *)
(* the next flip or heartbeat, repeat; with the Crank instruction of       *)
(* lib.rs, the host that suspends, launchd that restarts the process, and  *)
(* everybody else who may crank.                                           *)
(*                                                                         *)
(* Time is counted in units that keep the order of the code's durations    *)
(* (2 s after a flip < 30 s floor < 60 s poll < heartbeat).  The wall      *)
(* clock `now` is what Date.now() returns; `chain` is the Clock sysvar,    *)
(* which trails or leads it by a bounded amount.  Timers of a suspended    *)
(* host stand still.  The keeper's own computation takes no time; an RPC   *)
(* call does.                                                              *)
(***************************************************************************)
EXTENDS Integers, FiniteSetsExt

CONSTANTS
  Flips,        \* the bells: the market opens at the first, closes at the second, ...
  Poll,         \* POLL_MS
  Retry,        \* the pause after a failed crank
  Floor,        \* the shortest sleep asked for (now + 30)
  Grace,        \* how long after a flip the keeper aims for (flip + 2)
  Heartbeat,    \* HEARTBEAT
  MaxRpc,       \* bound on the time one crankOnce() takes
  MaxLag, MaxLead, \* bounds on how far the chain's clock trails and leads
  Starts,       \* the times the process may be started at
  MaxTime,      \* the wall clock stops here, every later deadline come; timers go on
  MaxFails,     \* bound on the failed cranks and crashes
  MaxSuspends   \* bound on the suspensions of the host

NoFlip == -1

ASSUME DurationAssumption ==
  /\ {Poll, Retry, Floor, Heartbeat, MaxRpc} \subseteq Nat \ {0}
  /\ {Grace, MaxLag, MaxLead, MaxTime, MaxFails, MaxSuspends} \subseteq Nat
  /\ Grace <= Poll /\ Floor <= Poll
\* The clock does not stop before the chain's clock has crossed the last bell.
ASSUME ScheduleAssumption ==
  /\ Flips \subseteq 1..MaxTime /\ Starts \subseteq 0..MaxTime
  /\ \A f \in Flips : f + MaxLag <= MaxTime

VARIABLES
  now,       \* the wall clock
  chain,     \* the Clock sysvar
  account,   \* the status account
  pc,        \* sending, landed (the crank took effect, the answer is awaited),
             \* backoff, sleeping, down
  wait,      \* backoff, sleeping: time left on the timer; else time in the call
  flip,      \* the keeper's `flip`
  target,    \* sleepUntil's targetTs
  hold,      \* sleepUntil's holdStatus
  awake,     \* is the host running?
  fails, suspends,  \* so far
  overslept, \* running time slept past a flip or the target (history)
  stale      \* running time for which the account has been wrong (history)

timers == <<wait, flip, target, hold>>
env == <<now, chain, account, awake, suspends>>
vars == <<env, pc, timers, fails, overslept, stale>>

-----------------------------------------------------------------------------
(* marketStatus on this schedule; OPEN stands for HALF_DAY too. *)

Before(t) == {f \in Flips : f <= t}
StatusAt(t) == IF Cardinality(Before(t)) % 2 = 0 THEN "CLOSED" ELSE "OPEN"
Closes == {f \in Flips : StatusAt(f) = "CLOSED"}
LastFlip(t) == IF Before(t) = {} THEN NoFlip ELSE Max(Before(t))
CloseBefore(t) ==
  LET rung == {f \in Closes : f <= t} IN IF rung = {} THEN NoFlip ELSE Max(rung)

FlipAfter(t) ==
  LET later == {f \in Flips : f > t} IN IF later = {} THEN NoFlip ELSE Min(later)

\* What Crank writes at the chain's time ts.
Written(ts) == [status |-> StatusAt(ts), updatedTs |-> ts, lastCloseTs |-> CloseBefore(ts)]

\* crankOnce re-executes the reference at the timestamp the chain used.
Agrees(a) == a.status = StatusAt(a.updatedTs) /\ a.lastCloseTs = CloseBefore(a.updatedTs)

\* In running time: what it takes the keeper to notice and its crank to land, or, when
\* the chain's clock trails, the clock to cross the flip, a crank that landed just
\* before to end and another to land; when it leads and the crank lands past the next
\* flip, the wall clock to get there; plus what failures cost.
Noticed == Max({Poll + MaxRpc, MaxLag + 2 * MaxRpc})
StaleBound == Noticed + Max({1, MaxLead}) - 1 + MaxFails * (MaxRpc + Retry)

\* The histories are counted to one beyond their bounds.
CountedTo(bound, n) == Min({bound + 1, n})

Init ==
  /\ now \in Starts
  /\ chain = now
  /\ account = Written(0)
  /\ pc = "sending"
  /\ wait = 0 /\ flip = NoFlip /\ target = 0 /\ hold = "CLOSED"
  /\ awake = TRUE
  /\ fails = 0 /\ suspends = 0
  /\ overslept = 0 /\ stale = 0

-----------------------------------------------------------------------------
InSync == account.status = StatusAt(now)

\* The account is rewritten: it is stale for as long as before, or right again.
Crank ==
  /\ account' = Written(chain)
  /\ stale' = IF StatusAt(chain) = StatusAt(now) THEN 0 ELSE stale
  /\ UNCHANGED <<now, chain, awake, suspends, timers, fails, overslept>>

\* Anyone may crank, a crank the keeper gave up on may still land, and so may one
\* sent by a process that has died.
OtherCrank == Crank /\ UNCHANGED pc

\* The keeper's crank takes effect.
Lands == pc = "sending" /\ pc' = "landed" /\ Crank

StartCrank == pc' = "sending" /\ wait' = 0 /\ overslept' = 0

\* One setTimeout for the whole sleep (the schedule of 2026-08-06).
SleepPassOneTimer(t, h) ==
  \/ now >= t /\ StartCrank
  \/ now < t /\ pc' = "sleeping" /\ wait' = t - now /\ UNCHANGED overslept

\* Divergence as the only reason to wake.
SleepPassOnlyDiverged(t, h) ==
  \/ StatusAt(now) # h /\ StartCrank
  \/ StatusAt(now) = h /\ pc' = "sleeping" /\ wait' = Poll /\ UNCHANGED overslept

\* One pass of sleepUntil: due, diverged, or another timer.
SleepPass(t, h) ==
  \/ /\ now >= t \/ StatusAt(now) # h
     /\ StartCrank
  \/ /\ now < t /\ StatusAt(now) = h
     /\ pc' = "sleeping"
     /\ wait' = Min({Poll, t - now})
     /\ UNCHANGED overslept

\* The crank is confirmed and the account read: what it says is re-executed, and
\* the next wake-up follows from it.
Confirmed ==
  LET wakeTs == IF flip' = NoFlip THEN now + Heartbeat
                ELSE Min({flip' + Grace, now + Heartbeat})
  IN /\ pc = "landed" /\ awake /\ wait > 0
     /\ Agrees(account)
     /\ flip' = FlipAfter(account.updatedTs)
     /\ hold' = account.status
     /\ target' = Min({Max({wakeTs, now + Floor}), MaxTime})
     /\ SleepPass(target', hold')
     /\ UNCHANGED <<env, fails, stale>>

\* The timer of sleepUntil fires.
PollFires ==
  /\ pc = "sleeping" /\ awake /\ wait = 0
  /\ SleepPass(target, hold)
  /\ UNCHANGED <<env, flip, target, hold, fails, stale>>

\* sendAndConfirmTransaction, the read or the comparison throws.
CrankFails ==
  /\ pc \in {"sending", "landed"} /\ awake /\ wait > 0
  /\ Agrees(account) => fails < MaxFails
  /\ fails' = fails + 1
  /\ pc' = "backoff" /\ wait' = Retry
  /\ UNCHANGED <<env, flip, target, hold, overslept, stale>>

RetryFires ==
  /\ pc = "backoff" /\ awake /\ wait = 0
  /\ StartCrank
  /\ UNCHANGED <<env, flip, target, hold, fails, stale>>

Crash ==
  /\ pc # "down" /\ awake
  /\ fails < MaxFails /\ fails' = fails + 1
  /\ pc' = "down" /\ wait' = 0 /\ flip' = NoFlip /\ target' = 0 /\ hold' = "CLOSED"
  /\ overslept' = 0
  /\ UNCHANGED <<env, stale>>

\* KeepAlive.  The arrival check only logs.
Restart ==
  /\ pc = "down" /\ awake
  /\ StartCrank
  /\ UNCHANGED <<env, flip, target, hold, fails, stale>>

Suspend ==
  /\ awake /\ suspends < MaxSuspends
  /\ awake' = FALSE /\ suspends' = suspends + 1
  /\ UNCHANGED <<now, chain, account, pc, timers, fails, overslept, stale>>

Resume ==
  /\ ~awake
  /\ awake' = TRUE
  /\ UNCHANGED <<now, chain, account, pc, timers, fails, suspends, overslept, stale>>

TimerOn == pc \in {"sleeping", "backoff"}
Calling == pc \in {"sending", "landed"}

\* Nothing the running process is about to do is overtaken by the clock.
Tick ==
  /\ awake => /\ TimerOn => wait > 0
              /\ Calling => wait < MaxRpc
  /\ now' = IF now < MaxTime THEN now + 1 ELSE now
  /\ chain' \in chain .. now' + MaxLead
  /\ chain' >= now' - MaxLag
  /\ wait' = IF awake /\ TimerOn THEN wait - 1
             ELSE IF awake /\ Calling THEN wait + 1 ELSE wait
  /\ overslept' = IF /\ awake /\ pc = "sleeping"
                     /\ now >= target \/ (flip # NoFlip /\ now >= flip)
                  THEN CountedTo(Poll, overslept + 1) ELSE overslept
  /\ stale' = IF account.status = StatusAt(now') THEN 0
              ELSE IF awake /\ pc # "down" /\ ~InSync
                   THEN CountedTo(StaleBound, stale + 1) ELSE stale
  /\ UNCHANGED <<account, pc, flip, target, hold, awake, fails, suspends>>

Keeper == Lands \/ Confirmed \/ PollFires \/ RetryFires
Next ==
  \/ Keeper \/ CrankFails \/ OtherCrank
  \/ Crash \/ Restart \/ Suspend \/ Resume \/ Tick

Spec == Init /\ [][Next]_vars

\* Timers fire, calls return, launchd restarts, the lid is opened, time passes.
Fairness == WF_vars(Keeper) /\ WF_vars(Restart) /\ WF_vars(Resume) /\ WF_vars(Tick)
FairSpec == Spec /\ Fairness

-----------------------------------------------------------------------------

\* "The keeper now notices within 60s of wake": a running keeper never sleeps more
\* than one poll past a flip its last crank had not seen, or past its heartbeat,
\* however the host was suspended meanwhile.
NoticesWithinPoll == overslept <= Poll

\* The account is never wrong for longer than StaleBound: suspensions and cranks by
\* others do not extend it.
StalenessBounded == stale <= StaleBound

\* A wrong account is right again in the end, whatever was missed, as long as
\* failures, crashes and suspensions are finitely many.
CatchesUp == ~InSync ~> InSync
=============================================================================
