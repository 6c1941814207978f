------------------------------ MODULE Recorder ------------------------------
(***************************************************************************)
(* vesper/recorder.mjs: an append-only log of the closed-market updates of *)
(* one account, and the root over it.  record() reads the log file, awaits *)
(* the observations, then appends and writes the whole file; nothing keeps *)
(* two of them apart.  Called for another account it throws before it      *)
(* touches anything.                                                       *)
(***************************************************************************)
EXTENDS Observations, Merkle

CONSTANTS
  Runs,        \* calls of record(), each made once
  HoursBack,   \* the trailing window of a call (6 hours)
  MaxTime,     \* bound on the clock
  MaxUpdates,  \* bound on the account's history
  MaxLag       \* how many transactions an RPC node may be behind

VARIABLES
  log,     \* the transactions of the account, oldest first
  now,     \* the clock
  file,    \* recorder/log.json: the observations recorded and their root
  run      \* what each call has read

recorderVars == <<log, now, file, run>>

Heads == {h \in 0..Len(log) : h >= Len(log) - MaxLag}

RecorderInit ==
  /\ log = <<>> /\ now = 0
  /\ file = [observations |-> <<>>, root |-> <<>>]
  /\ run = [r \in Runs |-> [at |-> "ready", read |-> <<>>]]

Update ==
  /\ Len(log) < MaxUpdates
  /\ \E ok \in BOOLEAN : log' = Append(log, [time |-> now, ok |-> ok])
  /\ UNCHANGED <<now, file, run>>

Tick ==
  /\ now < MaxTime /\ now' = now + 1
  /\ UNCHANGED <<log, file, run>>

\* record() up to its await.
Load(r) ==
  /\ run[r].at = "ready"
  /\ run' = [run EXCEPT ![r] = [at |-> "fetching", read |-> file.observations]]
  /\ UNCHANGED <<log, now, file>>

IsClosed(i) == MarketAt[log[i].time] = "CLOSED"

\* What a call appends: the closed-market updates it has not seen, in order.
Fresh(seen, h) ==
  Sorted({i \in FetchObservations(log, h, now - HoursBack, now) :
            i \notin Range(seen) /\ IsClosed(i)})

Appended(seen, h) == seen \o Fresh(seen, h)
SortedWhole(seen, h) == Sorted(Range(Fresh(seen, h)) \cup Range(seen))
\* The log a call writes.
Recorded(seen, h) == Appended(seen, h)

RootOf(observations) == RootOfLeaves(LeavesOf(observations))

Save(observations) ==
  file' = [observations |-> observations, root |-> RootOf(observations)]

\* record() from its await on: append, compute the root, write the file.
Record(r) ==
  /\ run[r].at = "fetching"
  /\ \E h \in Heads : Save(Recorded(run[r].read, h))
  /\ run' = [run EXCEPT ![r].at = "done"]
  /\ UNCHANGED <<log, now>>

\* The call throws, or its process dies, before it has written.
Fails(r) ==
  /\ run[r].at = "fetching"
  /\ run' = [run EXCEPT ![r].at = "done"]
  /\ UNCHANGED <<log, now, file>>

RecorderNext ==
  \/ Update \/ Tick
  \/ \E r \in Runs : Load(r) \/ Record(r) \/ Fails(r)

-----------------------------------------------------------------------------
\* `recorder.mjs prove`: the root proves everything the log holds, at its place, and
\* nothing else by any proof the log can give.
RootProvesTheLog ==
  LET recorded == file.observations
      leaves   == LeavesOf(recorded)
  IN \A i \in 1..Len(recorded), o \in 1..Len(log) :
       VerifyInclusion(file.root, LeafHash(o), ProofForLeaves(leaves, i - 1))
         <=> o = recorded[i]

\* The log is append-only (header of recorder.mjs): what it held stays, in its place,
\* unless two calls overlapped and the later one writes what it had read before.
LogOnlyGrows ==
  [][\/ IsPrefix(file.observations, file.observations')
     \/ \E r \in Runs : /\ run[r].at = "fetching" /\ run'[r].at = "done"
                        /\ run[r].read # file.observations
                        /\ IsPrefix(run[r].read, file'.observations)]_file
=============================================================================
