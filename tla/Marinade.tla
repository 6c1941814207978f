------------------------------ MODULE Marinade ------------------------------
(***************************************************************************)
(* redde/verify-marinade.mjs check(): six reads and a verdict, while the   *)
(* chain moves on and replicas lag.  Only the stakes, the tickets and the  *)
(* last read are pinned, and to the slot of the snapshot.                  *)
(***************************************************************************)
EXTENDS MarinadePool, Sequences

CONSTANTS
  Genesis,     \* the states Marinade may be in when the check begins
  MaxSlots,    \* bound on the slots
  MaxLag,      \* how many slots a replica may be behind
  MaxErrors,   \* bound on the calls that fail for good
  NoResult

ASSUME CheckAssumption ==
  Genesis \subseteq Pools /\ {MaxSlots, MaxLag, MaxErrors} \subseteq Nat

VARIABLES
  chain,    \* Marinade at every slot so far
  pc,       \* the read check() is about to make, "done" or "exited"
  first,    \* the state account as first read
  current,  \* currentEpoch (-1 before)
  snap, stakes, scan, reread,  \* the slots the other reads were answered at (0 before)
  result,   \* what check() returns
  errors    \* calls that failed

reads == <<first, current, snap, stakes, scan, reread>>
checkVars == <<chain, pc, reads, result, errors>>

CheckInit ==
  /\ \E p \in Genesis : chain = <<p>>
  /\ pc = "state" /\ first = NoResult /\ current = -1
  /\ snap = 0 /\ stakes = 0 /\ scan = 0 /\ reread = 0
  /\ result = NoResult /\ errors = 0

Answered(least) == {s \in 1 .. Len(chain) : s >= Len(chain) - MaxLag /\ s >= least}

-----------------------------------------------------------------------------
Inv1(p) == p.mint <= p.state.supply
Liability(p) == Lamports(p.state, p.mint)
StaleRecords(p) == IF p.stamp = current THEN 0 ELSE 1

StakeSum(q) == IF q.usable THEN q.stake ELSE 0
\* reserveNet + stakeSum - tickets, each from its own read.
NetBacking(p, q, t) == p.reserve - RentExempt + StakeSum(q) - t.open
GrossBacking(p, q, t) == p.reserve - RentExempt + StakeSum(q)
BackingOf(p, q, t) == NetBacking(p, q, t)

\* The ticket scan reconciles with the header.
Reconciled(p, t) == t.open = p.state.tickets

\* The mutation guard: state, mint, reserve and list as they were.
Unmutated(r, p) ==
  r.state = p.state /\ r.mint = p.mint /\ r.reserve = p.reserve /\ r.stamp = p.stamp

\* stale(): a verdict and no figures.
Stale == [verdict |-> "STALE", full |-> FALSE]

VerdictOf(p, inv2b) ==
  CASE ~Inv1(p) \/ inv2b = "fails" -> "RED"
    [] Inv1(p) /\ inv2b = "holds" /\ StaleRecords(p) = 0 -> "GREEN"
    [] OTHER -> "STALE"

\* The report: `inv2b` is "unknown" where no answer was found, as after an error.
Report(p, inv2b) ==
  [verdict |-> VerdictOf(p, inv2b), full |-> TRUE, inv2b |-> inv2b,
   virtualValue |-> VirtualValue(p.state), liability |-> Liability(p),
   staleRecords |-> StaleRecords(p), mintSupply |-> p.mint, msolSupply |-> p.state.supply]

Render(report) == pc' = "done" /\ result' = report
Proceed(next) == pc' = next /\ UNCHANGED result

-----------------------------------------------------------------------------
\* (1) authenticate the state.
ReadState ==
  /\ pc = "state"
  /\ \E s \in Answered(1) : first' = chain[s].state
  /\ Proceed("epoch")
  /\ UNCHANGED <<chain, current, snap, stakes, scan, reread, errors>>

ReadEpoch ==
  /\ pc = "epoch"
  /\ \E s \in Answered(1) : current' = chain[s].epoch
  /\ Proceed("snap")
  /\ UNCHANGED <<chain, first, snap, stakes, scan, reread, errors>>

\* (2) one snapshot, of the state everything was derived from.
ReadSnap ==
  /\ pc = "snap"
  /\ snap' \in Answered(1)
  /\ \/ chain[snap'].state = first /\ Proceed("stakes")
     \/ chain[snap'].state # first /\ Render(Stale)
  /\ UNCHANGED <<chain, first, current, stakes, scan, reread, errors>>

\* (3) the listed stake accounts.
ReadStakes ==
  /\ pc = "stakes"
  /\ stakes' \in Answered(snap)
  /\ Proceed("scan")
  /\ UNCHANGED <<chain, first, current, snap, scan, reread, errors>>

\* The open tickets.
ReadTickets ==
  /\ pc = "scan"
  /\ scan' \in Answered(snap)
  /\ \/ Reconciled(chain[snap], chain[scan']) /\ Proceed("reread")
     \/ ~Reconciled(chain[snap], chain[scan']) /\ Render(Stale)
  /\ UNCHANGED <<chain, first, current, snap, stakes, reread, errors>>

\* (4) the mutation guard, pinned to the snapshot, not to the reads since.
ReadAgain ==
  LET p == chain[snap]
  IN /\ pc = "reread"
     /\ reread' \in Answered(snap)
     /\ \/ ~Unmutated(chain[reread'], p) /\ Render(Stale)
        \/ /\ Unmutated(chain[reread'], p)
           /\ Render(Report(p, IF BackingOf(p, chain[stakes], chain[scan]) >= Liability(p)
                               THEN "holds" ELSE "fails"))
     /\ UNCHANGED <<chain, first, current, snap, stakes, scan, errors>>

\* A call fails for good: nothing to report before the snapshot, M-INV-1 alone after it.
ReadFails ==
  /\ errors < MaxErrors /\ errors' = errors + 1
  /\ \/ pc \in {"state", "epoch", "snap"} /\ Render(Stale)
     \/ pc \in {"stakes", "scan", "reread"} /\ Render(Report(chain[snap], "unknown"))
  /\ UNCHANGED <<chain, reads>>

NextSlot ==
  /\ Len(chain) < MaxSlots /\ pc \notin {"done", "exited"}
  /\ \E p \in Successors(chain[Len(chain)]) : chain' = Append(chain, p)
  /\ UNCHANGED <<pc, reads, result, errors>>

\* The process ends; its report is marinade-result.json.  The chain is not looked at
\* again, and its past is dropped.
Exit ==
  /\ pc = "done" /\ pc' = "exited"
  /\ chain' = <<chain[1]>> /\ first' = NoResult
  /\ snap' = 0 /\ stakes' = 0 /\ scan' = 0 /\ reread' = 0
  /\ UNCHANGED <<current, result, errors>>

CheckNext ==
  \/ ReadState \/ ReadEpoch \/ ReadSnap \/ ReadStakes \/ ReadTickets \/ ReadAgain
  \/ ReadFails \/ NextSlot \/ Exit

-----------------------------------------------------------------------------
\* The guard vouches for the reads between the snapshot and itself, if nothing it
\* compares changed and changed back; its replica may be behind the one that answered
\* the reads before it, and then it vouches for less.
GuardCovers ==
  /\ reread >= stakes /\ reread >= scan
  /\ \A s \in snap .. reread : Unmutated(chain[s], chain[snap])

\* A verdict is earned: GREEN says that at some slot of the window no mSOL was minted in
\* excess and what Marinade controls covered what it owed, RED that at some slot this
\* was not so - whatever was deposited, unstaked, delegated, cooled down or claimed
\* between the six reads.
VerdictIsEarned ==
  pc = "done" /\ (reread # 0 => GuardCovers) =>
    /\ result.verdict = "GREEN" => \E s \in snap .. reread : Sound(chain[s])
    /\ result.verdict = "RED" => \E s \in snap .. Len(chain) : ~Sound(chain[s])
=============================================================================
