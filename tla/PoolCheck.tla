------------------------------ MODULE PoolCheck ------------------------------
(***************************************************************************)
(* redde/verify.mjs check() and redde/scan.mjs run(): five RPC reads of a  *)
(* stake pool, and a verdict.  The chain keeps moving between the reads,   *)
(* and each read may be answered by a replica that lags.                   *)
(***************************************************************************)
EXTENDS StakePool, Sequences

CONSTANTS
  Genesis,     \* the states the pool may be in when the check begins
  MaxSlots,    \* bound on the slots
  MaxLag,      \* how many slots a replica may be behind
  MaxErrors    \* bound on the RPC calls that fail for good

ASSUME CheckAssumption ==
  MaxSlots \in Nat \ {0} /\ {MaxLag, MaxErrors} \subseteq Nat

\* No record is newer than the header, and what is recorded as none is none.
ASSUME GenesisAssumption ==
  /\ Genesis \subseteq Pools
  /\ \A p \in Genesis :
       /\ p.list.stamp <= p.updated
       /\ p.list.active = 0 /\ p.usable => p.stake.active = 0
       /\ p.list.transient = 0 => p.stake.transient = 0

VARIABLES
  scanning,  \* is check() called by scan.mjs, with the epoch read at the start?
  chain,     \* the pool at every slot so far
  pc,        \* the read check() is about to make, or "done"
  first,     \* poolEpoch: the header's epoch in the first read (-1 before)
  current,   \* currentEpoch (-1 before)
  snap, scan, reread,  \* the slots the last three reads were answered at (0 before)
  verdict,   \* "none", GREEN, RED, STALE
  obstacle,  \* was the obstacle an RPC failure?
  attempts,  \* calls of check() by run()
  errors     \* RPC failures so far

reads == <<first, current, snap, scan, reread>>
vars == <<scanning, chain, pc, reads, verdict, obstacle, attempts, errors>>

\* A pool that is stale by epoch never reaches check() in a scan.
Init ==
  /\ scanning \in BOOLEAN
  /\ \E p \in Genesis : chain = <<p>> /\ (scanning => p.updated >= p.epoch)
  /\ pc = "first"
  /\ first = -1
  /\ current = IF scanning THEN chain[1].epoch ELSE -1
  /\ snap = 0 /\ scan = 0 /\ reread = 0
  /\ verdict = "none" /\ obstacle = FALSE
  /\ attempts = 1 /\ errors = 0

\* minContextSlot left out of the call.
AnsweredAnywhere(least) == {s \in 1 .. Len(chain) : s >= Len(chain) - MaxLag}

\* The slots a read pinned with minContextSlot = least may be answered at (rpcWait
\* tries again while the replica is behind it).
Answered(least) == {s \in 1 .. Len(chain) : s >= Len(chain) - MaxLag /\ s >= least}

-----------------------------------------------------------------------------
(* What the check computes from the pool it has read. *)

Inv1(p) == p.mint <= p.supply

\* requiredBacking: the claim, or the liability of the shares minted if that is more.
Required(p) ==
  LET liability == IF p.supply = 0 THEN p.total
                   ELSE (p.mint * p.total + p.supply - 1) \div p.supply
  IN IF liability < p.total THEN p.total ELSE liability

Inv2a(p) == p.reserve + p.list.active + p.list.transient >= p.total

\* Every account under the authority, canonical or not.
AllUnderAuthority(q, p) ==
  q.reserve - Rent + q.stake.active + q.stake.transient + q.parked

\* The usable canonical accounts at the scan, of the records in the snapshot p.
Redeemable(q, p) ==
  q.reserve - Rent
    + (IF p.list.active > 0 /\ q.usable THEN q.stake.active ELSE 0)
    + (IF p.list.transient > 0 THEN q.stake.transient ELSE 0)

Inv2b(q, p) == Redeemable(q, p) >= Required(p)

\* The mutation guard without the list.
UnchangedHeader(r, p) ==
  r.total = p.total /\ r.supply = p.supply /\ r.updated = first

\* The mutation guard.
Unmutated(r, p) ==
  /\ r.list = p.list /\ r.total = p.total /\ r.supply = p.supply
  /\ r.updated = first

-----------------------------------------------------------------------------
Render(v, rpc) == pc' = "done" /\ verdict' = v /\ obstacle' = rpc
Proceed(next) == pc' = next /\ UNCHANGED <<verdict, obstacle>>

\* (1) authenticate.
ReadFirst ==
  /\ pc = "first"
  /\ \E s \in Answered(1) : first' = chain[s].updated
  /\ Proceed("epoch")
  /\ UNCHANGED <<scanning, chain, current, snap, scan, reread, attempts, errors>>

\* (2) the freshness gate; the epoch is the caller's or read now.
ReadEpoch ==
  /\ pc = "epoch"
  /\ IF scanning THEN UNCHANGED current
     ELSE \E s \in Answered(1) : current' = chain[s].epoch
  /\ \/ first < current' /\ Render("STALE", FALSE)
     \/ first >= current' /\ Proceed("snap")
  /\ UNCHANGED <<scanning, chain, first, snap, scan, reread, attempts, errors>>

\* (3) one snapshot of pool, mint, reserve and list.
ReadSnap ==
  /\ pc = "snap"
  /\ snap' \in Answered(1)
  /\ Proceed("scan")
  /\ UNCHANGED <<scanning, chain, first, current, scan, reread, attempts, errors>>

\* getProgramAccounts, not before the snapshot.
ReadScan ==
  /\ pc = "scan"
  /\ scan' \in Answered(snap)
  /\ Proceed("reread")
  /\ UNCHANGED <<scanning, chain, first, current, snap, reread, attempts, errors>>

\* (4) the re-read, not before the scan, and the verdict.
ReadAgain ==
  LET p == chain[snap]
  IN /\ pc = "reread"
     /\ reread' \in Answered(scan)
     /\ \/ ~Unmutated(chain[reread'], p) /\ Render("STALE", FALSE)
        \/ /\ Unmutated(chain[reread'], p)
           /\ \/ /\ ~Inv1(p) \/ ~Inv2a(p) \/ ~Inv2b(chain[scan], p)
                 /\ Render("RED", FALSE)
              \/ /\ Inv1(p) /\ Inv2a(p) /\ Inv2b(chain[scan], p)
                 /\ Render("GREEN", FALSE)
     /\ UNCHANGED <<scanning, chain, first, current, snap, scan, attempts, errors>>

\* A read fails for good.  The scan and the re-read are inside the try: INV-1 and
\* INV-2a still decide.  A scan's epoch is not read again.
ReadFails ==
  /\ errors < MaxErrors /\ errors' = errors + 1
  /\ \/ /\ pc \in {"first", "snap"} \/ (pc = "epoch" /\ ~scanning)
        /\ Render("STALE", pc # "epoch")
     \/ /\ pc \in {"scan", "reread"}
        /\ \/ /\ Inv1(chain[snap]) /\ Inv2a(chain[snap])
              /\ Render("STALE", TRUE)
           \/ /\ ~(Inv1(chain[snap]) /\ Inv2a(chain[snap]))
              /\ Render("RED", FALSE)
  /\ UNCHANGED <<scanning, chain, reads, attempts>>

\* The first note of the report speaks of the failure: a supply drift is noted
\* before it.
FailureNotedFirst == IF snap = 0 THEN TRUE ELSE chain[snap].mint = chain[snap].supply

\* run() calls check() a second time.
Retry ==
  /\ scanning /\ pc = "done" /\ attempts < 2
  /\ verdict = "STALE" /\ obstacle /\ FailureNotedFirst
  /\ attempts' = attempts + 1
  /\ pc' = "first" /\ verdict' = "none" /\ obstacle' = FALSE
  /\ first' = -1 /\ snap' = 0 /\ scan' = 0 /\ reread' = 0
  /\ UNCHANGED <<scanning, chain, current, errors>>

\* The chain moves on.
NextSlot ==
  /\ Len(chain) < MaxSlots /\ pc # "done"
  /\ \E p \in Successors(chain[Len(chain)]) : chain' = Append(chain, p)
  /\ UNCHANGED <<scanning, pc, reads, verdict, obstacle, attempts, errors>>

Next ==
  \/ ReadFirst \/ ReadEpoch \/ ReadSnap \/ ReadScan \/ ReadAgain \/ ReadFails
  \/ Retry \/ NextSlot

Spec == Init /\ [][Next]_vars

-----------------------------------------------------------------------------
TypeOK ==
  /\ scanning \in BOOLEAN
  /\ chain \in Seq(Pools) /\ Len(chain) \in 1..MaxSlots
  /\ pc \in {"first", "epoch", "snap", "scan", "reread", "done"}
  /\ first \in Nat \cup {-1} /\ current \in Nat \cup {-1}
  /\ {snap, scan, reread} \subseteq 0 .. Len(chain)
  /\ snap # 0 /\ scan # 0 => snap <= scan
  /\ scan # 0 /\ reread # 0 => scan <= reread
  /\ verdict \in {"none", "GREEN", "RED", "STALE"}
  /\ obstacle \in BOOLEAN
  /\ attempts \in 1..2 /\ errors \in 0..MaxErrors

\* The slots the verdict rests on.
Window == snap .. (IF reread # 0 THEN reread ELSE snap)

\* What the guard compares.
Claim(p) == <<p.list, p.total, p.supply, p.updated>>

\* The claim changed inside the window and was back at its end.
ClaimReturned ==
  /\ reread # 0 /\ Claim(chain[snap]) = Claim(chain[reread])
  /\ \E s \in Window : Claim(chain[s]) # Claim(chain[snap])

\* GREEN is earned: at some slot of the window the pool really was sound, whatever
\* was deposited, withdrawn, delegated, donated, parked or updated between the
\* reads; only a claim that changed and came back can deceive the check.
GreenIsEarned ==
  verdict = "GREEN" /\ ~ClaimReturned => \E s \in Window : Sound(chain[s])

\* No false alarm: RED means that at some slot of the window the chain's state
\* contradicted the claim.
RedIsEarned ==
  verdict = "RED" /\ ~ClaimReturned
    => \E s \in Window : ~Sound(chain[s]) \/ SelfContradictory(chain[s])
=============================================================================
