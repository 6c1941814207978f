---------------------------- MODULE SoundnessLog ----------------------------
(***************************************************************************)
(* The weekly record: run-weekend.sh re-emits the tracked claims and runs  *)
(* readout.mjs, which re-executes them, freezes them in the archive,       *)
(* appends the week's entry, anchors its money-shot on chain and           *)
(* regenerates the board.  The steps are those between two files, so that  *)
(* a claim may be emitted, and the process die, between any two of them.   *)
(*                                                                         *)
(* A claim file is an emission: claim_id, the address of the body, with    *)
(* the flag re-execution finds in that body; its emitted_ts, outside the   *)
(* body, makes each emission's bytes its own.  One readout runs at a time, *)
(* and never with --force.                                                 *)
(***************************************************************************)
EXTENDS Integers, Sequences, FiniteSetsExt

CONSTANTS
  Tracked,    \* TRACKED: the claim files, in order
  Flags,      \* what re-executing a claim gives; "broken" if it does not reproduce
  MaxWeek,    \* bound on the weeks
  MaxClaims,  \* bound on the emissions
  MaxRuns,    \* bound on the readouts started
  None

Files == 1 .. Len(Tracked)

ASSUME TrackedAssumption == Tracked \in Seq(STRING)
ASSUME FlagsAssumption == Flags \subseteq STRING
ASSUME LogBoundsAssumption ==
  MaxWeek \in Nat \ {0} /\ MaxClaims \in Nat /\ Len(Tracked) <= MaxClaims /\ MaxRuns \in Nat

VARIABLES
  week,      \* the ISO week of the calendar
  issued,    \* the emissions so far, in order
  claims,    \* claims/*.json: the emission each tracked file holds
  archive,   \* soundness-log/claims: the emissions frozen there
  entries,   \* soundness-log/<week>.json, or None
  board,     \* the entries README.md shows
  memos,     \* the memos on chain
  pc,        \* what readout.mjs is about to do, or "idle"
  mine,      \* its week
  rows,      \* rows, as far as assembled: claim_ids
  frozen,    \* how many of them are archived
  entry,     \* entry, or None
  runs       \* readouts started

files == <<claims, archive, entries, board>>
memory == <<pc, mine, rows, frozen, entry>>
vars == <<week, issued, files, memos, memory, runs>>

Weeks == 1..MaxWeek
Ids == 1..MaxClaims

Emission == [id : Ids, flag : Flags]

FlagOf(id) == (CHOOSE e \in Range(issued) : e.id = id).flag

RowsWith(ids, flag) == {i \in 1 .. Len(ids) : FlagOf(ids[i]) = flag}

\* The guard that both sides are there left out.
MoneyShotUnguarded(ids) ==
  LET first(flag) == IF RowsWith(ids, flag) = {} THEN 0 ELSE ids[Min(RowsWith(ids, flag))]
  IN [red |-> first("RED"), green |-> first("GREEN")]

\* The money-shot of some rows, or None: the first RED and the first GREEN.
MoneyShot(ids) ==
  IF RowsWith(ids, "RED") = {} \/ RowsWith(ids, "GREEN") = {} THEN None
  ELSE [red |-> ids[Min(RowsWith(ids, "RED"))], green |-> ids[Min(RowsWith(ids, "GREEN"))]]

Memo == [week : Weeks, red : Ids, green : Ids]

\* The memo is labelled with the week it is sent in.
MemoOfToday(shot) == [week |-> week, red |-> shot.red, green |-> shot.green]
\* weeklyMemo.
WeeklyMemo(shot) == [week |-> mine, red |-> shot.red, green |-> shot.green]

Entry == [rows : Seq(Ids), anchor : Memo \cup {None}]

ASSUME NoneAssumption == None \notin Memo \cup Entry

\* Each tracked file holds the claim of an earlier week.
Init ==
  /\ week = 1
  /\ \E flags \in [Files -> Flags] :
       issued = [f \in Files |-> [id |-> f, flag |-> flags[f]]]
  /\ claims = [f \in Files |-> f]
  /\ archive = {}
  /\ entries = [w \in Weeks |-> None] /\ board = [w \in Weeks |-> None]
  /\ memos = {}
  /\ pc = "idle" /\ mine = 1 /\ rows = <<>> /\ frozen = 0 /\ entry = None
  /\ runs = 0

-----------------------------------------------------------------------------
NextWeek ==
  /\ week < MaxWeek /\ week' = week + 1
  /\ UNCHANGED <<issued, files, memos, memory, runs>>

\* claim.mjs or emit-kamino.mjs overwrites a tracked file, in the weekly script or by
\* hand at any time: with a new claim, or with the same one when nothing moved on chain.
Emit ==
  /\ Len(issued) < MaxClaims
  /\ \E f \in Files :
       /\ \/ \E flag \in Flags :
               issued' = Append(issued, [id |-> Len(issued) + 1, flag |-> flag])
          \/ issued' = Append(issued, issued[claims[f]])
       /\ claims' = [claims EXCEPT ![f] = Len(issued) + 1]
  /\ UNCHANGED <<week, archive, entries, board, memos, memory, runs>>

Start ==
  /\ pc = "idle" /\ runs < MaxRuns
  /\ runs' = runs + 1
  /\ pc' = "assemble" /\ mine' = week
  /\ rows' = <<>> /\ frozen' = 0 /\ entry' = None
  /\ UNCHANGED <<week, issued, files, memos>>

\* assembleRows reads the next tracked file.
Assemble ==
  /\ pc = "assemble"
  /\ \/ /\ Len(rows) < Len(Tracked)
        /\ rows' = Append(rows, issued[claims[Len(rows) + 1]].id)
        /\ UNCHANGED pc
     \/ /\ Len(rows) = Len(Tracked)
        /\ pc' = "archive"
        /\ UNCHANGED rows
  /\ UNCHANGED <<week, issued, files, memos, mine, frozen, entry, runs>>

\* The file is read again without looking at its address.
SameClaimUnchecked(f) == TRUE
\* The bytes about to be frozen hash to the address the row names.
SameClaim(f) == issued[claims[f]].id = rows[f]

ArchivedAs(id) == {b \in archive : issued[b].id = id}

\* Nothing else is archived at that address.
NoCollision(f) == ArchivedAs(rows[f]) \subseteq {claims[f]}

\* archiveClaims, a row at a time; "archive refused" and "archive collision" end
\* the run.
Archive ==
  /\ pc = "archive"
  /\ \/ /\ frozen < Len(rows)
        /\ SameClaim(frozen + 1) /\ NoCollision(frozen + 1)
        /\ archive' = archive \cup {claims[frozen + 1]}
        /\ frozen' = frozen + 1
        /\ UNCHANGED pc
     \/ /\ frozen < Len(rows)
        /\ ~(SameClaim(frozen + 1) /\ NoCollision(frozen + 1))
        /\ pc' = "idle"
        /\ UNCHANGED <<archive, frozen>>
     \/ /\ frozen = Len(rows)
        /\ pc' = "record"
        /\ UNCHANGED <<archive, frozen>>
  /\ UNCHANGED <<week, issued, claims, entries, board, memos, mine, rows, entry, runs>>

\* Is a fresh entry written?
WritesAlways == TRUE
Writes == entries[mine] = None

\* The week's entry is written, or the one that is there is kept.
Record ==
  /\ pc = "record"
  /\ \/ /\ Writes
        /\ entry' = [rows |-> rows, anchor |-> None]
        /\ entries' = [entries EXCEPT ![mine] = entry']
     \/ /\ ~Writes
        /\ entry' = entries[mine]
        /\ UNCHANGED entries
  /\ pc' = "anchor"
  /\ UNCHANGED <<week, issued, claims, archive, board, memos, mine, rows, frozen, runs>>

\* --send with an anchor already there counts for nothing.
MayAnchorAgain == TRUE
MayAnchor == entry.anchor = None

\* The memo of the money-shot just assembled is sent; it may land and the call fail
\* all the same.
Send ==
  /\ pc = "anchor"
  /\ MoneyShot(rows) # None /\ MayAnchor
  /\ LET memo == WeeklyMemo(MoneyShot(rows))
     IN \/ /\ memos' = memos \cup {memo}
           /\ \/ pc' = "save" /\ entry' = [entry EXCEPT !.anchor = memo]
              \/ pc' = "idle" /\ UNCHANGED entry
        \/ pc' = "idle" /\ UNCHANGED <<memos, entry>>
  /\ UNCHANGED <<week, issued, files, mine, rows, frozen, runs>>

\* The entry is written again, with its anchor.
Save ==
  /\ pc = "save"
  /\ entries' = [entries EXCEPT ![mine] = entry]
  /\ pc' = "board"
  /\ UNCHANGED <<week, issued, claims, archive, board, memos, mine, rows, frozen, entry, runs>>

\* No money-shot, a dry run, or an anchor that is there already.
NoSend ==
  /\ pc = "anchor"
  /\ pc' = "board"
  /\ UNCHANGED <<week, issued, files, memos, mine, rows, frozen, entry, runs>>

\* regenerateBoard.
Regenerate ==
  /\ pc = "board"
  /\ board' = entries
  /\ pc' = "idle"
  /\ UNCHANGED <<week, issued, claims, archive, entries, memos, mine, rows, frozen, entry, runs>>

Crash ==
  /\ pc # "idle" /\ pc' = "idle"
  /\ UNCHANGED <<week, issued, files, memos, mine, rows, frozen, entry, runs>>

Next ==
  \/ NextWeek \/ Emit \/ Start \/ Assemble \/ Archive \/ Record \/ Send \/ Save
  \/ NoSend \/ Regenerate \/ Crash

Spec == Init /\ [][Next]_vars

-----------------------------------------------------------------------------
TypeOK ==
  /\ week \in Weeks
  /\ issued \in Seq(Emission) /\ Len(issued) <= MaxClaims
  /\ claims \in [Files -> 1 .. Len(issued)]
  /\ archive \subseteq 1 .. Len(issued)
  /\ {entries, board} \subseteq [Weeks -> Entry \cup {None}]
  /\ memos \subseteq Memo
  /\ pc \in {"idle", "assemble", "archive", "record", "anchor", "save", "board"}
  /\ mine \in Weeks
  /\ rows \in Seq(Ids) /\ Len(rows) <= Len(Tracked)
  /\ frozen \in 0 .. Len(rows)
  /\ entry \in Entry \cup {None}
  /\ runs \in 0..MaxRuns

RowsOf(w) == {entries[w].rows[i] : i \in 1 .. Len(entries[w].rows)}

\* "Every claim a week cites is frozen at soundness-log/claims/<claim_id>.json", and
\* "nothing is ever overwritten": whatever was emitted over the tracked files
\* meanwhile and wherever a readout died.
EvidenceIsFrozen ==
  \A w \in Weeks : entries[w] # None =>
    \A id \in RowsOf(w) : \E b \in archive : ArchivedAs(id) = {b}

\* The log is append-only: a week's rows never change, and neither does its anchor
\* once there is one.
AppendOnly ==
  [][\A w \in Weeks : entries[w] # None =>
       /\ entries'[w] # None /\ entries'[w].rows = entries[w].rows
       /\ entries[w].anchor # None => entries'[w].anchor = entries[w].anchor]_vars

\* The board is behind the log at most: a week it shows is a week of the log, with
\* its rows and either its anchor or none.
BoardShowsLog ==
  \A w \in Weeks : board[w] # None =>
    /\ entries[w] # None /\ board[w].rows = entries[w].rows
    /\ board[w].anchor \in {None, entries[w].anchor}

\* An anchor the log records was witnessed on chain, under its own week.
AnchorIsOnChain ==
  \A w \in Weeks : entries[w] # None /\ entries[w].anchor # None =>
    entries[w].anchor \in memos /\ entries[w].anchor.week = w

=============================================================================
