------------------------- MODULE SoundnessLogProofs -------------------------
(***************************************************************************)
(* Theorems about the weekly record, for any tracked files and any number  *)
(* of weeks, emissions and readouts.  The inductive invariant ties what a  *)
(* readout holds in memory to the files: the rows it has frozen are        *)
(* archived, the entry it holds is the week's, and an anchor it has not    *)
(* saved yet is on chain while the file has none.                          *)
(***************************************************************************)
EXTENDS SoundnessLog, Sums, SequenceTheorems

Frozen(id) == \E b \in archive : ArchivedAs(id) = {b}

\* The rows archived so far, and all of them before anything is recorded.
Taken == {rows[i] : i \in 1..frozen}
RowsFrozen ==
  /\ \A id \in Taken : Frozen(id)
  /\ pc \in {"record", "anchor", "save", "board"} => frozen = Len(rows)

\* entry is the week's, but for an anchor that is on chain and not saved.
EntryInMemory ==
  /\ pc \in {"anchor", "save"} =>
       entry # None /\ entries[mine] # None /\ entry.rows = entries[mine].rows
  /\ pc = "anchor" => entry.anchor = entries[mine].anchor
  /\ pc = "save" => /\ entries[mine].anchor = None
                    /\ entry.anchor \in memos /\ entry.anchor.week = mine

IInv ==
  /\ TypeOK /\ RowsFrozen /\ EntryInMemory
  /\ EvidenceIsFrozen /\ BoardShowsLog /\ AnchorIsOnChain

-----------------------------------------------------------------------------
(* Types. *)

\* A money-shot cites claims of the rows it is made from.
LEMMA MoneyShotType ==
  ASSUME NEW ids \in Seq(Ids), MoneyShot(ids) # None
  PROVE  MoneyShot(ids).red \in Ids /\ MoneyShot(ids).green \in Ids
<1>1. ASSUME NEW flag, RowsWith(ids, flag) # {}
      PROVE  ids[Min(RowsWith(ids, flag))] \in Ids
  <2>1. RowsWith(ids, flag) \subseteq 1 .. Len(ids) /\ Len(ids) \in Nat
    BY DEF RowsWith
  <2>2. \E x \in RowsWith(ids, flag) : \A y \in RowsWith(ids, flag) : x <= y
    BY <1>1, <2>1, SmallestNat
  <2>3. Min(RowsWith(ids, flag)) \in RowsWith(ids, flag)
    BY <2>2, Zenon DEF Min
  <2> QED
    BY <2>1, <2>3
<1> QED
  BY <1>1 DEF MoneyShot

\* The memo of a week is text put together from the week and its money-shot.
LEMMA MemoType ==
  ASSUME NEW ids \in Seq(Ids), MoneyShot(ids) # None, mine \in Weeks
  PROVE  WeeklyMemo(MoneyShot(ids)) \in Memo /\ WeeklyMemo(MoneyShot(ids)).week = mine
  BY MoneyShotType DEF WeeklyMemo, Memo

\* Nothing is emitted, archived, logged or sent at first.
LEMMA InitTypeOK == Init => TypeOK
<1> SUFFICES ASSUME Init PROVE TypeOK
  OBVIOUS
<1> USE LogBoundsAssumption
<1>1. Len(Tracked) \in Nat
  BY TrackedAssumption
<1>2. PICK flags \in [Files -> Flags] :
        issued = [f \in Files |-> [id |-> f, flag |-> flags[f]]]
  BY DEF Init
<1>3. issued \in [1 .. Len(Tracked) -> Emission]
  BY <1>1, <1>2 DEF Files, Emission, Ids
<1>4. issued \in Seq(Emission)
  BY <1>1, <1>3, SeqDef
<1>5. Len(issued) = Len(Tracked)
  BY <1>1, <1>3, <1>4, LenProperties
<1>6. claims \in [Files -> 1 .. Len(issued)]
  BY <1>5 DEF Init, Files
<1>7. /\ week \in Weeks /\ mine \in Weeks
      /\ rows \in Seq(Ids) /\ Len(rows) = 0
      /\ {entries, board} \subseteq [Weeks -> Entry \cup {None}]
  BY DEF Init, Weeks
<1> QED
  BY <1>1, <1>4, <1>5, <1>6, <1>7 DEF Init, TypeOK

\* Emitting a claim adds bytes and touches nothing frozen.
LEMMA EmitTypeOK == TypeOK /\ Emit => TypeOK'
<1> SUFFICES ASSUME TypeOK, Emit PROVE TypeOK'
  OBVIOUS
<1> USE LogBoundsAssumption
<1>1. PICK f \in Files, e \in Emission :
        issued' = Append(issued, e) /\ claims' = [claims EXCEPT ![f] = Len(issued) + 1]
  <2>1. PICK f \in Files :
          /\ \/ \E flag \in Flags :
                  issued' = Append(issued, [id |-> Len(issued) + 1, flag |-> flag])
             \/ issued' = Append(issued, issued[claims[f]])
          /\ claims' = [claims EXCEPT ![f] = Len(issued) + 1]
    BY DEF Emit
  <2>2. issued[claims[f]] \in Emission
    BY DEF TypeOK
  <2>3. \A flag \in Flags : [id |-> Len(issued) + 1, flag |-> flag] \in Emission
    BY DEF TypeOK, Emit, Emission, Ids
  <2> QED
    BY <2>1, <2>2, <2>3
<1>2. /\ issued' \in Seq(Emission) /\ Len(issued') = Len(issued) + 1
      /\ Len(issued') <= MaxClaims
  BY <1>1 DEF TypeOK, Emit
<1>3. claims' \in [Files -> 1 .. Len(issued')]
  BY <1>1, <1>2 DEF TypeOK
<1> QED
  BY <1>2, <1>3 DEF TypeOK, Emit, memory

\* A readout that sends holds an entry: without that, no type for what it holds next.
LEMMA NextTypeOK == TypeOK /\ EntryInMemory /\ [Next]_vars => TypeOK'
<1> SUFFICES ASSUME TypeOK, EntryInMemory, [Next]_vars PROVE TypeOK'
  OBVIOUS
<1> USE LogBoundsAssumption
<1>1. CASE UNCHANGED vars
  BY <1>1 DEF TypeOK, vars, files, memory
<1>2. CASE NextWeek
  BY <1>2 DEF TypeOK, NextWeek, Weeks, files, memory
<1>3. CASE Emit
  BY <1>3, EmitTypeOK
<1>4. CASE Start
  BY <1>4 DEF TypeOK, Start, Entry, files
<1>5. CASE Assemble
  <2>1. CASE Len(rows) < Len(Tracked)
    <3> DEFINE e == issued[claims[Len(rows) + 1]]
    <3>1. Len(rows) + 1 \in Files /\ Len(rows) \in Nat
      BY <2>1, TrackedAssumption DEF TypeOK, Files
    <3>2. e \in Emission
      BY <3>1 DEF TypeOK
    <3>3. e.id \in Ids
      BY <3>2 DEF Emission
    <3>4. rows' = Append(rows, e.id) /\ pc' = pc
      BY <1>5, <2>1 DEF Assemble
    <3> HIDE DEF e
    <3>5. /\ rows' \in Seq(Ids) /\ Len(rows') = Len(rows) + 1
          /\ Len(rows') <= Len(Tracked) /\ frozen \in 0 .. Len(rows')
      BY <2>1, <3>1, <3>3, <3>4, TrackedAssumption DEF TypeOK
    <3> QED
      BY <1>5, <3>4, <3>5 DEF TypeOK, Assemble, files
  <2>2. CASE Len(rows) = Len(Tracked)
    BY <1>5, <2>2, TrackedAssumption DEF TypeOK, Assemble, files
  <2> QED
    BY <1>5, <2>1, <2>2 DEF Assemble
<1>6. CASE Archive
  <2>1. frozen < Len(rows) => claims[frozen + 1] \in 1 .. Len(issued)
    BY TrackedAssumption DEF TypeOK, Files
  <2>2. frozen \in 0 .. Len(rows) /\ Len(rows) \in Nat
    BY DEF TypeOK
  <2>3. frozen' \in 0 .. Len(rows)
    BY <1>6, <2>2 DEF Archive
  <2>4. archive' \subseteq 1 .. Len(issued)
    <3>1. \/ archive' = archive
          \/ frozen < Len(rows) /\ archive' = archive \cup {claims[frozen + 1]}
      BY <1>6 DEF Archive
    <3> QED
      BY <2>1, <3>1 DEF TypeOK
  <2>5. pc' \in {"idle", "archive", "record"}
    BY <1>6 DEF Archive
  <2> QED
    BY <1>6, <2>3, <2>4, <2>5 DEF TypeOK, Archive
<1>7. CASE Record
  <2>1. [rows |-> rows, anchor |-> None] \in Entry
    BY DEF TypeOK, Entry
  <2>2. entry' \in Entry \cup {None} /\ entries' \in [Weeks -> Entry \cup {None}]
    BY <1>7, <2>1 DEF TypeOK, Record, Writes
  <2> QED
    BY <1>7, <2>2 DEF TypeOK, Record
<1>8. CASE Send
  <2> DEFINE memo == WeeklyMemo(MoneyShot(rows))
  <2>1. memo \in Memo
    BY <1>8, MemoType DEF TypeOK, Send
  <2>2. entry \in Entry => [entry EXCEPT !.anchor = memo] \in Entry
    BY <2>1 DEF Entry
  <2> HIDE DEF memo
  <2>3. /\ memos' \subseteq Memo /\ entry' \in Entry \cup {None}
        /\ pc' \in {"save", "idle"}
    <3>1. memos' \in {memos, memos \cup {memo}}
      BY <1>8 DEF Send, memo
    <3>2. entry' \in {entry, [entry EXCEPT !.anchor = memo]}
      BY <1>8 DEF Send, memo
    <3>3. entry # None
      BY <1>8 DEF Send, EntryInMemory
    <3>4. pc' \in {"save", "idle"}
      BY <1>8 DEF Send
    <3> QED
      BY <2>1, <2>2, <3>1, <3>2, <3>3, <3>4 DEF TypeOK
  <2> QED
    BY <1>8, <2>3 DEF TypeOK, Send, files
<1>9. CASE Save
  BY <1>9 DEF TypeOK, Save
<1>10. CASE NoSend
  BY <1>10 DEF TypeOK, NoSend, files
<1>11. CASE Regenerate
  BY <1>11 DEF TypeOK, Regenerate
<1>12. CASE Crash
  BY <1>12 DEF TypeOK, Crash, files
<1> QED
  BY <1>1, <1>2, <1>3, <1>4, <1>5, <1>6, <1>7, <1>8, <1>9, <1>10, <1>11, <1>12 DEF Next
-----------------------------------------------------------------------------
(* The evidence. *)

\* What is frozen stays frozen: a step adds bytes at an address that has none, or
\* the same ones again.
LEMMA FrozenStays ==
  ASSUME TypeOK, [Next]_vars, NEW id, Frozen(id)
  PROVE  Frozen(id)'
<1>1. PICK b \in archive : ArchivedAs(id) = {b}
  BY DEF Frozen
<1>2. CASE Emit
  <2>1. PICK e : issued' = Append(issued, e)
    BY <1>2 DEF Emit
  <2>2. \A c \in archive : issued'[c] = issued[c]
    BY <2>1 DEF TypeOK
  <2>3. archive' = archive
    BY <1>2 DEF Emit
  <2>4. ArchivedAs(id)' = ArchivedAs(id)
    BY <2>2, <2>3 DEF ArchivedAs
  <2> QED
    BY <1>1, <2>3, <2>4 DEF Frozen
<1>3. CASE Archive
  <2>1. issued' = issued
    BY <1>3 DEF Archive
  <2>2. CASE archive' = archive
    BY <1>1, <2>1, <2>2 DEF Frozen, ArchivedAs
  <2>3. CASE archive' # archive
    <3> DEFINE k == frozen + 1
               c == claims[k]
    <3>1. /\ archive' = archive \cup {c}
          /\ issued[c].id = rows[k] /\ ArchivedAs(rows[k]) \subseteq {c}
      BY <1>3, <2>3 DEF Archive, SameClaim, NoCollision
    <3>2. CASE id = rows[k]
      <4>1. ArchivedAs(id)' = {c}
        BY <2>1, <3>1, <3>2 DEF ArchivedAs
      <4> QED
        BY <3>1, <4>1 DEF Frozen
    <3>3. CASE id # rows[k]
      <4>1. ArchivedAs(id)' = ArchivedAs(id)
        BY <2>1, <3>1, <3>3 DEF ArchivedAs
      <4> QED
        BY <1>1, <3>1, <4>1 DEF Frozen
    <3> QED
      BY <3>2, <3>3
  <2> QED
    BY <2>2, <2>3
<1>4. CASE archive' = archive /\ issued' = issued
  BY <1>1, <1>4 DEF Frozen, ArchivedAs
<1>5. Emit \/ Archive \/ (archive' = archive /\ issued' = issued)
  BY DEF Next, NextWeek, Start, Assemble, Record, Send, Save, NoSend, Regenerate, Crash,
         vars, files
<1> QED
  BY <1>2, <1>3, <1>4, <1>5

\* A row just archived is frozen.
LEMMA ArchiveFreezes ==
  ASSUME TypeOK, Archive, frozen' = frozen + 1, NEW id, id = rows[frozen + 1]
  PROVE  Frozen(id)'
<1> DEFINE c == claims[frozen + 1]
<1>1. /\ archive' = archive \cup {c} /\ issued' = issued
      /\ issued[c].id = id /\ ArchivedAs(id) \subseteq {c}
  BY DEF TypeOK, Archive, SameClaim, NoCollision
<1>2. \A d \in archive' : issued'[d].id = id <=> d = c
  BY <1>1 DEF ArchivedAs
<1> HIDE DEF c
<1>3. ArchivedAs(id)' = {c}
  BY <1>1, <1>2 DEF ArchivedAs
<1> QED
  BY <1>1, <1>3 DEF Frozen

\* Between archiving and recording, the rows in hand stay the archived ones.
LEMMA NextRowsFrozen == TypeOK /\ RowsFrozen /\ [Next]_vars => RowsFrozen'
<1> SUFFICES ASSUME TypeOK, RowsFrozen, [Next]_vars PROVE RowsFrozen'
  OBVIOUS
<1>1. \A id \in Taken : Frozen(id)'
  BY FrozenStays DEF RowsFrozen
<1>2. CASE Start
  BY <1>2 DEF Start, RowsFrozen, Taken
<1>3. CASE Assemble
  <2>1. \A i \in 1..frozen : rows'[i] = rows[i]
    BY <1>3 DEF Assemble, TypeOK
  <2>2. Taken' = Taken
    BY <1>3, <2>1 DEF Assemble, Taken
  <2>3. pc' \in {"assemble", "archive"}
    BY <1>3 DEF Assemble
  <2> QED
    BY <1>1, <2>2, <2>3 DEF RowsFrozen
<1>4. CASE Archive
  <2>1. rows' = rows /\ frozen \in Nat
    BY <1>4 DEF Archive, TypeOK
  <2>2. CASE frozen' = frozen + 1
    <3>1. Taken' = Taken \cup {rows[frozen + 1]}
      BY <2>1, <2>2 DEF Taken
    <3>2. pc' = "archive"
      BY <1>4, <2>1, <2>2 DEF Archive
    <3>3. ASSUME NEW id \in Taken' PROVE Frozen(id)'
      BY <1>1, <1>4, <2>2, <3>1, ArchiveFreezes
    <3> QED
      BY <3>2, <3>3 DEF RowsFrozen
  <2>3. CASE frozen' = frozen
    <3>1. Taken' = Taken
      BY <2>1, <2>3 DEF Taken
    <3>2. pc' \in {"archive", "idle"} \/ (pc' = "record" /\ frozen = Len(rows))
      BY <1>4 DEF Archive
    <3> QED
      BY <1>1, <2>1, <2>3, <3>1, <3>2 DEF RowsFrozen
  <2> QED
    BY <1>4, <2>2, <2>3 DEF Archive
<1>5. ASSUME rows' = rows, frozen' = frozen,
             pc' = pc \/ pc' = "idle" \/ (pc \in {"record", "anchor", "save", "board"})
      PROVE  RowsFrozen'
  <2>1. Taken' = Taken
    BY <1>5 DEF Taken
  <2> QED
    BY <1>1, <1>5, <2>1 DEF RowsFrozen
<1>6. \/ Start \/ Assemble \/ Archive
      \/ /\ rows' = rows /\ frozen' = frozen
         /\ pc' = pc \/ pc' = "idle" \/ (pc \in {"record", "anchor", "save", "board"})
  BY DEF Next, NextWeek, Emit, Record, Send, Save, NoSend, Regenerate, Crash, vars, memory
<1> QED
  BY <1>2, <1>3, <1>4, <1>5, <1>6

-----------------------------------------------------------------------------
(* The log. *)

\* Between reading or writing the week's entry and saving its anchor nothing else
\* writes the entry.
LEMMA NextEntryInMemory ==
  TypeOK /\ EntryInMemory /\ [Next]_vars => EntryInMemory'
<1> SUFFICES ASSUME TypeOK, EntryInMemory, [Next]_vars PROVE EntryInMemory'
  OBVIOUS
<1>1. CASE Record
  <2>1. [rows |-> rows, anchor |-> None] \in Entry
    BY DEF TypeOK, Entry
  <2>2. entry' # None /\ entries'[mine] = entry' /\ pc' = "anchor" /\ mine' = mine
    BY <1>1, <2>1, NoneAssumption DEF Record, Writes, TypeOK
  <2> QED
    BY <2>2 DEF EntryInMemory
<1>2. CASE Send
  <2> DEFINE memo == WeeklyMemo(MoneyShot(rows))
  <2>1. memo.week = mine /\ memo \in Memo
    BY <1>2, MemoType DEF Send, TypeOK
  <2>2. entries' = entries /\ mine' = mine /\ entry # None /\ entries[mine] # None
    BY <1>2 DEF Send, files, EntryInMemory
  <2>3. entry \in Entry /\ entry.anchor = None /\ entries[mine].anchor = None
        /\ entry.rows = entries[mine].rows
    BY <1>2, <2>2 DEF Send, MayAnchor, EntryInMemory, TypeOK
  <2> HIDE DEF memo
  <2>4. CASE pc' = "save"
    <3>1. entry' = [entry EXCEPT !.anchor = memo] /\ memos' = memos \cup {memo}
      BY <1>2, <2>4 DEF Send, memo
    <3>2. entry' \in Entry /\ entry'.rows = entry.rows /\ entry'.anchor = memo
      BY <2>1, <2>3, <3>1 DEF Entry
    <3> QED
      BY <2>1, <2>2, <2>3, <2>4, <3>1, <3>2, NoneAssumption DEF EntryInMemory
  <2>5. CASE pc' = "idle"
    BY <2>5 DEF EntryInMemory
  <2> QED
    BY <1>2, <2>4, <2>5 DEF Send
<1>3. CASE UNCHANGED <<entries, entry, mine>> /\ memos' = memos
           /\ (pc' = pc \/ pc' \notin {"anchor", "save"})
  BY <1>3 DEF EntryInMemory
<1>4. CASE pc' \notin {"anchor", "save"}
  BY <1>4 DEF EntryInMemory
<1> QED
  BY <1>1, <1>2, <1>3, <1>4
  DEF Next, NextWeek, Emit, Start, Assemble, Archive, Save, NoSend, Regenerate, Crash,
      vars, files, memory

\* An entry is written with rows that are frozen, and written again with the same.
LEMMA NextEvidence == IInv /\ [Next]_vars => EvidenceIsFrozen'
<1> SUFFICES ASSUME IInv, [Next]_vars, NEW w \in Weeks, entries'[w] # None, NEW id \in RowsOf(w)'
             PROVE  Frozen(id)'
  BY DEF EvidenceIsFrozen, Frozen
<1>1. CASE entries[w] # None /\ entries'[w].rows = entries[w].rows
  <2>1. id \in RowsOf(w)
    BY <1>1 DEF RowsOf
  <2>2. Frozen(id)
    BY <1>1, <2>1 DEF IInv, EvidenceIsFrozen, Frozen
  <2> QED
    BY <2>2, FrozenStays DEF IInv
<1>2. CASE Record /\ w = mine /\ Writes
  <2>1. entries'[w] = [rows |-> rows, anchor |-> None]
    BY <1>2 DEF Record, IInv, TypeOK
  <2>2. id \in {rows[i] : i \in 1 .. Len(rows)}
    BY <2>1 DEF RowsOf
  <2>3. id \in Taken
    BY <1>2, <2>2 DEF Record, IInv, RowsFrozen, Taken
  <2>4. Frozen(id)
    BY <2>3 DEF IInv, RowsFrozen
  <2> QED
    BY <2>4, FrozenStays DEF IInv
<1>3. CASE Save
  BY <1>1, <1>3 DEF Save, IInv, TypeOK, EntryInMemory
<1>4. CASE entries' = entries
  BY <1>1, <1>4
<1>5. CASE Record
  BY <1>1, <1>2, <1>5 DEF Record, IInv, TypeOK
<1> QED
  BY <1>3, <1>4, <1>5
  DEF Next, NextWeek, Emit, Start, Assemble, Archive, Send, NoSend, Regenerate, Crash,
      vars, files

\* What a step does to the log: it writes an entry where there is none, or saves the
\* anchor of one that has none, or leaves it alone.
LEMMA LogSteps ==
  ASSUME IInv, [Next]_vars, NEW w \in Weeks, entries[w] # None
  PROVE  /\ entries'[w] # None /\ entries'[w].rows = entries[w].rows
         /\ \/ entries'[w].anchor = entries[w].anchor
            \/ /\ w = mine /\ pc = "save" /\ entries'[w] = entry
               /\ entries[w].anchor = None
<1>1. CASE entries' = entries
  BY <1>1
<1>2. CASE Record
  BY <1>2 DEF Record, Writes, IInv, TypeOK
<1>3. CASE Save
  BY <1>3 DEF Save, IInv, TypeOK, EntryInMemory
<1> QED
  BY <1>1, <1>2, <1>3
  DEF Next, NextWeek, Emit, Start, Assemble, Archive, Send, NoSend, Regenerate, Crash,
      vars, files

\* An anchor enters the log only after its memo has landed, under its own week.
LEMMA NextAnchor == IInv /\ [Next]_vars => AnchorIsOnChain'
<1> SUFFICES ASSUME IInv, [Next]_vars, NEW w \in Weeks,
                    entries'[w] # None, entries'[w].anchor # None
             PROVE  entries'[w].anchor \in memos' /\ entries'[w].anchor.week = w
  BY DEF AnchorIsOnChain
<1>1. memos \subseteq memos'
  BY DEF Next, NextWeek, Emit, Start, Assemble, Archive, Record, Send, Save, NoSend,
         Regenerate, Crash, vars
<1>2. CASE entries[w] # None
  BY <1>1, <1>2, LogSteps DEF IInv, AnchorIsOnChain, EntryInMemory
<1>3. CASE entries[w] = None
  <2>1. CASE Record
    <3>1. entries'[w] = [rows |-> rows, anchor |-> None]
      BY <1>3, <2>1 DEF Record, Writes, IInv, TypeOK
    <3> QED
      BY <3>1
  <2>2. CASE Save
    BY <1>3, <2>2 DEF Save, IInv, TypeOK, EntryInMemory
  <2> QED
    BY <1>3, <2>1, <2>2
    DEF Next, NextWeek, Emit, Start, Assemble, Archive, Send, NoSend, Regenerate, Crash,
        vars, files
<1> QED
  BY <1>2, <1>3

\* The board is made from the log, and the log only grows.
LEMMA NextBoard == IInv /\ [Next]_vars => BoardShowsLog'
<1> SUFFICES ASSUME IInv, [Next]_vars, NEW w \in Weeks, board'[w] # None
             PROVE  /\ entries'[w] # None /\ board'[w].rows = entries'[w].rows
                    /\ board'[w].anchor \in {None, entries'[w].anchor}
  BY DEF BoardShowsLog
<1>1. CASE board' = board
  BY <1>1, LogSteps DEF IInv, BoardShowsLog
<1>2. CASE Regenerate
  BY <1>2 DEF Regenerate
<1> QED
  BY <1>1, <1>2
  DEF Next, NextWeek, Emit, Start, Assemble, Archive, Record, Send, Save, NoSend, Crash,
      vars, files

\* The log, the archive and the board start empty.
LEMMA InitIInv == Init => IInv
<1> SUFFICES ASSUME Init PROVE IInv
  OBVIOUS
<1>1. TypeOK
  BY InitTypeOK
<1>2. \A w \in Weeks : entries[w] = None /\ board[w] = None
  BY DEF Init
<1>3. RowsFrozen /\ EntryInMemory
  BY DEF Init, RowsFrozen, Taken, EntryInMemory
<1> QED
  BY <1>1, <1>2, <1>3 DEF IInv, EvidenceIsFrozen, BoardShowsLog, AnchorIsOnChain

\* Every step of the weekly pipeline keeps the invariant.
LEMMA NextIInv == IInv /\ [Next]_vars => IInv'
<1> SUFFICES ASSUME IInv, [Next]_vars PROVE IInv'
  OBVIOUS
<1>1. TypeOK' /\ RowsFrozen' /\ EntryInMemory'
  BY NextTypeOK, NextRowsFrozen, NextEntryInMemory DEF IInv
<1>2. EvidenceIsFrozen' /\ AnchorIsOnChain' /\ BoardShowsLog'
  BY NextEvidence, NextAnchor, NextBoard
<1> QED
  BY <1>1, <1>2 DEF IInv

-----------------------------------------------------------------------------
\* What the pipeline holds, in its files and in memory, is of its type, whatever is
\* interrupted where.
THEOREM PipelineIsTyped == Spec => []TypeOK
<1>1. IInv => TypeOK
  BY DEF IInv
<1> QED
  BY InitIInv, NextIInv, <1>1, PTL DEF Spec

\* Whatever is emitted over the tracked files and wherever a readout dies, every
\* claim a week's entry cites is archived, once.
THEOREM EvidenceStays == Spec => []EvidenceIsFrozen
<1>1. IInv => EvidenceIsFrozen
  BY DEF IInv
<1> QED
  BY InitIInv, NextIInv, <1>1, PTL DEF Spec

\* An anchor in the log is on chain, labelled with its week.
THEOREM AnchorsAreWitnessed == Spec => []AnchorIsOnChain
<1>1. IInv => AnchorIsOnChain
  BY DEF IInv
<1> QED
  BY InitIInv, NextIInv, <1>1, PTL DEF Spec

\* The board never shows what the log does not hold.
THEOREM BoardIsBehindLog == Spec => []BoardShowsLog
<1>1. IInv => BoardShowsLog
  BY DEF IInv
<1> QED
  BY InitIInv, NextIInv, <1>1, PTL DEF Spec

\* No step changes the rows of an entry or an anchor that is there.
THEOREM LogIsAppendOnly == Spec => AppendOnly
<1>1. IInv /\ [Next]_vars =>
        [\A w \in Weeks : entries[w] # None =>
          /\ entries'[w] # None /\ entries'[w].rows = entries[w].rows
          /\ entries[w].anchor # None => entries'[w].anchor = entries[w].anchor]_vars
  BY LogSteps
<1> QED
  BY InitIInv, NextIInv, <1>1, PTL DEF Spec, AppendOnly
=============================================================================
