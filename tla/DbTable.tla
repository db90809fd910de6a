------------------------------- MODULE DbTable -------------------------------
(***************************************************************************)
(* One table of the hall server's database cache (DBC), as the generator   *)
(* writes it for every table: rows live in memory, in three maps, and are  *)
(* written behind by Save.  Handlers add, change and remove rows at any    *)
(* time; the goroutine of DBC.Loop saves the table again and again, and    *)
(* HallServer.Shutdown saves it once more beside it.  A save is a sequence *)
(* of short locks and SQL statements, so everything can happen between     *)
(* them; a statement may fail, and the process may stop anywhere and be    *)
(* started again from what the database holds.                             *)
(*                                                                         *)
(* The columns of a row are one version number, which every change steps.  *)
(* Whoever adds a row has seen that there is none of its id (the activity  *)
(* manager does, which is also the one to remove rows).                    *)
(***************************************************************************)
EXTENDS Integers, FiniteSets

CONSTANTS
  Id,       \* primary keys
  Saver,    \* who calls Save: "loop" (DBC.Loop), "main" (HallServer.Shutdown)
  MaxRows,  \* bound: row objects created
  MaxVer    \* bound: changes of a row

ASSUME DbTableAssumption ==
  /\ Id # {}
  /\ Saver \subseteq {"loop", "main"}
  /\ MaxRows \in Nat \ {0}
  /\ MaxVer \in Nat

VARIABLES
  m_rows, m_new_rows, m_removed_rows,  \* id -> row object, NoRow for none
  row,      \* row object -> [id, flags, ver]
  created,  \* row objects created so far
  m_quit,   \* DBC.Shutdown has been called
  saver,    \* saver -> [pc, how, todo, stmt]
  disk,     \* the SQL table: id -> [obj, ver], Nothing for no record
  failed,   \* history: ids a statement failed for, since the start
  late,     \* history: ids removed while the removed rows were being deleted
  overlap   \* history: both savers have been saving at once, since the start

tableVars == <<m_rows, m_new_rows, m_removed_rows>>
vars == <<m_rows, m_new_rows, m_removed_rows, row, created, m_quit, saver,
          disk, failed, late, overlap>>

-----------------------------------------------------------------------------
Obj == 1..MaxRows
NoRow == 0
\* flags: those that are set, m_new and the columns' m_..._changed.
Row == [id : Id, flags : SUBSET {"new", "changed"}, ver : 0..MaxVer]
RowOf(i, flags, v) == [id |-> i, flags |-> flags, ver |-> v]

Nothing == [obj |-> NoRow, ver |-> 0]
Record == [obj : Obj, ver : 0..MaxVer]
RecordOf(o, v) == [obj |-> o, ver |-> v]

NoStmt == [kind |-> "none", obj |-> NoRow, ver |-> 0]
StmtOf(kind, o, v) == [kind |-> kind, obj |-> o, ver |-> v]
Stmt == [kind : {"insert", "update"}, obj : Obj, ver : 0..MaxVer] \cup {NoStmt}

\* A save is quick or not.
How == {"plain", "quick"}
SaverAt(place, how, todo, stmt) == [pc |-> place, how |-> how, todo |-> todo, stmt |-> stmt]
Resting(place) == SaverAt(place, "plain", {}, NoStmt)

\* "before" is the saving of the tables that come before this one; "closed" is the end
\* of Loop and "cut" its end by a last save that has not come to this table;
\* "quitting" is the wait of Shutdown for either.
RestPc == {"idle", "closed", "cut", "quitting"}
SaverPc == RestPc \cup {"before", "deleting", "fetch", "rows", "new"}

TypeOK ==
  /\ m_rows \in [Id -> Obj \cup {NoRow}]
  /\ m_new_rows \in [Id -> Obj \cup {NoRow}]
  /\ m_removed_rows \in [Id -> Obj \cup {NoRow}]
  /\ row \in [Obj -> Row]
  /\ created \in 0..MaxRows
  /\ m_quit \in BOOLEAN
  /\ saver \in [Saver -> [pc : SaverPc, how : How, todo : SUBSET Obj, stmt : Stmt]]
  /\ disk \in [Id -> Record \cup {Nothing}]
  /\ failed \in SUBSET Id
  /\ late \in SUBSET Id
  /\ overlap \in BOOLEAN

\* The saver goes on: at another place, with other rows to do.
Goes(s, place, todo) ==
  saver' = [saver EXCEPT ![s] = SaverAt(place, @.how, todo, @.stmt)]

\* s is inside Save.
Saving(s) == saver[s].pc \notin RestPc

In(map) == {map[i] : i \in Id} \ {NoRow}

-----------------------------------------------------------------------------
(* What handlers do to the table *)

GetRow(i) == IF m_rows[i] # NoRow THEN m_rows[i] ELSE m_new_rows[i]

\* AddRow: a new object, unless m_new_rows has one of this id already.
AddRow(i) ==
  /\ created < MaxRows
  /\ m_new_rows[i] = NoRow
  /\ created' = created + 1
  /\ row' = [row EXCEPT ![created + 1] = RowOf(i, {"new", "changed"}, 0)]
  /\ m_new_rows' = [m_new_rows EXCEPT ![i] = created + 1]
  /\ UNCHANGED <<m_rows, m_removed_rows, m_quit, saver, disk, failed, late, overlap>>

\* A setter: the column and its changed flag, under the row's lock.
Set(o) ==
  /\ row[o].ver < MaxVer
  /\ row' = [row EXCEPT ![o] = RowOf(@.id, @.flags \cup {"changed"}, @.ver + 1)]
  /\ UNCHANGED <<tableVars, created, m_quit, saver, disk, failed, late, overlap>>

\* A slip: a row that is not new is dropped, not kept for its DELETE.
RemoveRowForgetting(i) ==
  /\ GetRow(i) # NoRow
  /\ m_rows' = [m_rows EXCEPT ![i] = NoRow]
  /\ m_new_rows' = [m_new_rows EXCEPT ![i] = NoRow]
  /\ UNCHANGED <<m_removed_rows, late, row, created, m_quit, saver, disk, failed, overlap>>

\* RemoveRow: a row that may be in the database waits in m_removed_rows.
RemoveRow(i) ==
  /\ GetRow(i) # NoRow
  /\ m_rows' = [m_rows EXCEPT ![i] = NoRow]
  /\ m_new_rows' = [m_new_rows EXCEPT ![i] = NoRow]
  /\ IF m_rows[i] = NoRow THEN UNCHANGED <<m_removed_rows, late>>
     ELSE /\ m_removed_rows' = [m_removed_rows EXCEPT ![i] = m_rows[i]]
          /\ late' = IF \E s \in Saver : saver[s].pc = "deleting"
                     THEN late \cup {i} ELSE late
  /\ UNCHANGED <<row, created, m_quit, saver, disk, failed, overlap>>

-----------------------------------------------------------------------------
(* Save, step by step *)

\* Save is called.
StartSave(s, how) ==
  /\ saver[s].pc = "idle"
  /\ saver' = [saver EXCEPT ![s] = SaverAt("before", how, {}, NoStmt)]
  /\ overlap' = (overlap \/ \E t \in Saver \ {s} : Saving(t))
  /\ UNCHANGED <<tableVars, row, created, m_quit, disk, failed, late>>

\* DBC.Save returns.  Loop's quick save is its last, after which the database is
\* closed, if every table has been saved.  After its save HallServer.Shutdown has the
\* DBC quit.
SaveReturns(s) ==
  LET last == IF saver[s].pc = "before" THEN "cut" ELSE "closed" IN
  /\ saver' = [saver EXCEPT ![s] =
       Resting(IF s = "main" THEN "quitting"
               ELSE IF saver[s].how = "quick" THEN last ELSE "idle")]
  /\ m_quit' = (m_quit \/ s = "main")

\* A table that comes before this one has not been saved, and the save is over.
SaveCutShort(s) ==
  /\ saver[s].pc = "before"
  /\ SaveReturns(s)
  /\ UNCHANGED <<tableVars, row, created, disk, failed, late, overlap>>

\* fetch_rows(m_removed_rows): a copy, under the table's lock.
FetchRemoved(s) ==
  /\ saver[s].pc = "before"
  /\ Goes(s, "deleting", In(m_removed_rows))
  /\ UNCHANGED <<tableVars, row, created, m_quit, disk, failed, late, overlap>>

\* A DELETE, by the row's id.
Delete(s) ==
  /\ saver[s].pc = "deleting"
  /\ \E o \in saver[s].todo :
       /\ Goes(s, "deleting", saver[s].todo \ {o})
       /\ \/ disk' = [disk EXCEPT ![row[o].id] = Nothing] /\ UNCHANGED failed
          \/ failed' = failed \cup {row[o].id} /\ UNCHANGED disk
  /\ UNCHANGED <<tableVars, row, created, m_quit, late, overlap>>

\* m_removed_rows is made anew, without the lock and whatever the DELETEs came to.
ResetRemoved(s) ==
  /\ saver[s].pc = "deleting"
  /\ saver[s].todo = {}
  /\ m_removed_rows' = [i \in Id |-> NoRow]
  /\ Goes(s, "fetch", {})
  /\ UNCHANGED <<m_rows, m_new_rows, row, created, m_quit, disk, failed, late, overlap>>

\* A slip: the places of ids without a row are copied, too.
FetchRowsWithNil(s) ==
  /\ saver[s].pc = "fetch"
  /\ Goes(s, "rows", {m_rows[i] : i \in Id})
  /\ UNCHANGED <<tableVars, row, created, m_quit, disk, failed, late, overlap>>

\* fetch_rows(m_rows).
FetchRows(s) ==
  /\ saver[s].pc = "fetch"
  /\ Goes(s, "rows", In(m_rows))
  /\ UNCHANGED <<tableVars, row, created, m_quit, disk, failed, late, overlap>>

\* save_rows gives up once the DBC is quitting, unless the save is a quick one.
GivesUp(s) == m_quit /\ saver[s].how = "plain"

\* A new row needs an INSERT, a changed one an UPDATE.
Saved(o) == StmtOf(IF "new" \in row[o].flags THEN "insert" ELSE "update", o, row[o].ver)

\* save_data: under the row's lock the statement is put together and the flags
\* are cleared, before the statement is executed.
SaveData(s) ==
  /\ saver[s].pc \in {"rows", "new"}
  /\ saver[s].stmt = NoStmt
  /\ ~GivesUp(s)
  /\ \E o \in saver[s].todo :
       /\ saver' = [saver EXCEPT ![s] =
            SaverAt(@.pc, @.how, @.todo \ {o}, IF row[o].flags = {} THEN NoStmt ELSE Saved(o))]
       /\ row' = [row EXCEPT ![o] = RowOf(@.id, {}, @.ver)]
  /\ UNCHANGED <<tableVars, created, m_quit, disk, failed, late, overlap>>

\* An INSERT needs the key to be free, an UPDATE changes a record that is there.
Executed(stmt) ==
  [disk EXCEPT ![row[stmt.obj].id] =
     IF (stmt.kind = "insert") = (@ = Nothing)
     THEN RecordOf(stmt.obj, stmt.ver) ELSE @]

\* A slip: the flags are cleared once the statement has been executed.
ExecClearingFlags(s) ==
  LET stmt == saver[s].stmt IN
  /\ stmt # NoStmt
  /\ saver' = [saver EXCEPT ![s] = SaverAt(@.pc, @.how, @.todo, NoStmt)]
  /\ stmt.kind = "insert" => disk[row[stmt.obj].id] = Nothing
  /\ disk' = Executed(stmt)
  /\ row' = [row EXCEPT ![stmt.obj].flags = @ \ {"changed"}]
  /\ UNCHANGED <<tableVars, created, m_quit, failed, late, overlap>>

\* The statement is executed; an error is only logged.
Exec(s) ==
  LET stmt == saver[s].stmt IN
  /\ stmt # NoStmt
  /\ saver' = [saver EXCEPT ![s] = SaverAt(@.pc, @.how, @.todo, NoStmt)]
  /\ \/ /\ stmt.kind = "insert" => disk[row[stmt.obj].id] = Nothing
        /\ disk' = Executed(stmt)
        /\ UNCHANGED failed
     \/ failed' = failed \cup {row[stmt.obj].id} /\ UNCHANGED disk
  /\ UNCHANGED <<tableVars, row, created, m_quit, late, overlap>>

RowsDone(s) ==
  /\ saver[s].stmt = NoStmt
  /\ saver[s].todo = {} \/ GivesUp(s)

\* Two slips of fetch_new_rows: the new rows are left where they are, a row that
\* is there already is replaced.
FetchNewRowsOnly(s) ==
  /\ saver[s].pc = "rows"
  /\ RowsDone(s)
  /\ Goes(s, "new", {})
  /\ UNCHANGED <<tableVars, row, created, m_quit, disk, failed, late, overlap>>

FetchNewRowsReplacing(s) ==
  /\ saver[s].pc = "rows"
  /\ RowsDone(s)
  /\ m_rows' = [i \in Id |-> IF m_new_rows[i] # NoRow THEN m_new_rows[i] ELSE m_rows[i]]
  /\ m_new_rows' = [i \in Id |-> NoRow]
  /\ Goes(s, "new", In(m_new_rows))
  /\ UNCHANGED <<m_removed_rows, row, created, m_quit, disk, failed, late, overlap>>

\* fetch_new_rows, under the table's lock: the new rows become rows.  A new row of
\* an id that has a row already stays where it is, to be passed over every time.
FetchNewRows(s) ==
  LET moving == {i \in Id : m_new_rows[i] # NoRow /\ m_rows[i] = NoRow} IN
  /\ saver[s].pc = "rows"
  /\ RowsDone(s)
  /\ m_rows' = [i \in Id |-> IF i \in moving THEN m_new_rows[i] ELSE m_rows[i]]
  /\ m_new_rows' = [i \in Id |-> IF i \in moving THEN NoRow ELSE m_new_rows[i]]
  /\ Goes(s, "new", {m_new_rows[i] : i \in moving})
  /\ UNCHANGED <<m_removed_rows, row, created, m_quit, disk, failed, late, overlap>>

\* The table's save is over, and nothing is left for DBC.Save that concerns it.
EndSave(s) ==
  /\ saver[s].pc = "new"
  /\ RowsDone(s)
  /\ SaveReturns(s)
  /\ UNCHANGED <<tableVars, row, created, disk, failed, late, overlap>>

-----------------------------------------------------------------------------
\* Preload, after the process has stopped, orderly or not: the records become the
\* rows, and nothing else is left.
Restart ==
  /\ m_rows' = [i \in Id |-> disk[i].obj]
  /\ m_new_rows' = [i \in Id |-> NoRow]
  /\ m_removed_rows' = [i \in Id |-> NoRow]
  /\ row' = [o \in Obj |-> RowOf(row[o].id, {}, IF disk[row[o].id].obj = o
                                                   THEN disk[row[o].id].ver ELSE 0)]
  /\ m_quit' = FALSE
  /\ saver' = [s \in Saver |-> Resting("idle")]
  /\ failed' = {}
  /\ late' = {}
  /\ overlap' = FALSE
  /\ UNCHANGED <<created, disk>>

Init ==
  /\ m_rows = [i \in Id |-> NoRow]
  /\ m_new_rows = [i \in Id |-> NoRow]
  /\ m_removed_rows = [i \in Id |-> NoRow]
  /\ row = [o \in Obj |-> RowOf(CHOOSE i \in Id : TRUE, {}, 0)]
  /\ created = 0
  /\ m_quit = FALSE
  /\ saver = [s \in Saver |-> Resting("idle")]
  /\ disk = [i \in Id |-> Nothing]
  /\ failed = {}
  /\ late = {}
  /\ overlap = FALSE

\* DBC.Loop saves until the DBC quits, and then once more, quickly.
SaveStep(s) ==
  \/ StartSave(s, IF s = "loop" /\ m_quit THEN "quick" ELSE "plain")
  \/ SaveCutShort(s) \/ FetchRemoved(s) \/ Delete(s) \/ ResetRemoved(s) \/ FetchRows(s)
  \/ SaveData(s) \/ Exec(s) \/ FetchNewRows(s) \/ EndSave(s)

HandlerStep ==
  \/ \E i \in Id : GetRow(i) = NoRow /\ AddRow(i)
  \/ \E i \in Id : GetRow(i) # NoRow /\ Set(GetRow(i))
  \/ \E i \in Id : RemoveRow(i)

Next ==
  \/ HandlerStep
  \/ \E s \in Saver : SaveStep(s)
  \/ Restart

Spec == Init /\ [][Next]_vars

\* Loop's goroutine runs on, and so does a save of Shutdown's once it has begun;
\* time.Sleep and the statements come to an end.  Nobody has to shut the server down.
FairSpec ==
  Spec /\ \A s \in Saver :
            WF_vars((s = "loop" \/ saver[s].pc # "idle") /\ SaveStep(s))

-----------------------------------------------------------------------------
(* Properties *)

Dirty(o) == o \in In(m_rows) \cup In(m_new_rows) /\ row[o].flags # {}

\* No change is lost: a row whose flags are clear is in the database as it is in
\* memory, unless its statement is in flight or one of its id has failed.  So it
\* is as long as no two saves overlap.  (The flags are cleared
\* before the statement is executed, so a change that comes in between must not be
\* taken for saved.)
CleanRowsAreSaved ==
  \/ overlap
  \/ \A i \in Id :
       LET o == m_rows[i] IN
       (o # NoRow /\ ~Dirty(o) /\ i \notin failed /\ \A s \in Saver : saver[s].stmt.obj # o)
         => disk[i] = RecordOf(o, row[o].ver)

\* No removed row comes back at the next start: a record without a row awaits its
\* DELETE, unless that has failed, or the row was removed while a save had its copy
\* of m_removed_rows already: the map is then made anew, and the DELETE forgotten.  (Of
\* two saves at once one may insert the row after the other has deleted it.)
RemovedRowsGo ==
  \/ overlap
  \/ \A i \in Id :
       (disk[i] # Nothing /\ m_rows[i] = NoRow)
         => m_removed_rows[i] # NoRow \/ i \in late \/ i \in failed

\* A record never returns to an older version of its row, as long as no two saves
\* overlap.
DiskNeverGoesBack ==
  [][\A i \in Id : (disk'[i].obj = disk[i].obj /\ ~overlap)
                    => disk'[i].ver >= disk[i].ver]_vars

\* Loop has ended; the last save has begun, or is over, or has been cut short.
LoopOver == \E s \in Saver : saver[s].pc \in {"closed", "cut"}
LastSave == LoopOver \/ \E s \in Saver : saver[s].how = "quick"
CutShort == \E s \in Saver : saver[s].pc = "cut"

\* Some save is at this table.
TableReached == \E s \in Saver : saver[s].pc = "deleting"

\* A change is not put off for ever: every one that comes before the last save is
\* taken up by a save, saves that give up and rows that move from one map to the
\* other notwithstanding.  What another table can do about it is to fail: when it
\* does so in every save from some time on, or in the last one, the change is lost.
ChangesAreSaved ==
  []<>(TableReached \/ LoopOver)
    => \A o \in Obj : (Dirty(o) /\ ~LastSave) ~> (~Dirty(o) \/ CutShort)

\* "The loop of the database cache ends, saving all data" (the log line of DBC.Loop):
\* once Loop has ended, no row differs from its record, but for those a
\* statement failed for and those changed since.
ShutdownSavesAll ==
  LoopOver =>
     \A i \in Id :
       LET o == m_rows[i] IN
       (o # NoRow /\ ~Dirty(o) /\ i \notin failed) => disk[i] = RecordOf(o, row[o].ver)
=============================================================================
