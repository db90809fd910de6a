------------------------- MODULE PlayerStore_proofs -------------------------
(***************************************************************************)
(* The players of a hall, for any ids, rows, changes and savers: types, a  *)
(* player's row is the one that is saved, the counter's record catches up  *)
(* with the players, a saved player keeps his record.                      *)
(***************************************************************************)
EXTENDS PlayerStore, TLAPS

\* The places of a saver at rest are four names, known to every step.
USE DEF Players!RestPc

(***************************************************************************)
(* Types of the table (DbTable's, for the Players).                        *)
(***************************************************************************)

MapsOK ==
  /\ m_rows \in [PlayerId -> Players!Obj \cup {Players!NoRow}]
  /\ m_new_rows \in [PlayerId -> Players!Obj \cup {Players!NoRow}]
  /\ m_removed_rows \in [PlayerId -> Players!Obj \cup {Players!NoRow}]
  /\ created \in 0..MaxRows

RowsOK == row \in [Players!Obj -> Players!Row]

Savers == [pc : Players!SaverPc, how : Players!How, todo : SUBSET Players!Obj, stmt : Players!Stmt]

SaversOK == saver \in [Saver -> Savers]

DiskOK ==
  /\ disk \in [PlayerId -> Players!Record \cup {Players!Nothing}]
  /\ failed \in SUBSET PlayerId
  /\ late \in SUBSET PlayerId

TableOK == MapsOK /\ RowsOK /\ SaversOK /\ DiskOK

LEMMA NoRowIsNone ==
  Players!NoRow = 0 /\ Players!NoRow \notin Players!Obj /\ Players!Obj \subseteq Nat
BY PlayerStoreAssumption DEF Players!NoRow, Players!Obj

LEMMA InType ==
  ASSUME NEW map, map \in [PlayerId -> Players!Obj \cup {Players!NoRow}]
  PROVE  Players!In(map) \subseteq Players!Obj
BY DEF Players!In

LEMMA RowOfType ==
  ASSUME NEW i \in PlayerId, NEW flags \in SUBSET {"new", "changed"}, NEW v \in 0..MaxVer
  PROVE  /\ Players!RowOf(i, flags, v) \in Players!Row
         /\ Players!RowOf(i, flags, v).id = i
BY DEF Players!RowOf, Players!Row

LEMMA RowFields ==
  ASSUME RowsOK, NEW o \in Players!Obj
  PROVE  /\ row[o].id \in PlayerId /\ row[o].ver \in 0..MaxVer
         /\ row[o].flags \in SUBSET {"new", "changed"}
BY DEF RowsOK, Players!Row

\* A row is replaced by one of the same id, or of another one.
LEMMA RowReplaced ==
  ASSUME RowsOK, NEW o \in Players!Obj, NEW r \in Players!Row, row' = [row EXCEPT ![o] = r]
  PROVE  RowsOK' /\ row'[o] = r /\ \A p \in Players!Obj \ {o} : row'[p] = row[p]
BY DEF RowsOK

LEMMA NoStmtType == Players!NoStmt \in Players!Stmt /\ Players!NoStmt.obj = Players!NoRow
BY DEF Players!NoStmt, Players!Stmt

LEMMA StmtOfType ==
  ASSUME NEW kind \in {"insert", "update"}, NEW o \in Players!Obj, NEW v \in 0..MaxVer
  PROVE  Players!StmtOf(kind, o, v) \in Players!Stmt /\ Players!StmtOf(kind, o, v).obj = o
BY DEF Players!StmtOf, Players!Stmt

LEMMA StmtFields ==
  ASSUME NEW st \in Players!Stmt, st # Players!NoStmt
  PROVE  /\ st.obj \in Players!Obj /\ st.ver \in 0..MaxVer
         /\ st.kind \in {"insert", "update"}
BY DEF Players!Stmt

LEMMA RecordFields ==
  ASSUME NEW d \in Players!Record \cup {Players!Nothing}
  PROVE  /\ d = Players!Nothing <=> d.obj = Players!NoRow
         /\ d.obj \in Players!Obj \cup {Players!NoRow}
         /\ d.obj # Players!NoRow => d.ver \in 0..MaxVer
BY NoRowIsNone DEF Players!Record, Players!Nothing

LEMMA RecordOfType ==
  ASSUME NEW o \in Players!Obj, NEW v \in 0..MaxVer
  PROVE  Players!RecordOf(o, v) \in Players!Record /\ Players!RecordOf(o, v).obj = o
BY DEF Players!RecordOf, Players!Record

LEMMA SaverFields ==
  ASSUME SaversOK, NEW s \in Saver
  PROVE  /\ saver[s].pc \in Players!SaverPc /\ saver[s].how \in Players!How
         /\ saver[s].todo \in SUBSET Players!Obj /\ saver[s].stmt \in Players!Stmt
BY DEF SaversOK, Savers

LEMMA SaverAtType ==
  ASSUME NEW place \in Players!SaverPc, NEW how \in Players!How,
         NEW todo \in SUBSET Players!Obj, NEW st \in Players!Stmt
  PROVE  LET b == Players!SaverAt(place, how, todo, st) IN
         b \in Savers /\ b.pc = place /\ b.todo = todo /\ b.stmt = st
BY DEF Players!SaverAt, Savers

LEMMA RestingType ==
  ASSUME NEW place \in Players!SaverPc
  PROVE  LET b == Players!Resting(place) IN
         b \in Savers /\ b.pc = place /\ b.todo = {} /\ b.stmt = Players!NoStmt
BY SaverAtType, NoStmtType DEF Players!Resting, Players!How

(***************************************************************************)
(* What each step of the table does, in the fields the invariants speak of.*)
(***************************************************************************)

OnlySaver(s, place, todo, st) ==
  /\ saver'[s].pc = place /\ saver'[s].todo = todo /\ saver'[s].stmt = st
  /\ \A t \in Saver \ {s} : saver'[t] = saver[t]

LEMMA SaverReplaced ==
  ASSUME SaversOK, NEW s \in Saver, NEW b \in Savers, saver' = [saver EXCEPT ![s] = b]
  PROVE  SaversOK' /\ OnlySaver(s, b.pc, b.todo, b.stmt)
<1>1. saver'[s] = b /\ \A t \in Saver \ {s} : saver'[t] = saver[t]
  BY DEF SaversOK
<1>2. SaversOK'
  BY DEF SaversOK
<1> QED  BY <1>1, <1>2 DEF OnlySaver

LEMMA SaverGoes ==
  ASSUME SaversOK, NEW s \in Saver, NEW place \in Players!SaverPc, NEW how \in Players!How,
         NEW todo \in SUBSET Players!Obj, NEW st \in Players!Stmt,
         saver' = [saver EXCEPT ![s] = Players!SaverAt(place, how, todo, st)]
  PROVE  SaversOK' /\ OnlySaver(s, place, todo, st)
<1> DEFINE b == Players!SaverAt(place, how, todo, st)
<1>1. b \in Savers /\ b.pc = place /\ b.todo = todo /\ b.stmt = st
  BY SaverAtType
<1>2. saver' = [saver EXCEPT ![s] = b]
  OBVIOUS
<1> HIDE DEF b
<1> QED  BY <1>1, <1>2, SaverReplaced

LEMMA GoesDoes ==
  ASSUME SaversOK, NEW s \in Saver, NEW place \in Players!SaverPc,
         NEW todo \in SUBSET Players!Obj, Players!Goes(s, place, todo)
  PROVE  SaversOK' /\ OnlySaver(s, place, todo, saver[s].stmt)
<1>1. saver' = [saver EXCEPT ![s] = Players!SaverAt(place, saver[s].how, todo, saver[s].stmt)]
  BY DEF Players!Goes, SaversOK
<1> QED  BY <1>1, SaverFields, SaverGoes

LEMMA StartSaveDoes ==
  ASSUME SaversOK, NEW s \in Saver, NEW how \in Players!How, Players!StartSave(s, how)
  PROVE  SaversOK' /\ OnlySaver(s, "before", {}, Players!NoStmt)
BY SaverGoes, NoStmtType DEF Players!StartSave, Players!SaverPc

LEMMA SaveReturnsDoes ==
  ASSUME SaversOK, NEW s \in Saver, Players!SaveReturns(s)
  PROVE  /\ SaversOK'
         /\ \E place \in Players!RestPc :
              OnlySaver(s, place, {}, Players!NoStmt)
<1>1. PICK place \in Players!RestPc :
        saver' = [saver EXCEPT ![s] = Players!Resting(place)]
  BY DEF Players!SaveReturns
<1>2. Players!Resting(place) = Players!SaverAt(place, "plain", {}, Players!NoStmt)
  BY DEF Players!Resting
<1> QED  BY <1>1, <1>2, SaverGoes, NoStmtType DEF Players!How, Players!SaverPc

LEMMA AddRowDoes ==
  ASSUME MapsOK, RowsOK, NEW i \in PlayerId, Players!AddRow(i)
  PROVE  /\ MapsOK' /\ RowsOK'
         /\ created + 1 \in Players!Obj /\ created' = created + 1
         /\ m_new_rows[i] = Players!NoRow
         /\ m_new_rows' = [m_new_rows EXCEPT ![i] = created + 1]
         /\ row'[created + 1].id = i
         /\ \A o \in Players!Obj \ {created + 1} : row'[o] = row[o]
<1>1. created + 1 \in Players!Obj /\ created' = created + 1
  BY PlayerStoreAssumption DEF Players!AddRow, MapsOK, Players!Obj
<1> DEFINE r == Players!RowOf(i, {"new", "changed"}, 0)
<1>2. r \in Players!Row /\ r.id = i
  BY RowOfType, PlayerStoreAssumption
<1>3. row' = [row EXCEPT ![created + 1] = r]
  BY DEF Players!AddRow
<1> HIDE DEF r
<1>4. MapsOK'
  BY <1>1, PlayerStoreAssumption DEF Players!AddRow, MapsOK
<1> QED  BY <1>1, <1>2, <1>3, <1>4, RowReplaced DEF Players!AddRow

SameIds == \A o \in Players!Obj : row'[o].id = row[o].id

LEMMA SetDoes ==
  ASSUME RowsOK, NEW o \in Players!Obj, Players!Set(o)
  PROVE  RowsOK' /\ SameIds
<1> DEFINE r == Players!RowOf(row[o].id, row[o].flags \cup {"changed"}, row[o].ver + 1)
<1>1. row' = [row EXCEPT ![o] = r]
  BY DEF Players!Set, RowsOK
<1>2. r \in Players!Row /\ r.id = row[o].id
  <2>1. row[o].ver + 1 \in 0..MaxVer
    BY RowFields, PlayerStoreAssumption DEF Players!Set
  <2> QED  BY <2>1, RowFields, RowOfType
<1> HIDE DEF r
<1> QED  BY <1>1, <1>2, RowReplaced DEF SameIds

LEMMA SaveDataDoes ==
  ASSUME RowsOK, SaversOK, NEW s \in Saver, Players!SaveData(s)
  PROVE  /\ SaversOK' /\ RowsOK' /\ SameIds
         /\ \E o \in saver[s].todo, st \in Players!Stmt :
              /\ OnlySaver(s, saver[s].pc, saver[s].todo \ {o}, st)
              /\ st.obj \in {o, Players!NoRow}
<1>1. PICK o \in saver[s].todo :
        /\ saver' = [saver EXCEPT ![s] =
             Players!SaverAt(@.pc, @.how, @.todo \ {o},
               IF row[o].flags = {} THEN Players!NoStmt ELSE Players!Saved(o))]
        /\ row' = [row EXCEPT ![o] = Players!RowOf(@.id, {}, @.ver)]
  BY DEF Players!SaveData
<1>2. o \in Players!Obj
  BY SaverFields
<1>3. PICK st \in Players!Stmt :
        /\ st = IF row[o].flags = {} THEN Players!NoStmt ELSE Players!Saved(o)
        /\ st.obj \in {o, Players!NoRow}
  BY <1>2, NoStmtType, StmtOfType, RowFields DEF Players!Saved
<1>4. SaversOK' /\ OnlySaver(s, saver[s].pc, saver[s].todo \ {o}, st)
  <2>1. saver' = [saver EXCEPT ![s] =
          Players!SaverAt(saver[s].pc, saver[s].how, saver[s].todo \ {o}, st)]
    BY <1>1, <1>3 DEF SaversOK
  <2> QED  BY <2>1, SaverFields, SaverGoes
<1> DEFINE r == Players!RowOf(row[o].id, {}, row[o].ver)
<1>5. row' = [row EXCEPT ![o] = r]
  BY <1>1, <1>2 DEF RowsOK
<1>6. r \in Players!Row /\ r.id = row[o].id
  BY <1>2, RowFields, RowOfType
<1> HIDE DEF r
<1>7. RowsOK' /\ SameIds
  BY <1>2, <1>5, <1>6, RowReplaced DEF SameIds
<1> QED  BY <1>3, <1>4, <1>7

LEMMA ExecDoes ==
  ASSUME RowsOK, SaversOK, DiskOK, NEW s \in Saver, Players!Exec(s)
  PROVE  LET st == saver[s].stmt
             i == row[st.obj].id IN
         /\ SaversOK' /\ DiskOK'
         /\ st.obj \in Players!Obj /\ i \in PlayerId
         /\ OnlySaver(s, saver[s].pc, saver[s].todo, Players!NoStmt)
         /\ \A j \in PlayerId : disk'[j] = disk[j] \/ (j = i /\ disk'[j].obj = st.obj)
<1> DEFINE st == saver[s].stmt
           i == row[st.obj].id
<1>1. /\ st \in Players!Stmt /\ st.obj \in Players!Obj /\ i \in PlayerId
      /\ st.ver \in 0..MaxVer
  BY SaverFields, StmtFields, RowFields DEF Players!Exec
<1>2. SaversOK' /\ OnlySaver(s, saver[s].pc, saver[s].todo, Players!NoStmt)
  <2>1. saver' = [saver EXCEPT ![s] =
          Players!SaverAt(saver[s].pc, saver[s].how, saver[s].todo, Players!NoStmt)]
    BY DEF Players!Exec, SaversOK
  <2> QED  BY <2>1, SaverFields, SaverGoes, NoStmtType
<1>3. CASE UNCHANGED disk /\ failed' = failed \cup {i}
  BY <1>1, <1>2, <1>3 DEF Players!Exec, DiskOK
<1>4. CASE disk' = Players!Executed(st) /\ UNCHANGED failed
  <2>1. PICK d \in Players!Record \cup {Players!Nothing} :
          disk' = [disk EXCEPT ![i] = d] /\ (d = disk[i] \/ d.obj = st.obj)
    BY <1>1, <1>4, RecordOfType DEF Players!Executed, DiskOK
  <2>2. UNCHANGED late
    BY DEF Players!Exec
  <2>3. disk'[i] = d /\ \A j \in PlayerId \ {i} : disk'[j] = disk[j]
    BY <1>1, <2>1 DEF DiskOK
  <2>4. DiskOK'
    BY <1>4, <2>1, <2>2 DEF DiskOK
  <2>5. \A j \in PlayerId : disk'[j] = disk[j] \/ (j = i /\ disk'[j].obj = st.obj)
    BY <2>1, <2>3
  <2> QED  BY <1>1, <1>2, <2>4, <2>5
<1> QED  BY <1>3, <1>4 DEF Players!Exec

LEMMA FetchNewRowsDoes ==
  ASSUME MapsOK, SaversOK, NEW s \in Saver, Players!FetchNewRows(s)
  PROVE  LET Moves(i) == m_new_rows[i] # Players!NoRow /\ m_rows[i] = Players!NoRow IN
         /\ MapsOK' /\ SaversOK'
         /\ \A i \in PlayerId :
              /\ m_rows'[i] = IF Moves(i) THEN m_new_rows[i] ELSE m_rows[i]
              /\ m_new_rows'[i] = IF Moves(i) THEN Players!NoRow ELSE m_new_rows[i]
         /\ \E todo \in SUBSET Players!Obj :
              /\ OnlySaver(s, "new", todo, Players!NoStmt)
              /\ \A o \in todo : \E i \in PlayerId : Moves(i) /\ m_new_rows[i] = o
<1> DEFINE moving == {i \in PlayerId : m_new_rows[i] # Players!NoRow /\ m_rows[i] = Players!NoRow}
           todo == {m_new_rows[i] : i \in moving}
<1>1. todo \in SUBSET Players!Obj
  BY DEF MapsOK
<1>2. Players!Goes(s, "new", todo) /\ saver[s].stmt = Players!NoStmt
  BY DEF Players!FetchNewRows, Players!RowsDone
<1>3. SaversOK' /\ OnlySaver(s, "new", todo, Players!NoStmt)
  BY <1>1, <1>2, GoesDoes DEF Players!SaverPc
<1>4. \A o \in todo : \E i \in PlayerId :
        m_new_rows[i] # Players!NoRow /\ m_rows[i] = Players!NoRow /\ m_new_rows[i] = o
  OBVIOUS
<1>5. /\ m_rows' = [i \in PlayerId |-> IF i \in moving THEN m_new_rows[i] ELSE m_rows[i]]
      /\ m_new_rows' = [i \in PlayerId |-> IF i \in moving THEN Players!NoRow ELSE m_new_rows[i]]
      /\ UNCHANGED <<m_removed_rows, created>>
  BY DEF Players!FetchNewRows
<1>6. MapsOK'
  BY <1>5 DEF MapsOK
<1> QED  BY <1>1, <1>3, <1>4, <1>5, <1>6

LEMMA RestartDoes ==
  ASSUME RowsOK, DiskOK, Players!Restart
  PROVE  /\ MapsOK' <=> created' \in 0..MaxRows
         /\ RowsOK' /\ SaversOK' /\ DiskOK' /\ SameIds
         /\ \A i \in PlayerId :
              /\ m_rows'[i] = disk[i].obj
              /\ m_new_rows'[i] = Players!NoRow /\ m_removed_rows'[i] = Players!NoRow
         /\ \A s \in Saver : /\ saver'[s].pc = "idle" /\ saver'[s].todo = {}
                             /\ saver'[s].stmt = Players!NoStmt
<1>1. \A i \in PlayerId : /\ disk[i].obj \in Players!Obj \cup {Players!NoRow}
                          /\ disk[i].obj # Players!NoRow => disk[i].ver \in 0..MaxVer
  BY RecordFields DEF DiskOK
<1>2. MapsOK' <=> created' \in 0..MaxRows
  BY <1>1 DEF Players!Restart, MapsOK
<1> DEFINE Ver(o) == IF disk[row[o].id].obj = o THEN disk[row[o].id].ver ELSE 0
<1>3. ASSUME NEW o \in Players!Obj PROVE Ver(o) \in 0..MaxVer
  <2>1. row[o].id \in PlayerId /\ o # Players!NoRow
    BY RowFields, NoRowIsNone
  <2> QED  BY <1>1, <2>1, PlayerStoreAssumption
<1>4. row' = [o \in Players!Obj |-> Players!RowOf(row[o].id, {}, Ver(o))]
  BY DEF Players!Restart
<1> HIDE DEF Ver
<1>5. \A o \in Players!Obj : /\ Players!RowOf(row[o].id, {}, Ver(o)) \in Players!Row
                             /\ Players!RowOf(row[o].id, {}, Ver(o)).id = row[o].id
  BY <1>3, RowFields, RowOfType
<1>6. RowsOK' /\ SameIds
  BY <1>4, <1>5 DEF RowsOK, SameIds
<1>7. SaversOK' /\ \A s \in Saver : saver'[s] = Players!Resting("idle")
  BY RestingType DEF Players!Restart, SaversOK, Players!SaverPc
<1>8. DiskOK'
  BY DEF Players!Restart, DiskOK
<1>9. \A i \in PlayerId : /\ m_rows'[i] = disk[i].obj
                          /\ m_new_rows'[i] = Players!NoRow /\ m_removed_rows'[i] = Players!NoRow
  BY DEF Players!Restart
<1>10. \A s \in Saver : /\ saver'[s].pc = "idle" /\ saver'[s].todo = {}
                        /\ saver'[s].stmt = Players!NoStmt
  BY <1>7, RestingType DEF Players!SaverPc
<1> QED  BY <1>2, <1>6, <1>7, <1>8, <1>9, <1>10

(***************************************************************************)
(* The table, whatever overlaps.  Nothing is ever removed from it, so an   *)
(* id keeps its row until the next start, and the saves have at hand only  *)
(* what stands in m_rows.                                                  *)
(***************************************************************************)

RowsStand ==
  \A i \in PlayerId :
    /\ m_rows[i] # Players!NoRow => m_rows[i] <= created /\ row[m_rows[i]].id = i
    /\ m_new_rows[i] # Players!NoRow => m_new_rows[i] <= created /\ row[m_new_rows[i]].id = i

\* What a save has yet to look at, or to execute.
AtHand(s, o) == o \in saver[s].todo \/ o = saver[s].stmt.obj

AtHandStand == \A s \in Saver, o \in Players!Obj : AtHand(s, o) => m_rows[row[o].id] = o

RecordsStand == \A i \in PlayerId : disk[i].obj # Players!NoRow => m_rows[i] = disk[i].obj

NothingRemoved == \A i \in PlayerId : m_removed_rows[i] = Players!NoRow

Stands == RowsStand /\ AtHandStand /\ RecordsStand /\ NothingRemoved

\* The steps of the table that the store takes.
TableStep(s) ==
  \/ \E how \in Players!How : Players!StartSave(s, how)
  \/ /\ Players!SaveReturns(s)
     /\ UNCHANGED <<m_rows, m_new_rows, m_removed_rows, row, created, disk, failed, late, overlap>>
  \/ Players!FetchRemoved(s) \/ Players!ResetRemoved(s) \/ Players!FetchRows(s)
  \/ Players!SaveData(s) \/ Players!Exec(s) \/ Players!FetchNewRows(s) \/ Players!EndSave(s)

\* A save goes on, or a row is changed: the maps and the records stay.
LEMMA StandsStays ==
  ASSUME TableOK, Stands, TableOK', SameIds,
         UNCHANGED <<m_rows, m_new_rows, created, disk>>, NothingRemoved',
         \A s \in Saver, o \in Players!Obj :
           AtHand(s, o)' => AtHand(s, o) \/ \E i \in PlayerId : m_rows[i] = o
  PROVE  Stands'
<1>1. \A i \in PlayerId : /\ m_rows[i] # Players!NoRow => m_rows[i] \in Players!Obj
                          /\ m_new_rows[i] # Players!NoRow => m_new_rows[i] \in Players!Obj
  BY DEF TableOK, MapsOK
<1>2. RowsStand' /\ RecordsStand'
  BY <1>1 DEF Stands, RowsStand, RecordsStand, SameIds
<1>3. AtHandStand'
  <2> SUFFICES ASSUME NEW s \in Saver, NEW o \in Players!Obj, AtHand(s, o)'
               PROVE  m_rows[row[o].id] = o
    BY DEF AtHandStand, SameIds
  <2>1. CASE AtHand(s, o)
    BY <2>1 DEF Stands, AtHandStand
  <2>2. CASE \E i \in PlayerId : m_rows[i] = o
    BY <2>2, NoRowIsNone DEF Stands, RowsStand
  <2> QED  BY <2>1, <2>2
<1> QED  BY <1>2, <1>3 DEF Stands

LEMMA AddRowStands ==
  ASSUME TableOK, Stands, NEW i \in PlayerId, Players!AddRow(i)
  PROVE  TableOK' /\ Stands'
<1>1. /\ MapsOK' /\ RowsOK' /\ created + 1 \in Players!Obj /\ created' = created + 1
      /\ m_new_rows' = [m_new_rows EXCEPT ![i] = created + 1]
      /\ row'[created + 1].id = i
      /\ \A o \in Players!Obj \ {created + 1} : row'[o] = row[o]
  BY AddRowDoes DEF TableOK
<1>2. UNCHANGED <<m_rows, m_removed_rows, saver, disk, failed, late>>
  BY DEF Players!AddRow
<1>3. TableOK'
  BY <1>1, <1>2 DEF TableOK, SaversOK, DiskOK
<1>4. created \in Nat
  BY PlayerStoreAssumption DEF TableOK, MapsOK
<1>5. ASSUME NEW o \in Players!Obj, o <= created PROVE row'[o] = row[o] /\ o <= created'
  BY <1>1, <1>4, <1>5, NoRowIsNone
<1>6. RowsStand'
  <2> SUFFICES ASSUME NEW j \in PlayerId
               PROVE  /\ m_rows[j] # Players!NoRow
                           => m_rows[j] <= created' /\ row'[m_rows[j]].id = j
                      /\ m_new_rows'[j] # Players!NoRow
                           => m_new_rows'[j] <= created' /\ row'[m_new_rows'[j]].id = j
    BY <1>2 DEF RowsStand
  <2>1. /\ m_rows[j] # Players!NoRow => m_rows[j] \in Players!Obj
        /\ m_new_rows[j] # Players!NoRow => m_new_rows[j] \in Players!Obj
        /\ m_new_rows'[j] = IF j = i THEN created + 1 ELSE m_new_rows[j]
    BY <1>1 DEF TableOK, MapsOK
  <2> QED  BY <1>1, <1>4, <1>5, <2>1 DEF Stands, RowsStand
<1>7. AtHandStand'
  <2> SUFFICES ASSUME NEW s \in Saver, NEW o \in Players!Obj, AtHand(s, o)
               PROVE  m_rows[row'[o].id] = o
    BY <1>2 DEF AtHandStand, AtHand
  <2>1. m_rows[row[o].id] = o /\ row[o].id \in PlayerId
    BY RowFields DEF Stands, AtHandStand, TableOK
  <2>2. o <= created
    BY <2>1, NoRowIsNone DEF Stands, RowsStand
  <2> QED  BY <1>5, <2>1, <2>2
<1> QED  BY <1>2, <1>3, <1>6, <1>7 DEF Stands, RecordsStand, NothingRemoved

LEMMA SetStands ==
  ASSUME TableOK, Stands, NEW o \in Players!Obj, Players!Set(o)
  PROVE  TableOK' /\ Stands'
<1>1. RowsOK' /\ SameIds
  BY SetDoes DEF TableOK
<1>2. UNCHANGED <<m_rows, m_new_rows, m_removed_rows, created, saver, disk, failed, late>>
  BY DEF Players!Set, Players!tableVars
<1>3. TableOK'
  BY <1>1, <1>2 DEF TableOK, MapsOK, SaversOK, DiskOK
<1>4. \A s \in Saver, p \in Players!Obj : AtHand(s, p)' => AtHand(s, p)
  BY <1>2 DEF AtHand
<1>5. NothingRemoved'
  BY <1>2 DEF Stands, NothingRemoved
<1> QED  BY <1>1, <1>2, <1>3, <1>4, <1>5, StandsStays

\* A save that has less at hand, or takes rows from m_rows.
LEMMA SaverStands ==
  ASSUME TableOK, Stands, NEW s \in Saver, SaversOK', RowsOK', SameIds, NothingRemoved', MapsOK',
         UNCHANGED <<m_rows, m_new_rows, created, disk, failed, late>>,
         \A t \in Saver \ {s} : saver'[t] = saver[t],
         \A o \in Players!Obj :
           AtHand(s, o)' => AtHand(s, o) \/ \E i \in PlayerId : m_rows[i] = o
  PROVE  TableOK' /\ Stands'
<1>1. TableOK'
  BY DEF TableOK, DiskOK
<1>2. \A t \in Saver, o \in Players!Obj :
        AtHand(t, o)' => AtHand(t, o) \/ \E i \in PlayerId : m_rows[i] = o
  BY DEF AtHand
<1> QED  BY <1>1, <1>2, StandsStays

\* The steps of a save at which nothing is executed and no row changes its map.
LEMMA QuietStepStands ==
  ASSUME TableOK, Stands, NEW s \in Saver, TableStep(s), ~ Players!Exec(s), ~ Players!FetchNewRows(s)
  PROVE  TableOK' /\ Stands' /\ UNCHANGED <<m_rows, m_new_rows, created, disk>>
<1>0. /\ MapsOK /\ RowsOK /\ SaversOK
      /\ Players!NoRow \notin Players!Obj /\ Players!NoStmt.obj = Players!NoRow
  BY NoRowIsNone, NoStmtType DEF TableOK
<1>a. ASSUME UNCHANGED <<m_rows, m_new_rows, m_removed_rows, row, created, disk, failed, late>>,
             NEW place, NEW todo, NEW st, SaversOK', OnlySaver(s, place, todo, st),
             \A o \in Players!Obj : o \in todo \/ o = st.obj
                                      => AtHand(s, o) \/ \E i \in PlayerId : m_rows[i] = o
      PROVE  TableOK' /\ Stands'
  <2>1. RowsOK' /\ SameIds /\ MapsOK' /\ NothingRemoved'
    BY <1>0, <1>a DEF RowsOK, SameIds, MapsOK, Stands, NothingRemoved
  <2>2. /\ \A t \in Saver \ {s} : saver'[t] = saver[t]
        /\ \A o \in Players!Obj : AtHand(s, o)' => AtHand(s, o) \/ \E i \in PlayerId : m_rows[i] = o
    BY <1>a DEF OnlySaver, AtHand
  <2> QED  BY <1>a, <2>1, <2>2, SaverStands
<1>1. ASSUME NEW how \in Players!How, Players!StartSave(s, how)
      PROVE  TableOK' /\ Stands' /\ UNCHANGED <<m_rows, m_new_rows, created, disk>>
  <2>1. SaversOK' /\ OnlySaver(s, "before", {}, Players!NoStmt)
    BY <1>0, <1>1, StartSaveDoes
  <2>2. UNCHANGED <<m_rows, m_new_rows, m_removed_rows, row, created, disk, failed, late>>
    BY <1>1 DEF Players!StartSave, Players!tableVars
  <2> QED  BY <1>0, <1>a, <2>1, <2>2
<1>2. ASSUME Players!SaveReturns(s),
             UNCHANGED <<m_rows, m_new_rows, m_removed_rows, row, created, disk, failed, late>>
      PROVE  TableOK' /\ Stands' /\ UNCHANGED <<m_rows, m_new_rows, created, disk>>
  <2>1. PICK place \in Players!RestPc :
          SaversOK' /\ OnlySaver(s, place, {}, Players!NoStmt)
    BY <1>0, <1>2, SaveReturnsDoes
  <2> QED  BY <1>0, <1>2, <1>a, <2>1
<1>3. CASE Players!FetchRemoved(s)
  <2>1. Players!In(m_removed_rows) = {}
    BY DEF Stands, NothingRemoved, Players!In
  <2>2. Players!Goes(s, "deleting", {})
    BY <1>3, <2>1 DEF Players!FetchRemoved
  <2>3. SaversOK' /\ OnlySaver(s, "deleting", {}, saver[s].stmt)
    BY <1>0, <2>2, GoesDoes DEF Players!SaverPc
  <2>4. UNCHANGED <<m_rows, m_new_rows, m_removed_rows, row, created, disk, failed, late>>
    BY <1>3 DEF Players!FetchRemoved, Players!tableVars
  <2> QED  BY <1>a, <2>3, <2>4 DEF AtHand
<1>4. CASE Players!ResetRemoved(s)
  <2>1. SaversOK' /\ OnlySaver(s, "fetch", {}, saver[s].stmt)
    BY <1>0, <1>4, GoesDoes DEF Players!ResetRemoved, Players!SaverPc
  <2>2. UNCHANGED <<m_rows, m_new_rows, row, created, disk, failed, late>>
    BY <1>4 DEF Players!ResetRemoved
  <2>3. NothingRemoved' /\ MapsOK' /\ RowsOK' /\ SameIds
    BY <1>0, <1>4, <2>2 DEF Players!ResetRemoved, NothingRemoved, MapsOK, RowsOK, SameIds
  <2>4. /\ \A t \in Saver \ {s} : saver'[t] = saver[t]
        /\ \A o \in Players!Obj : AtHand(s, o)' => AtHand(s, o)
    BY <2>1 DEF OnlySaver, AtHand
  <2> QED  BY <2>1, <2>2, <2>3, <2>4, SaverStands
<1>5. CASE Players!FetchRows(s)
  <2>1. Players!Goes(s, "rows", Players!In(m_rows)) /\ Players!In(m_rows) \in SUBSET Players!Obj
    BY <1>0, <1>5, InType DEF Players!FetchRows, MapsOK
  <2>2. SaversOK' /\ OnlySaver(s, "rows", Players!In(m_rows), saver[s].stmt)
    BY <1>0, <2>1, GoesDoes DEF Players!SaverPc
  <2>3. UNCHANGED <<m_rows, m_new_rows, m_removed_rows, row, created, disk, failed, late>>
    BY <1>5 DEF Players!FetchRows, Players!tableVars
  <2>4. \A o \in Players!In(m_rows) : \E i \in PlayerId : m_rows[i] = o
    BY DEF Players!In
  <2> QED  BY <1>a, <2>2, <2>3, <2>4 DEF AtHand
<1>6. CASE Players!SaveData(s)
  <2>1. PICK o \in saver[s].todo, st \in Players!Stmt :
          /\ OnlySaver(s, saver[s].pc, saver[s].todo \ {o}, st)
          /\ st.obj \in {o, Players!NoRow}
    BY <1>0, <1>6, SaveDataDoes
  <2>2. UNCHANGED <<m_rows, m_new_rows, m_removed_rows, created, disk, failed, late>>
    BY <1>6 DEF Players!SaveData, Players!tableVars
  <2>3. SaversOK' /\ RowsOK' /\ SameIds /\ MapsOK' /\ NothingRemoved'
    BY <1>0, <1>6, <2>2, SaveDataDoes DEF MapsOK, Stands, NothingRemoved
  <2>4. /\ \A t \in Saver \ {s} : saver'[t] = saver[t]
        /\ \A p \in Players!Obj : AtHand(s, p)' => AtHand(s, p)
    BY <1>0, <2>1 DEF OnlySaver, AtHand
  <2> QED  BY <2>1, <2>2, <2>3, <2>4, SaverStands
<1>7. CASE Players!EndSave(s)
  BY <1>2, <1>7 DEF Players!EndSave, Players!tableVars
<1> QED  BY <1>1, <1>2, <1>3, <1>4, <1>5, <1>6, <1>7 DEF TableStep

LEMMA ExecStands ==
  ASSUME TableOK, Stands, NEW s \in Saver, Players!Exec(s)
  PROVE  /\ TableOK' /\ Stands' /\ UNCHANGED <<m_rows, m_new_rows, created>>
         /\ \A i \in PlayerId : disk[i].obj # Players!NoRow => disk'[i].obj = disk[i].obj
         /\ \A i \in PlayerId : disk'[i].obj # Players!NoRow => m_rows[i] # Players!NoRow
<1> DEFINE st == saver[s].stmt
           i == row[st.obj].id
<1>1. /\ SaversOK' /\ DiskOK' /\ st.obj \in Players!Obj /\ i \in PlayerId
      /\ OnlySaver(s, saver[s].pc, saver[s].todo, Players!NoStmt)
      /\ \A j \in PlayerId : disk'[j] = disk[j] \/ (j = i /\ disk'[j].obj = st.obj)
  BY ExecDoes DEF TableOK
<1>2. UNCHANGED <<m_rows, m_new_rows, m_removed_rows, row, created>>
  BY DEF Players!Exec, Players!tableVars
<1>3. m_rows[i] = st.obj /\ st.obj # Players!NoRow
  BY <1>1, NoRowIsNone DEF Stands, AtHandStand, AtHand
<1>4. TableOK'
  BY <1>1, <1>2 DEF TableOK, MapsOK, RowsOK
<1>5. \A t \in Saver, o \in Players!Obj : AtHand(t, o)' => AtHand(t, o)
  BY <1>1, NoRowIsNone, NoStmtType DEF AtHand, OnlySaver
<1>6. RowsStand' /\ AtHandStand' /\ NothingRemoved'
  BY <1>2, <1>5 DEF Stands, RowsStand, AtHandStand, NothingRemoved
<1>7. RecordsStand'
  BY <1>1, <1>2, <1>3 DEF Stands, RecordsStand
<1>8. \A j \in PlayerId : disk[j].obj # Players!NoRow => disk'[j].obj = disk[j].obj
  BY <1>1, <1>3 DEF Stands, RecordsStand
<1> QED  BY <1>2, <1>4, <1>6, <1>7, <1>8 DEF Stands, RecordsStand

LEMMA FetchNewRowsStands ==
  ASSUME TableOK, Stands, NEW s \in Saver, Players!FetchNewRows(s)
  PROVE  /\ TableOK' /\ Stands' /\ UNCHANGED <<created, disk>>
         /\ \A i \in PlayerId : Players!GetRow(i)' = Players!GetRow(i)
<1> DEFINE Moves(i) == m_new_rows[i] # Players!NoRow /\ m_rows[i] = Players!NoRow
<1>1. /\ MapsOK' /\ SaversOK'
      /\ \A i \in PlayerId :
           /\ m_rows'[i] = IF Moves(i) THEN m_new_rows[i] ELSE m_rows[i]
           /\ m_new_rows'[i] = IF Moves(i) THEN Players!NoRow ELSE m_new_rows[i]
  BY FetchNewRowsDoes DEF TableOK
<1>2. PICK todo \in SUBSET Players!Obj :
        /\ OnlySaver(s, "new", todo, Players!NoStmt)
        /\ \A o \in todo : \E i \in PlayerId : Moves(i) /\ m_new_rows[i] = o
  BY FetchNewRowsDoes DEF TableOK
<1>3. UNCHANGED <<m_removed_rows, row, created, disk, failed, late>>
  BY DEF Players!FetchNewRows
<1>4. TableOK'
  BY <1>1, <1>3 DEF TableOK, RowsOK, DiskOK
<1>5. RowsStand' /\ RecordsStand' /\ NothingRemoved'
  BY <1>1, <1>3 DEF Stands, RowsStand, RecordsStand, NothingRemoved
<1>6. AtHandStand'
  <2> SUFFICES ASSUME NEW t \in Saver, NEW o \in Players!Obj, AtHand(t, o)'
               PROVE  m_rows'[row[o].id] = o
    BY <1>3 DEF AtHandStand
  <2>1. CASE AtHand(t, o)
    <3>1. m_rows[row[o].id] = o /\ o # Players!NoRow /\ row[o].id \in PlayerId
      BY <2>1, NoRowIsNone, RowFields DEF Stands, AtHandStand, TableOK
    <3> QED  BY <1>1, <3>1
  <2>2. CASE ~ AtHand(t, o)
    <3>1. PICK i \in PlayerId : Moves(i) /\ m_new_rows[i] = o
      BY <1>2, <2>2, NoRowIsNone, NoStmtType DEF AtHand, OnlySaver
    <3> QED  BY <1>1, <3>1 DEF Stands, RowsStand
  <2> QED  BY <2>1, <2>2
<1>7. \A i \in PlayerId : Players!GetRow(i)' = Players!GetRow(i)
  BY <1>1 DEF Players!GetRow
<1> QED  BY <1>3, <1>4, <1>5, <1>6, <1>7 DEF Stands

LEMMA RestartStands ==
  ASSUME TableOK, Stands, Players!Restart
  PROVE  /\ TableOK' /\ Stands' /\ UNCHANGED disk
         /\ \A i \in PlayerId : Players!GetRow(i)' = disk[i].obj
<1>1. /\ RowsOK' /\ SaversOK' /\ DiskOK' /\ (MapsOK' <=> created' \in 0..MaxRows)
      /\ \A i \in PlayerId : /\ m_rows'[i] = disk[i].obj
                             /\ m_new_rows'[i] = Players!NoRow /\ m_removed_rows'[i] = Players!NoRow
      /\ SameIds
      /\ \A s \in Saver : saver'[s].todo = {} /\ saver'[s].stmt = Players!NoStmt
  BY RestartDoes DEF TableOK
<1>2. UNCHANGED <<created, disk>>
  BY DEF Players!Restart
<1>3. TableOK'
  BY <1>1, <1>2 DEF TableOK, MapsOK
<1>4. \A i \in PlayerId : m_rows[i] # Players!NoRow => m_rows[i] \in Players!Obj
  BY DEF TableOK, MapsOK
<1>5. RowsStand' /\ RecordsStand' /\ NothingRemoved'
  BY <1>1, <1>2, <1>4 DEF Stands, RowsStand, RecordsStand, NothingRemoved, SameIds
<1>6. AtHandStand'
  BY <1>1, NoRowIsNone, NoStmtType DEF AtHandStand, AtHand
<1>7. \A i \in PlayerId : Players!GetRow(i)' = disk[i].obj
  BY <1>1 DEF Players!GetRow
<1> QED  BY <1>2, <1>3, <1>5, <1>6, <1>7 DEF Stands

(***************************************************************************)
(* What a step of a save does to the places of the saves.                  *)
(***************************************************************************)

SavesOn(s) ==
  \/ Players!ResetRemoved(s) \/ Players!FetchRows(s) \/ Players!SaveData(s)
  \/ Players!Exec(s) \/ Players!FetchNewRows(s) \/ Players!EndSave(s)

LEMMA SavesGoOn ==
  ASSUME TableOK, NEW s \in Saver, SavesOn(s)
  PROVE  /\ \A t \in Saver \ {s} : saver'[t] = saver[t]
         /\ Players!Saving(s)' => Players!Saving(s)
         /\ saver[s].pc = "before" => saver'[s].pc = "before"
         /\ overlap' = overlap
<1>0. MapsOK /\ RowsOK /\ SaversOK /\ DiskOK
  BY DEF TableOK
<1>1. CASE Players!ResetRemoved(s)
  <2>1. OnlySaver(s, "fetch", {}, saver[s].stmt) /\ saver[s].pc = "deleting"
    BY <1>0, <1>1, GoesDoes DEF Players!ResetRemoved, Players!SaverPc
  <2> QED  BY <1>1, <2>1 DEF OnlySaver, Players!Saving, Players!ResetRemoved
<1>2. CASE Players!FetchRows(s)
  <2>1. Players!In(m_rows) \in SUBSET Players!Obj
    BY <1>0, InType DEF MapsOK
  <2>2. OnlySaver(s, "rows", Players!In(m_rows), saver[s].stmt) /\ saver[s].pc = "fetch"
    BY <1>0, <1>2, <2>1, GoesDoes DEF Players!FetchRows, Players!SaverPc
  <2> QED  BY <1>2, <2>2 DEF OnlySaver, Players!Saving, Players!FetchRows
<1>3. CASE Players!SaveData(s)
  <2>1. PICK todo, st : OnlySaver(s, saver[s].pc, todo, st)
    BY <1>0, <1>3, SaveDataDoes
  <2> QED  BY <1>3, <2>1 DEF OnlySaver, Players!Saving, Players!SaveData
<1>4. CASE Players!Exec(s)
  <2>1. OnlySaver(s, saver[s].pc, saver[s].todo, Players!NoStmt)
    BY <1>0, <1>4, ExecDoes
  <2> QED  BY <1>4, <2>1 DEF OnlySaver, Players!Saving, Players!Exec
<1>5. CASE Players!FetchNewRows(s)
  <2>1. PICK todo : OnlySaver(s, "new", todo, Players!NoStmt)
    BY <1>0, <1>5, FetchNewRowsDoes
  <2> QED  BY <1>5, <2>1 DEF OnlySaver, Players!Saving, Players!FetchNewRows
<1>6. CASE Players!EndSave(s)
  <2>1. PICK place \in Players!RestPc : OnlySaver(s, place, {}, Players!NoStmt)
    BY <1>0, <1>6, SaveReturnsDoes DEF Players!EndSave
  <2> QED  BY <1>6, <2>1 DEF OnlySaver, Players!Saving, Players!EndSave
<1> QED  BY <1>1, <1>2, <1>3, <1>4, <1>5, <1>6 DEF SavesOn

\* No step of a save gives an id another row, or a record another player.
LEMMA SavesKeepRows ==
  ASSUME TableOK, Stands, NEW s \in Saver, TableStep(s)
  PROVE  /\ TableOK' /\ Stands' /\ created' = created
         /\ \A i \in PlayerId : Players!GetRow(i)' = Players!GetRow(i)
         /\ \A i \in PlayerId : disk[i].obj # Players!NoRow => disk'[i].obj = disk[i].obj
<1>1. CASE Players!Exec(s)
  BY <1>1, ExecStands DEF Players!GetRow
<1>2. CASE Players!FetchNewRows(s)
  BY <1>2, FetchNewRowsStands
<1>3. CASE ~ Players!Exec(s) /\ ~ Players!FetchNewRows(s)
  BY <1>3, QuietStepStands DEF Players!GetRow
<1> QED  BY <1>1, <1>2, <1>3

(***************************************************************************)
(* Types of the store.                                                     *)
(***************************************************************************)

Counting == [pc : {"todo", "exec", "done"}, arg : 0..MaxPlayerId]
Creating == [pc : {"idle", "mark", "add", "map"}, id : PlayerId]

CounterOK ==
  /\ m_CurrentPlayerId \in 0..MaxPlayerId
  /\ CurrentPlayerId \in 0..MaxPlayerId
  /\ globalSave \in [Saver -> Counting]

PlayersOK ==
  /\ id2players \in [PlayerId -> Players!Obj \cup {Players!NoRow}]
  /\ creator \in Creating

FlagsOK ==
  /\ m_quit \in BOOLEAN /\ overlap \in BOOLEAN
  /\ m_CurrentPlayerId_changed \in BOOLEAN
  /\ behind \in BOOLEAN /\ globalFailed \in BOOLEAN

LEMMA TypeParts == TypeOK <=> TableOK /\ CounterOK /\ PlayersOK /\ FlagsOK
BY Zenon DEF TypeOK, Players!TypeOK, TableOK, MapsOK, RowsOK, SaversOK, Savers, DiskOK, CounterOK,
   Counting, PlayersOK, Creating, FlagsOK

LEMMA StartTypes == NotYet \in Counting /\ NoCreator \in Creating
BY PlayerStoreAssumption DEF NotYet, NoCreator, Counting, Creating, PlayerId

LEMMA TableInit == Players!Init => TableOK /\ Stands
<1> SUFFICES ASSUME Players!Init PROVE TableOK /\ Stands
  OBVIOUS
<1>1. MapsOK
  BY PlayerStoreAssumption DEF Players!Init, MapsOK
<1>2. (CHOOSE i \in PlayerId : TRUE) \in PlayerId
  BY PlayerStoreAssumption DEF PlayerId
<1>3. RowsOK
  BY <1>2, RowOfType, PlayerStoreAssumption DEF Players!Init, RowsOK
<1>4. SaversOK /\ \A s \in Saver : saver[s].todo = {} /\ saver[s].stmt = Players!NoStmt
  BY RestingType DEF Players!Init, SaversOK, Players!SaverPc
<1>5. DiskOK
  BY DEF Players!Init, DiskOK
<1>6. \A i \in PlayerId : disk[i].obj = Players!NoRow /\ m_rows[i] = Players!NoRow
                          /\ m_new_rows[i] = Players!NoRow /\ m_removed_rows[i] = Players!NoRow
  BY DEF Players!Init, Players!Nothing
<1>7. Stands
  BY <1>4, <1>6, NoRowIsNone, NoStmtType DEF Stands, RowsStand, AtHandStand, AtHand, RecordsStand,
     NothingRemoved
<1> QED  BY <1>1, <1>3, <1>4, <1>5, <1>7 DEF TableOK

LEMMA TypeInit == Init => TypeOK /\ Stands
<1> SUFFICES ASSUME Init PROVE TypeOK /\ Stands
  OBVIOUS
<1>1. TableOK /\ Stands
  BY TableInit DEF Init
<1>2. CounterOK /\ PlayersOK
  BY StartTypes, PlayerStoreAssumption DEF Init, CounterOK, PlayersOK
<1>3. FlagsOK
  BY Zenon DEF Init, Players!Init, FlagsOK
<1> QED  BY <1>1, <1>2, <1>3, TypeParts

\* What the store's steps are to its table.
LEMMA StoreSteps ==
  ASSUME Next
  PROVE  \/ UNCHANGED tableVars
         \/ creator.pc = "add" /\ Players!AddRow(creator.id)
         \/ \E i \in PlayerId : id2players[i] # Players!NoRow /\ Players!Set(id2players[i])
         \/ \E s \in Saver : TableStep(s)
         \/ Players!Restart
<1>1. ASSUME NEW s \in Saver, StartSave(s) PROVE TableStep(s)
  BY <1>1 DEF StartSave, TableStep, Players!How
<1>2. ASSUME NEW s \in Saver, ExecGlobal(s) PROVE UNCHANGED tableVars \/ TableStep(s)
  BY <1>2 DEF ExecGlobal, TableStep
<1>3. ASSUME NEW s \in Saver, SavePlayers(s) \/ SavePlayersStep(s) PROVE TableStep(s)
  BY <1>3, Zenon DEF SavePlayers, SavePlayersStep, TableStep
<1>4. CASE NextPlayerId \/ MarkChanged \/ AddPlayerRow \/ Add2IdMap
  BY <1>4, Zenon DEF NextPlayerId, MarkChanged, AddPlayerRow, Add2IdMap
<1>5. ASSUME NEW s \in Saver, SaveGlobalData(s) PROVE UNCHANGED tableVars
  BY <1>5, Zenon DEF SaveGlobalData
<1>6. ASSUME NEW i \in PlayerId, SetPlayer(i)
      PROVE  id2players[i] # Players!NoRow /\ Players!Set(id2players[i])
  BY <1>6 DEF SetPlayer
<1> QED  BY <1>1, <1>2, <1>3, <1>4, <1>5, <1>6, Zenon DEF Next, Restart

LEMMA TableKept ==
  ASSUME TableOK, Stands, PlayersOK, [Next]_vars PROVE TableOK' /\ Stands'
<1>1. CASE UNCHANGED tableVars
  <2>1. TableOK'
    BY <1>1 DEF tableVars, TableOK, MapsOK, RowsOK, SaversOK, DiskOK
  <2>2. Stands'
    BY <1>1 DEF tableVars, Stands, RowsStand, AtHandStand, AtHand, RecordsStand, NothingRemoved
  <2> QED  BY <2>1, <2>2
<1>2. CASE Players!AddRow(creator.id)
  BY <1>2, AddRowStands DEF PlayersOK, Creating
<1>3. ASSUME NEW i \in PlayerId, id2players[i] # Players!NoRow, Players!Set(id2players[i])
      PROVE  TableOK' /\ Stands'
  BY <1>3, SetStands DEF PlayersOK
<1>4. ASSUME NEW s \in Saver, TableStep(s) PROVE TableOK' /\ Stands'
  BY <1>4, SavesKeepRows
<1>5. CASE Players!Restart
  BY <1>5, RestartStands
<1>6. CASE UNCHANGED vars
  BY <1>1, <1>6 DEF vars, tableVars
<1> QED  BY <1>1, <1>2, <1>3, <1>4, <1>5, <1>6, StoreSteps

LEMMA CounterTypes == ASSUME TableOK, CounterOK, PlayersOK, [Next]_vars PROVE CounterOK' /\ PlayersOK'
<1>1. CASE NextPlayerId
  <2>1. m_CurrentPlayerId + 1 \in PlayerId
    BY <1>1, PlayerStoreAssumption DEF NextPlayerId, CounterOK, PlayerId
  <2> QED  BY <1>1, <2>1, PlayerStoreAssumption DEF NextPlayerId, CounterOK, PlayersOK, Creating,
              globalVars
<1>2. CASE MarkChanged
  BY <1>2 DEF MarkChanged, CounterOK, PlayersOK, Creating, globalVars
<1>3. CASE AddPlayerRow
  BY <1>3, StartTypes DEF AddPlayerRow, CounterOK, PlayersOK, Creating, counterVars, globalVars
<1>4. CASE Add2IdMap
  BY <1>4, StartTypes, NoRowIsNone DEF Add2IdMap, CounterOK, PlayersOK, TableOK, MapsOK, counterVars,
     globalVars, tableVars, Players!Obj, Creating
<1>5. ASSUME NEW i \in PlayerId, SetPlayer(i) PROVE CounterOK' /\ PlayersOK'
  BY <1>5 DEF SetPlayer, CounterOK, PlayersOK, counterVars, globalVars, playerVars
<1>6. ASSUME NEW s \in Saver, StartSave(s) \/ SavePlayersStep(s) PROVE CounterOK' /\ PlayersOK'
  BY <1>6 DEF StartSave, SavePlayersStep, CounterOK, PlayersOK, counterVars, globalVars, playerVars
<1>7. ASSUME NEW s \in Saver, SaveGlobalData(s) PROVE CounterOK' /\ PlayersOK'
  BY <1>7, PlayerStoreAssumption DEF SaveGlobalData, CounterOK, PlayersOK, Counting, playerVars
<1>8. ASSUME NEW s \in Saver, ExecGlobal(s) PROVE CounterOK' /\ PlayersOK'
  <2>1. globalSave[s].arg \in 0..MaxPlayerId
    BY DEF CounterOK, Counting
  <2> QED  BY <1>8, <2>1, StartTypes, PlayerStoreAssumption
              DEF ExecGlobal, CounterOK, PlayersOK, Counting, counterVars, playerVars
<1>9. ASSUME NEW s \in Saver, SavePlayers(s) PROVE CounterOK' /\ PlayersOK'
  BY <1>9, StartTypes DEF SavePlayers, CounterOK, PlayersOK, counterVars, playerVars
<1>10. CASE Restart
  <2>1. \A i \in PlayerId : disk[i].obj \in Players!Obj \cup {Players!NoRow}
    BY RecordFields DEF TableOK, DiskOK
  <2> QED  BY <1>10, <2>1, StartTypes DEF Restart, CounterOK, PlayersOK
<1>11. CASE UNCHANGED vars
  BY <1>11 DEF vars, CounterOK, PlayersOK
<1> QED  BY <1>1, <1>2, <1>3, <1>4, <1>5, <1>6, <1>7, <1>8, <1>9, <1>10, <1>11 DEF Next

LEMMA FlagTypes == ASSUME FlagsOK, [Next]_vars PROVE FlagsOK'
<1>1. m_quit' \in BOOLEAN /\ overlap' \in BOOLEAN
  BY Zenon DEF FlagsOK, Next, NextPlayerId, MarkChanged, AddPlayerRow, Add2IdMap, SetPlayer, StartSave,
     SaveGlobalData, ExecGlobal, SavePlayers, SavePlayersStep, Restart, vars, tableVars,
     Players!AddRow, Players!Set, Players!StartSave, Players!FetchRemoved, Players!ResetRemoved,
     Players!FetchRows, Players!SaveData, Players!Exec, Players!FetchNewRows, Players!EndSave,
     Players!SaveReturns, Players!Restart
<1>2. m_CurrentPlayerId_changed' \in BOOLEAN
  BY Zenon DEF FlagsOK, Next, NextPlayerId, MarkChanged, AddPlayerRow, Add2IdMap, SetPlayer, StartSave,
     SaveGlobalData, ExecGlobal, SavePlayers, SavePlayersStep, Restart, vars, counterVars
<1>3. behind' \in BOOLEAN /\ globalFailed' \in BOOLEAN
  BY Zenon DEF FlagsOK, Next, NextPlayerId, MarkChanged, AddPlayerRow, Add2IdMap, SetPlayer, StartSave,
     SaveGlobalData, ExecGlobal, SavePlayers, SavePlayersStep, Restart, vars, globalVars
<1> QED  BY <1>1, <1>2, <1>3 DEF FlagsOK

LEMMA TypeStep == TypeOK /\ Stands /\ [Next]_vars => TypeOK' /\ Stands'
<1> SUFFICES ASSUME TypeOK, Stands, [Next]_vars PROVE TypeOK' /\ Stands'
  OBVIOUS
<1>1. TableOK /\ CounterOK /\ PlayersOK /\ FlagsOK
  BY TypeParts
<1>2. TableOK' /\ Stands' /\ CounterOK' /\ PlayersOK' /\ FlagsOK'
  BY <1>1, TableKept, CounterTypes, FlagTypes
<1>3. TypeOK'
  BY <1>2, Zenon DEF TypeOK, Players!TypeOK, TableOK, MapsOK, RowsOK, SaversOK, Savers, DiskOK,
     CounterOK, Counting, PlayersOK, Creating, FlagsOK
<1> QED  BY <1>2, <1>3

(***************************************************************************)
(* Who has a row.  As long as the counter was not behind at the start, an  *)
(* id that is yet to be issued has none, so that the row the creator adds  *)
(* is the one that is found.                                               *)
(***************************************************************************)

\* The id has been issued, and its row added.
Issued(i) == i <= m_CurrentPlayerId /\ ~ (creator.pc \in {"mark", "add"} /\ creator.id = i)

RowsAreIssued == behind \/ \A i \in PlayerId : Players!GetRow(i) # Players!NoRow => Issued(i)

CreatorIsCounted == creator.pc \in {"mark", "add"} => creator.id <= m_CurrentPlayerId

AddedIsFound == behind \/ (creator.pc = "map" => Players!GetRow(creator.id) = created)

StoreInv == RowsAreIssued /\ CreatorIsCounted /\ AddedIsFound /\ PlayersHaveTheirRows

Same == \A i \in PlayerId : Players!GetRow(i)' = Players!GetRow(i)

LEMMA StoreStays ==
  ASSUME PlayersOK, StoreInv, Same,
         UNCHANGED <<created, m_CurrentPlayerId, id2players, creator, behind>>
  PROVE  StoreInv'
<1>1. creator.id \in PlayerId
  BY DEF PlayersOK, Creating
<1>2. RowsAreIssued' /\ CreatorIsCounted'
  BY DEF StoreInv, RowsAreIssued, CreatorIsCounted, Issued, Same
<1>3. AddedIsFound' /\ PlayersHaveTheirRows'
  BY <1>1 DEF StoreInv, AddedIsFound, PlayersHaveTheirRows, Same
<1> QED  BY <1>2, <1>3 DEF StoreInv

\* The creator goes on, and the table stays.
LEMMA CreatorGoesOn ==
  ASSUME TableOK, CounterOK, PlayersOK, StoreInv, UNCHANGED tableVars,
         NextPlayerId \/ MarkChanged \/ Add2IdMap
  PROVE  StoreInv'
<1>0. Same /\ UNCHANGED <<created, behind>>
  BY DEF tableVars, Same, Players!GetRow, NextPlayerId, MarkChanged, Add2IdMap
<1>a. /\ creator \in Creating /\ creator.id \in PlayerId /\ m_CurrentPlayerId \in Nat
      /\ PlayerId \subseteq Nat
  BY PlayerStoreAssumption DEF PlayersOK, Creating, CounterOK, PlayerId
<1>1. CASE NextPlayerId
  <2>1. /\ m_CurrentPlayerId' = m_CurrentPlayerId + 1 /\ id2players' = id2players
        /\ creator'.pc = "mark" /\ creator'.id = m_CurrentPlayerId + 1
    BY <1>1 DEF NextPlayerId
  <2>2. RowsAreIssued' /\ CreatorIsCounted'
    BY <1>0, <1>a, <2>1 DEF StoreInv, RowsAreIssued, CreatorIsCounted, Issued, Same
  <2>3. AddedIsFound' /\ PlayersHaveTheirRows'
    BY <1>0, <2>1 DEF StoreInv, AddedIsFound, PlayersHaveTheirRows, Same
  <2> QED  BY <2>2, <2>3 DEF StoreInv
<1>2. CASE MarkChanged
  <2>1. /\ UNCHANGED <<m_CurrentPlayerId, id2players>> /\ creator.pc = "mark"
        /\ creator'.pc = "add" /\ creator'.id = creator.id
    BY <1>a, <1>2 DEF MarkChanged, Creating
  <2>2. RowsAreIssued' /\ CreatorIsCounted'
    BY <1>0, <2>1 DEF StoreInv, RowsAreIssued, CreatorIsCounted, Issued, Same
  <2>3. AddedIsFound' /\ PlayersHaveTheirRows'
    BY <1>0, <2>1 DEF StoreInv, AddedIsFound, PlayersHaveTheirRows, Same
  <2> QED  BY <2>2, <2>3 DEF StoreInv
<1>3. CASE Add2IdMap
  <2>1. /\ UNCHANGED m_CurrentPlayerId /\ creator.pc = "map" /\ creator'.pc = "idle"
        /\ id2players'[creator.id] = created
        /\ \A i \in PlayerId \ {creator.id} : id2players'[i] = id2players[i]
    BY <1>a, <1>3 DEF Add2IdMap, NoCreator, counterVars, PlayersOK
  <2>2. RowsAreIssued' /\ CreatorIsCounted' /\ AddedIsFound'
    BY <1>0, <2>1 DEF StoreInv, RowsAreIssued, CreatorIsCounted, AddedIsFound, Issued, Same
  <2>3. PlayersHaveTheirRows'
    BY <1>0, <1>a, <2>1 DEF StoreInv, AddedIsFound, PlayersHaveTheirRows, Same
  <2> QED  BY <2>2, <2>3 DEF StoreInv
<1> QED  BY <1>1, <1>2, <1>3

LEMMA AddPlayerRowKeeps ==
  ASSUME TableOK, CounterOK, PlayersOK, StoreInv, AddPlayerRow PROVE StoreInv'
<1>0. /\ creator.id \in PlayerId /\ creator.pc = "add"
      /\ UNCHANGED <<m_CurrentPlayerId, id2players, behind>>
  BY DEF PlayersOK, Creating, AddPlayerRow, counterVars
<1>1. CASE creator' = NoCreator /\ UNCHANGED tableVars
  <2>1. Same /\ creator'.pc = "idle"
    BY <1>1 DEF tableVars, Same, Players!GetRow, NoCreator
  <2> QED  BY <1>0, <2>1 DEF StoreInv, RowsAreIssued, CreatorIsCounted, AddedIsFound, Issued, Same,
              PlayersHaveTheirRows
<1>2. CASE Players!AddRow(creator.id) /\ creator' = [creator EXCEPT !.pc = "map"]
  <2>1. /\ m_new_rows' = [m_new_rows EXCEPT ![creator.id] = created + 1]
        /\ created' = created + 1 /\ created + 1 # Players!NoRow
        /\ m_new_rows[creator.id] = Players!NoRow /\ m_rows' = m_rows
    BY <1>0, <1>2, AddRowDoes, NoRowIsNone DEF TableOK, Players!AddRow
  <2>2. creator'.pc = "map" /\ creator'.id = creator.id
    BY <1>2 DEF PlayersOK, Creating
  <2>3. \A i \in PlayerId \ {creator.id} : Players!GetRow(i)' = Players!GetRow(i)
    BY <2>1 DEF Players!GetRow, TableOK, MapsOK
  <2>4. CASE behind
    BY <1>0, <2>2, <2>4 DEF StoreInv, RowsAreIssued, CreatorIsCounted, AddedIsFound,
       PlayersHaveTheirRows
  <2>5. CASE ~ behind
    <3>1. Players!GetRow(creator.id) = Players!NoRow
      BY <1>0, <2>5 DEF StoreInv, RowsAreIssued, Issued
    <3>2. Players!GetRow(creator.id)' = created + 1
      BY <1>0, <2>1, <2>2, <3>1 DEF Players!GetRow, TableOK, MapsOK
    <3>3. RowsAreIssued' /\ CreatorIsCounted' /\ AddedIsFound'
      BY <1>0, <2>1, <2>2, <2>3, <3>2 DEF StoreInv, RowsAreIssued, CreatorIsCounted, AddedIsFound,
         Issued
    <3>4. PlayersHaveTheirRows'
      BY <1>0, <2>3, <2>5, <3>1 DEF StoreInv, PlayersHaveTheirRows
    <3> QED  BY <3>3, <3>4 DEF StoreInv
  <2> QED  BY <2>4, <2>5
<1> QED  BY <1>1, <1>2 DEF AddPlayerRow

LEMMA RestartKeeps ==
  ASSUME TableOK, Stands, CounterOK, Restart PROVE StoreInv'
<1>1. /\ \A i \in PlayerId : Players!GetRow(i)' = disk[i].obj /\ id2players'[i] = disk[i].obj
      /\ m_CurrentPlayerId' = CurrentPlayerId /\ creator'.pc = "idle"
      /\ behind' = \E i \in PlayerId : disk[i] # Players!Nothing /\ i > CurrentPlayerId
  BY RestartStands DEF Restart, NoCreator
<1>2. \A i \in PlayerId : disk[i] = Players!Nothing <=> disk[i].obj = Players!NoRow
  BY RecordFields DEF TableOK, DiskOK
<1>3. CurrentPlayerId \in Nat /\ PlayerId \subseteq Nat
  BY PlayerStoreAssumption DEF CounterOK, PlayerId
<1>4. RowsAreIssued' /\ CreatorIsCounted' /\ AddedIsFound'
  BY <1>1, <1>2, <1>3 DEF RowsAreIssued, CreatorIsCounted, AddedIsFound, Issued
<1>5. PlayersHaveTheirRows'
  BY <1>1 DEF PlayersHaveTheirRows
<1> QED  BY <1>4, <1>5 DEF StoreInv

LEMMA StoreInvStep ==
  ASSUME TypeOK, Stands, StoreInv, [Next]_vars PROVE StoreInv'
<1>0. TableOK /\ CounterOK /\ PlayersOK
  BY TypeParts
<1>1. CASE NextPlayerId \/ MarkChanged \/ Add2IdMap
  BY <1>0, <1>1, CreatorGoesOn DEF NextPlayerId, MarkChanged, Add2IdMap
<1>2. ASSUME NEW i \in PlayerId, SetPlayer(i) PROVE StoreInv'
  <2>1. UNCHANGED <<m_rows, m_new_rows, created, m_CurrentPlayerId, id2players, creator, behind>>
    BY <1>2 DEF SetPlayer, Players!Set, Players!tableVars, counterVars, playerVars
  <2> QED  BY <1>0, <2>1, StoreStays DEF Same, Players!GetRow
<1>3. ASSUME NEW s \in Saver, StartSave(s) \/ ExecGlobal(s) \/ SavePlayers(s) \/ SavePlayersStep(s)
      PROVE  StoreInv'
  <2>1. UNCHANGED <<m_CurrentPlayerId, id2players, creator, behind>>
    BY <1>3 DEF StartSave, ExecGlobal, SavePlayers, SavePlayersStep, counterVars, playerVars
  <2>2. UNCHANGED tableVars \/ TableStep(s)
    BY <1>3, Zenon DEF StartSave, ExecGlobal, SavePlayers, SavePlayersStep, TableStep, Players!How
  <2>3. Same /\ created' = created
    BY <1>0, <2>2, SavesKeepRows DEF Same, tableVars, Players!GetRow
  <2> QED  BY <1>0, <2>1, <2>3, StoreStays
<1>4. ASSUME NEW s \in Saver, SaveGlobalData(s) PROVE StoreInv'
  <2>1. UNCHANGED <<m_rows, m_new_rows, created, m_CurrentPlayerId, id2players, creator, behind>>
    BY <1>4 DEF SaveGlobalData, tableVars, playerVars
  <2> QED  BY <1>0, <2>1, StoreStays DEF Same, Players!GetRow
<1>5. CASE UNCHANGED vars
  <2>1. UNCHANGED <<m_rows, m_new_rows, created, m_CurrentPlayerId, id2players, creator, behind>>
    BY <1>5 DEF vars
  <2> QED  BY <1>0, <2>1, StoreStays DEF Same, Players!GetRow
<1> QED  BY <1>0, <1>1, <1>2, <1>3, <1>4, <1>5, AddPlayerRowKeeps, RestartKeeps DEF Next

LEMMA StoreInvInit == Init => StoreInv
<1> SUFFICES ASSUME Init PROVE StoreInv
  OBVIOUS
<1>1. \A i \in PlayerId : Players!GetRow(i) = Players!NoRow /\ id2players[i] = Players!NoRow
  BY DEF Init, Players!Init, Players!GetRow
<1>2. creator.pc = "idle"
  BY DEF Init, NoCreator
<1> QED  BY <1>1, <1>2 DEF StoreInv, RowsAreIssued, CreatorIsCounted, AddedIsFound,
            PlayersHaveTheirRows

(***************************************************************************)
(* The counter.  An id that was marked is on record, waits to be saved, or *)
(* is in a statement under way, unless one has failed; for only one save   *)
(* is at it at a time, and what it writes grows.                           *)
(***************************************************************************)

SavesInOrder == \A s \in Saver : globalSave[s].pc # "todo" => saver[s].pc = "before"

OneSaves == overlap \/ \A s, t \in Saver : Players!Saving(s) /\ Players!Saving(t) => s = t

CounterGrows ==
  /\ CurrentPlayerId <= m_CurrentPlayerId
  /\ \A s \in Saver : globalSave[s].pc = "exec" =>
       /\ globalSave[s].arg <= m_CurrentPlayerId
       /\ overlap \/ CurrentPlayerId <= globalSave[s].arg

Recorded(i) ==
  \/ i <= CurrentPlayerId
  \/ m_CurrentPlayerId_changed
  \/ \E s \in Saver : globalSave[s].pc = "exec" /\ globalSave[s].arg >= i

MarkedAreRecorded ==
  \/ globalFailed \/ overlap
  \/ \A i \in PlayerId :
       i <= m_CurrentPlayerId /\ ~ (creator.pc = "mark" /\ creator.id = i) => Recorded(i)

CountInv == SavesInOrder /\ OneSaves /\ CounterGrows /\ MarkedAreRecorded

LEMMA CountInvInit == Init => CountInv
<1> SUFFICES ASSUME Init PROVE CountInv
  OBVIOUS
<1>1. /\ m_CurrentPlayerId = 0 /\ CurrentPlayerId = 0
      /\ \A s \in Saver : globalSave[s].pc = "todo" /\ saver[s].pc = "idle"
  BY RestingType DEF Init, Players!Init, NotYet, Players!SaverPc
<1> QED  BY <1>1 DEF CountInv, SavesInOrder, OneSaves, Players!Saving, CounterGrows,
            MarkedAreRecorded, Recorded

\* The saves stay, or go on, and the counter stays.
LEMMA CounterStays ==
  ASSUME CountInv,
         UNCHANGED <<m_CurrentPlayerId, m_CurrentPlayerId_changed, CurrentPlayerId, globalSave,
                     globalFailed>>,
         creator' = creator \/ (creator.pc # "mark" /\ creator'.pc # "mark"),
         overlap => overlap', OneSaves',
         \A s \in Saver : saver[s].pc = "before" => saver'[s].pc = "before"
  PROVE  CountInv'
<1>1. SavesInOrder' /\ CounterGrows'
  BY DEF CountInv, SavesInOrder, CounterGrows
<1>2. MarkedAreRecorded'
  BY DEF CountInv, MarkedAreRecorded, Recorded
<1> QED  BY <1>1, <1>2 DEF CountInv

\* One saver goes on within its save; the others stay.
LEMMA OneStillSaves ==
  ASSUME OneSaves, overlap' = overlap, NEW s \in Saver,
         \A t \in Saver \ {s} : saver'[t] = saver[t], Players!Saving(s)' => Players!Saving(s)
  PROVE  OneSaves'
<1>1. \A t \in Saver : Players!Saving(t)' => Players!Saving(t)
  BY DEF Players!Saving
<1> QED  BY <1>1 DEF OneSaves

LEMMA SaversStay ==
  ASSUME OneSaves, UNCHANGED <<saver, overlap>>
  PROVE  OneSaves' /\ \A s \in Saver : saver[s].pc = "before" => saver'[s].pc = "before"
BY DEF OneSaves, Players!Saving

LEMMA CreatorKeepsCount ==
  ASSUME TypeOK, CountInv, NextPlayerId \/ MarkChanged \/ AddPlayerRow \/ Add2IdMap
  PROVE  CountInv'
<1>0. /\ UNCHANGED <<saver, overlap, CurrentPlayerId, globalSave, globalFailed>>
      /\ OneSaves' /\ SavesInOrder'
  <2>1. UNCHANGED <<saver, overlap, CurrentPlayerId, globalSave, globalFailed>>
    BY DEF NextPlayerId, MarkChanged, AddPlayerRow, Add2IdMap, Players!AddRow, tableVars, globalVars
  <2> QED  BY <2>1, SaversStay DEF CountInv, SavesInOrder
<1>a. /\ CurrentPlayerId \in Nat /\ m_CurrentPlayerId \in Nat /\ PlayerId \subseteq Nat
      /\ \A s \in Saver : globalSave[s].arg \in Nat
      /\ creator \in Creating
  BY TypeParts, PlayerStoreAssumption DEF CounterOK, Counting, PlayersOK, PlayerId
<1>1. CASE NextPlayerId
  <2>1. /\ m_CurrentPlayerId' = m_CurrentPlayerId + 1 /\ creator.pc = "idle"
        /\ creator'.pc = "mark" /\ creator'.id = m_CurrentPlayerId + 1
        /\ m_CurrentPlayerId_changed' = m_CurrentPlayerId_changed
    BY <1>1 DEF NextPlayerId
  <2>2. CounterGrows'
    BY <1>0, <1>a, <2>1 DEF CountInv, CounterGrows
  <2>3. MarkedAreRecorded'
    BY <1>0, <1>a, <2>1 DEF CountInv, MarkedAreRecorded, Recorded
  <2> QED  BY <1>0, <2>2, <2>3 DEF CountInv
<1>2. CASE MarkChanged
  BY <1>0, <1>2 DEF MarkChanged, CountInv, CounterGrows, MarkedAreRecorded, Recorded
<1>3. CASE AddPlayerRow \/ Add2IdMap
  <2>1. /\ creator.pc # "mark" /\ creator'.pc # "mark"
        /\ UNCHANGED <<m_CurrentPlayerId, m_CurrentPlayerId_changed>>
    BY <1>3, <1>a DEF AddPlayerRow, Add2IdMap, counterVars, NoCreator, Creating
  <2> QED  BY <1>0, <2>1, CounterStays
<1> QED  BY <1>1, <1>2, <1>3

LEMMA SaverKeepsCount ==
  ASSUME TypeOK, CountInv, NEW s \in Saver,
         StartSave(s) \/ SavePlayers(s) \/ SavePlayersStep(s)
  PROVE  CountInv'
<1>0. SaversOK /\ TableOK /\ globalSave \in [Saver -> Counting] /\ CountInv
  BY TypeParts DEF CounterOK, TableOK
<1>1. UNCHANGED <<m_CurrentPlayerId, m_CurrentPlayerId_changed, CurrentPlayerId, globalFailed, creator>>
  BY DEF StartSave, SavePlayers, SavePlayersStep, counterVars, globalVars, playerVars
<1>2. CASE StartSave(s)
  <2>1. /\ OnlySaver(s, "before", {}, Players!NoStmt) /\ globalSave' = globalSave
        /\ overlap' = (overlap \/ \E t \in Saver \ {s} : Players!Saving(t))
    <3>1. PICK how \in Players!How : Players!StartSave(s, how)
      BY <1>2 DEF StartSave, Players!How
    <3> QED  BY <1>0, <1>2, <3>1, StartSaveDoes DEF StartSave, globalVars, Players!StartSave
  <2>2. OneSaves'
    BY <1>0, <2>1 DEF CountInv, OneSaves, OnlySaver, Players!Saving
  <2> QED  BY <1>1, <2>1, <2>2, CounterStays DEF OnlySaver
<1>3. CASE SavePlayers(s)
  <2>1. PICK todo : OnlySaver(s, "deleting", todo, saver[s].stmt)
    <3>1. Players!In(m_removed_rows) \in SUBSET Players!Obj
      BY <1>0, InType DEF TableOK, MapsOK
    <3> QED  BY <1>0, <1>3, <3>1, GoesDoes DEF SavePlayers, Players!FetchRemoved, Players!SaverPc
  <2>2. saver[s].pc = "before" /\ overlap' = overlap /\ globalSave[s].pc = "done"
    BY <1>3 DEF SavePlayers, Players!FetchRemoved
  <2>3. globalSave'[s].pc = "todo" /\ \A t \in Saver \ {s} : globalSave'[t] = globalSave[t]
    BY <1>0, <1>3 DEF SavePlayers, NotYet
  <2>4. OneSaves'
    BY <1>0, <2>1, <2>2, OneStillSaves DEF CountInv, OnlySaver, Players!Saving
  <2>5. SavesInOrder'
    BY <1>0, <2>1, <2>3 DEF CountInv, SavesInOrder, OnlySaver
  <2>6. \A t \in Saver : /\ globalSave[t].pc = "exec" => globalSave'[t] = globalSave[t]
                         /\ globalSave'[t].pc = "exec" => globalSave'[t] = globalSave[t]
    BY <2>2, <2>3
  <2>7. CounterGrows'
    BY <1>0, <1>1, <2>2, <2>6 DEF CountInv, CounterGrows
  <2>8. MarkedAreRecorded'
    BY <1>0, <1>1, <2>2, <2>6 DEF CountInv, MarkedAreRecorded, Recorded
  <2> QED  BY <2>4, <2>5, <2>7, <2>8 DEF CountInv
<1>4. CASE SavePlayersStep(s)
  <2>1. globalSave' = globalSave /\ SavesOn(s)
    BY <1>4, Zenon DEF SavePlayersStep, SavesOn, globalVars
  <2>2. /\ \A t \in Saver \ {s} : saver'[t] = saver[t]
        /\ Players!Saving(s)' => Players!Saving(s)
        /\ saver[s].pc = "before" => saver'[s].pc = "before"
        /\ overlap' = overlap
    BY <1>0, <2>1, SavesGoOn
  <2>3. OneSaves'
    BY <2>2, OneStillSaves DEF CountInv
  <2> QED  BY <1>1, <2>1, <2>2, <2>3, CounterStays
<1> QED  BY <1>2, <1>3, <1>4

LEMMA SaveGlobalKeepsCount ==
  ASSUME TypeOK, CountInv, NEW s \in Saver, SaveGlobalData(s)
  PROVE  CountInv'
<1>0. /\ globalSave \in [Saver -> Counting] /\ CurrentPlayerId \in Nat /\ m_CurrentPlayerId \in Nat
      /\ PlayerId \subseteq Nat
  BY TypeParts, PlayerStoreAssumption DEF CounterOK, PlayerId
<1>1. /\ UNCHANGED <<saver, overlap, m_CurrentPlayerId, CurrentPlayerId, globalFailed, creator>>
      /\ saver[s].pc = "before" /\ globalSave[s].pc = "todo" /\ m_CurrentPlayerId_changed' = FALSE
  BY DEF SaveGlobalData, tableVars, playerVars
<1>2. /\ m_CurrentPlayerId_changed =>
           globalSave'[s].pc = "exec" /\ globalSave'[s].arg = m_CurrentPlayerId
      /\ ~ m_CurrentPlayerId_changed => globalSave'[s].pc = "done"
      /\ \A t \in Saver \ {s} : globalSave'[t] = globalSave[t]
  BY <1>0 DEF SaveGlobalData
<1>3. OneSaves' /\ SavesInOrder'
  BY <1>1, <1>2, SaversStay DEF CountInv, SavesInOrder
<1>4. CounterGrows'
  BY <1>0, <1>1, <1>2 DEF CountInv, CounterGrows
<1>5. MarkedAreRecorded'
  <2> SUFFICES ASSUME ~ globalFailed, ~ overlap, NEW i \in PlayerId, i <= m_CurrentPlayerId,
                      ~ (creator.pc = "mark" /\ creator.id = i)
               PROVE  Recorded(i)'
    BY <1>1 DEF MarkedAreRecorded
  <2>1. Recorded(i)
    BY DEF CountInv, MarkedAreRecorded
  <2>2. CASE m_CurrentPlayerId_changed
    BY <1>0, <1>2, <2>2 DEF Recorded
  <2>3. CASE ~ m_CurrentPlayerId_changed
    BY <1>1, <1>2, <2>1, <2>3 DEF Recorded
  <2> QED  BY <2>2, <2>3
<1> QED  BY <1>3, <1>4, <1>5 DEF CountInv

LEMMA ExecGlobalKeepsCount ==
  ASSUME TypeOK, CountInv, NEW s \in Saver, ExecGlobal(s)
  PROVE  CountInv'
<1>0. /\ globalSave \in [Saver -> Counting] /\ SaversOK
      /\ CurrentPlayerId \in Nat /\ m_CurrentPlayerId \in Nat /\ PlayerId \subseteq Nat
      /\ \A t \in Saver : globalSave[t].arg \in Nat
  BY TypeParts, PlayerStoreAssumption DEF CounterOK, Counting, PlayerId, TableOK
<1>1. /\ UNCHANGED <<overlap, m_CurrentPlayerId, m_CurrentPlayerId_changed, creator>>
      /\ globalSave[s].pc = "exec"
  BY DEF ExecGlobal, tableVars, counterVars, playerVars
<1>a. /\ globalSave'[s].pc \in {"done", "todo"}
      /\ \A t \in Saver \ {s} : globalSave'[t] = globalSave[t]
  BY <1>0 DEF ExecGlobal, NotYet
<1>2. CASE /\ CurrentPlayerId' = globalSave[s].arg
           /\ globalSave' = [globalSave EXCEPT ![s] = [pc |-> "done", arg |-> 0]]
           /\ UNCHANGED <<tableVars, globalFailed>>
  <2>1. OneSaves' /\ SavesInOrder'
    BY <1>1, <1>2, <1>a, SaversStay DEF CountInv, SavesInOrder, tableVars
  <2>2. ASSUME ~ overlap, NEW t \in Saver, globalSave[t].pc = "exec" PROVE t = s
    BY <1>1, <2>2 DEF CountInv, SavesInOrder, OneSaves, Players!Saving
  <2>3. CounterGrows'
    BY <1>0, <1>1, <1>2, <1>a, <2>2 DEF CountInv, CounterGrows
  <2>4. MarkedAreRecorded'
    <3> SUFFICES ASSUME ~ globalFailed, ~ overlap, NEW i \in PlayerId, i <= m_CurrentPlayerId,
                        ~ (creator.pc = "mark" /\ creator.id = i)
                 PROVE  Recorded(i)'
      BY <1>1, <1>2 DEF MarkedAreRecorded
    <3>1. Recorded(i) /\ CurrentPlayerId <= globalSave[s].arg
      BY <1>1 DEF CountInv, MarkedAreRecorded, CounterGrows
    <3>2. i <= globalSave[s].arg \/ m_CurrentPlayerId_changed
      BY <1>0, <2>2, <3>1 DEF Recorded
    <3> QED  BY <1>1, <1>2, <3>2 DEF Recorded
  <2> QED  BY <2>1, <2>3, <2>4 DEF CountInv
<1>3. CASE /\ globalFailed' = TRUE /\ CurrentPlayerId' = CurrentPlayerId
           /\ globalSave' = [globalSave EXCEPT ![s] = NotYet]
           /\ Players!SaveReturns(s)
  <2>1. PICK place \in Players!RestPc : OnlySaver(s, place, {}, Players!NoStmt)
    BY <1>0, <1>3, SaveReturnsDoes
  <2>2. OneSaves'
    BY <1>1, <2>1, OneStillSaves DEF CountInv, OnlySaver, Players!Saving
  <2>3. globalSave'[s].pc = "todo"
    BY <1>0, <1>3 DEF NotYet
  <2>4. SavesInOrder'
    BY <1>a, <2>1, <2>3 DEF CountInv, SavesInOrder, OnlySaver
  <2>5. CounterGrows'
    BY <1>1, <1>3, <1>a, <2>3 DEF CountInv, CounterGrows
  <2> QED  BY <1>3, <2>2, <2>4, <2>5 DEF CountInv, MarkedAreRecorded
<1> QED  BY <1>2, <1>3 DEF ExecGlobal

LEMMA CountInvStep ==
  ASSUME TypeOK, CountInv, [Next]_vars PROVE CountInv'
<1>1. ASSUME NEW i \in PlayerId, SetPlayer(i) PROVE CountInv'
  <2>1. UNCHANGED <<saver, overlap, m_CurrentPlayerId, m_CurrentPlayerId_changed, CurrentPlayerId,
                    globalSave, globalFailed, creator>>
    BY <1>1 DEF SetPlayer, Players!Set, counterVars, globalVars, playerVars
  <2> QED  BY <2>1, CounterStays, SaversStay DEF CountInv
<1>2. CASE UNCHANGED vars
  <2>1. UNCHANGED <<saver, overlap, m_CurrentPlayerId, m_CurrentPlayerId_changed, CurrentPlayerId,
                    globalSave, globalFailed, creator>>
    BY <1>2 DEF vars
  <2> QED  BY <2>1, CounterStays, SaversStay DEF CountInv
<1>3. CASE Restart
  <2>1. /\ m_CurrentPlayerId' = CurrentPlayerId /\ CurrentPlayerId' = CurrentPlayerId
        /\ \A s \in Saver : globalSave'[s].pc = "todo" /\ saver'[s].pc = "idle"
    BY <1>3, RestartDoes, TypeParts DEF TableOK, Restart, NotYet
  <2>2. CurrentPlayerId \in Nat
    BY TypeParts, PlayerStoreAssumption DEF CounterOK
  <2> QED  BY <2>1, <2>2 DEF CountInv, SavesInOrder, OneSaves, Players!Saving, CounterGrows,
              MarkedAreRecorded, Recorded
<1> QED  BY <1>1, <1>2, <1>3, CreatorKeepsCount, SaverKeepsCount, SaveGlobalKeepsCount,
            ExecGlobalKeepsCount DEF Next

(***************************************************************************)
(* The theorems.                                                           *)
(***************************************************************************)

Inv == TypeOK /\ Stands /\ StoreInv /\ CountInv

LEMMA InvHolds == Spec => []Inv
<1>1. Init => Inv
  BY TypeInit, StoreInvInit, CountInvInit DEF Inv
<1>2. Inv /\ [Next]_vars => Inv'
  BY TypeStep, StoreInvStep, CountInvStep DEF Inv
<1> QED  BY <1>1, <1>2, PTL DEF Spec

\* The counter (a_db_ext.go), the Players table (a_db_tables.go) and the id map of
\* player_mgr (player_manager.go) have their types.
THEOREM TypeCorrect == Spec => []TypeOK
<1>1. Inv => TypeOK
  BY DEF Inv
<1> QED  BY <1>1, InvHolds, PTL

\* Unless the server came up with the counter behind the players, the row player_mgr has
\* of a player is the one DBC.Save saves under his id.
THEOREM RowsCorrect == Spec => []PlayersHaveTheirRows
<1>1. Inv => PlayersHaveTheirRows
  BY DEF Inv, StoreInv
<1> QED  BY <1>1, InvHolds, PTL

\* A saved player whose id the counter's record has yet to reach has a counter that
\* waits to be saved, or is in a statement: for Save takes Global before Players.
THEOREM CounterCorrect == Spec => []CounterCatchesUp
<1>1. Inv => CounterCatchesUp
  <2> SUFFICES ASSUME Inv, ~ behind, ~ globalFailed, ~ overlap, NEW i \in PlayerId,
                      disk[i] # Players!Nothing, i > CurrentPlayerId
               PROVE  \/ m_CurrentPlayerId_changed
                      \/ \E s \in Saver : globalSave[s].pc = "exec" /\ globalSave[s].arg >= i
    BY DEF CounterCatchesUp
  <2>1. disk[i].obj # Players!NoRow
    BY TypeParts, RecordFields DEF Inv, TableOK, DiskOK
  <2>2. Players!GetRow(i) # Players!NoRow
    BY <2>1 DEF Inv, Stands, RecordsStand, Players!GetRow
  <2>3. Issued(i)
    BY <2>2 DEF Inv, StoreInv, RowsAreIssued
  <2>4. Recorded(i)
    BY <2>3 DEF Inv, CountInv, MarkedAreRecorded, Issued
  <2>5. CurrentPlayerId \in Nat /\ i \in Nat
    BY TypeParts, PlayerStoreAssumption DEF Inv, CounterOK, PlayerId
  <2> QED  BY <2>4, <2>5 DEF Recorded
<1> QED  BY <1>1, InvHolds, PTL

\* No statement of a save gives the record of a player to another one, saves that
\* overlap, statements that fail and ids that are issued twice notwithstanding.
THEOREM SavedPlayersCorrect == Spec => SavedPlayerStays
<1>1. Inv /\ [Next]_vars =>
        [\A i \in PlayerId : disk[i] # Players!Nothing => disk'[i].obj = disk[i].obj]_vars
  <2> SUFFICES ASSUME Inv, Next, NEW i \in PlayerId, disk[i] # Players!Nothing
               PROVE  disk'[i].obj = disk[i].obj
    OBVIOUS
  <2>1. TableOK /\ Stands /\ disk[i].obj # Players!NoRow
    BY TypeParts, RecordFields DEF Inv, TableOK, DiskOK
  <2>2. ASSUME NEW s \in Saver, TableStep(s) PROVE disk'[i].obj = disk[i].obj
    BY <2>1, <2>2, SavesKeepRows
  <2>3. CASE \/ UNCHANGED tableVars \/ Players!AddRow(creator.id) \/ Players!Restart
             \/ \E j \in PlayerId : Players!Set(id2players[j])
    BY <2>3 DEF tableVars, Players!AddRow, Players!Restart, Players!Set
  <2> QED  BY <2>2, <2>3, StoreSteps
<1> QED  BY <1>1, InvHolds, PTL DEF Spec, SavedPlayerStays
=============================================================================
