---------------------------- MODULE DbTable_proofs ----------------------------
(***************************************************************************)
(* A table of the database cache: types, what is clean is on record, what  *)
(* is removed goes, no record goes back; for any ids, rows and changes.    *)
(***************************************************************************)
EXTENDS DbTable, TLAPS

\* The places of a saver at rest are four names, known to every step.
USE DEF RestPc

(***************************************************************************)
(* Types.                                                                  *)
(***************************************************************************)

MapsOK ==
  /\ m_rows \in [Id -> Obj \cup {NoRow}]
  /\ m_new_rows \in [Id -> Obj \cup {NoRow}]
  /\ m_removed_rows \in [Id -> Obj \cup {NoRow}]
  /\ created \in 0..MaxRows

RowsOK == row \in [Obj -> Row]

SaversOK == saver \in [Saver -> [pc : SaverPc, how : How, todo : SUBSET Obj, stmt : Stmt]]

DiskOK ==
  /\ disk \in [Id -> Record \cup {Nothing}]
  /\ failed \in SUBSET Id
  /\ late \in SUBSET Id

FlagsOK == m_quit \in BOOLEAN /\ overlap \in BOOLEAN

LEMMA TypeParts == TypeOK <=> MapsOK /\ RowsOK /\ SaversOK /\ DiskOK /\ FlagsOK
BY Zenon DEF TypeOK, MapsOK, RowsOK, SaversOK, DiskOK, FlagsOK

LEMMA NoRowIsNone == NoRow = 0 /\ NoRow \notin Obj /\ Obj \subseteq Nat
BY DbTableAssumption DEF NoRow, Obj

LEMMA InType == ASSUME NEW map, map \in [Id -> Obj \cup {NoRow}] PROVE In(map) \subseteq Obj
BY DEF In

LEMMA RowOfType ==
  ASSUME NEW i \in Id, NEW flags \in SUBSET {"new", "changed"}, NEW v \in 0..MaxVer
  PROVE  /\ RowOf(i, flags, v) \in Row
         /\ RowOf(i, flags, v).id = i
         /\ RowOf(i, flags, v).flags = flags
         /\ RowOf(i, flags, v).ver = v
BY DEF RowOf, Row

LEMMA RowFields ==
  ASSUME RowsOK, NEW o \in Obj
  PROVE  row[o].id \in Id /\ row[o].flags \in SUBSET {"new", "changed"} /\ row[o].ver \in 0..MaxVer
BY DEF RowsOK, Row

LEMMA NoStmtType == NoStmt \in Stmt /\ NoStmt.obj = NoRow /\ NoStmt.kind = "none"
BY DEF NoStmt, Stmt

LEMMA StmtOfType ==
  ASSUME NEW kind \in {"insert", "update"}, NEW o \in Obj, NEW v \in 0..MaxVer
  PROVE  /\ StmtOf(kind, o, v) \in Stmt
         /\ StmtOf(kind, o, v).kind = kind
         /\ StmtOf(kind, o, v).obj = o
         /\ StmtOf(kind, o, v).ver = v
BY DEF StmtOf, Stmt

LEMMA StmtFields ==
  ASSUME NEW st \in Stmt
  PROVE  /\ st = NoStmt <=> st.obj = NoRow
         /\ st # NoStmt => st.obj \in Obj /\ st.kind \in {"insert", "update"} /\ st.ver \in 0..MaxVer
BY NoRowIsNone DEF Stmt, NoStmt

LEMMA RecordFields ==
  ASSUME NEW d \in Record \cup {Nothing}
  PROVE  /\ d = Nothing <=> d.obj = NoRow
         /\ d.obj \in Obj \cup {NoRow}
         /\ d.obj # NoRow => d.ver \in 0..MaxVer
BY NoRowIsNone DEF Record, Nothing

LEMMA RecordOfType ==
  ASSUME NEW o \in Obj, NEW v \in 0..MaxVer
  PROVE  RecordOf(o, v) \in Record /\ RecordOf(o, v).obj = o /\ RecordOf(o, v).ver = v
BY DEF RecordOf, Record

LEMMA SaverAtType ==
  ASSUME NEW place \in SaverPc, NEW how \in How, NEW todo \in SUBSET Obj, NEW st \in Stmt
  PROVE  /\ SaverAt(place, how, todo, st) \in [pc : SaverPc, how : How, todo : SUBSET Obj, stmt : Stmt]
         /\ SaverAt(place, how, todo, st).pc = place
         /\ SaverAt(place, how, todo, st).how = how
         /\ SaverAt(place, how, todo, st).todo = todo
         /\ SaverAt(place, how, todo, st).stmt = st
BY DEF SaverAt

LEMMA SaverFields ==
  ASSUME SaversOK, NEW s \in Saver
  PROVE  /\ saver[s].pc \in SaverPc /\ saver[s].how \in How
         /\ saver[s].todo \in SUBSET Obj /\ saver[s].stmt \in Stmt
BY DEF SaversOK

\* What a step of a saver does to it, field by field.
OnlySaver(s, place, how, todo, st) ==
  /\ saver'[s].pc = place
  /\ saver'[s].how = how
  /\ saver'[s].todo = todo
  /\ saver'[s].stmt = st
  /\ \A t \in Saver \ {s} : saver'[t] = saver[t]

LEMMA SaverReplaced ==
  ASSUME SaversOK, NEW s \in Saver,
         NEW place \in SaverPc, NEW how \in How, NEW todo \in SUBSET Obj, NEW st \in Stmt,
         saver' = [saver EXCEPT ![s] = SaverAt(place, how, todo, st)]
  PROVE  SaversOK' /\ OnlySaver(s, place, how, todo, st)
<1> DEFINE b == SaverAt(place, how, todo, st)
<1>0. /\ b \in [pc : SaverPc, how : How, todo : SUBSET Obj, stmt : Stmt]
      /\ b.pc = place /\ b.how = how /\ b.todo = todo /\ b.stmt = st
  BY SaverAtType
<1>1. saver' = [saver EXCEPT ![s] = b]
  OBVIOUS
<1> HIDE DEF b
<1>2. saver'[s] = b /\ \A t \in Saver \ {s} : saver'[t] = saver[t]
  BY <1>0, <1>1 DEF SaversOK
<1>3. SaversOK'
  BY <1>0, <1>1 DEF SaversOK
<1> QED  BY <1>0, <1>2, <1>3 DEF OnlySaver

LEMMA GoesDoes ==
  ASSUME SaversOK, NEW s \in Saver, NEW place \in SaverPc, NEW todo \in SUBSET Obj,
         Goes(s, place, todo)
  PROVE  SaversOK' /\ OnlySaver(s, place, saver[s].how, todo, saver[s].stmt)
<1>1. saver' = [saver EXCEPT ![s] = SaverAt(place, saver[s].how, todo, saver[s].stmt)]
  BY DEF Goes, SaversOK
<1> QED  BY <1>1, SaverFields, SaverReplaced

LEMMA RestingType ==
  ASSUME NEW place \in SaverPc
  PROVE  /\ Resting(place) \in [pc : SaverPc, how : How, todo : SUBSET Obj, stmt : Stmt]
         /\ Resting(place).pc = place /\ Resting(place).how = "plain"
         /\ Resting(place).todo = {} /\ Resting(place).stmt = NoStmt
BY SaverAtType, NoStmtType DEF Resting, How

LEMMA TypeInit == Init => TypeOK
<1> SUFFICES ASSUME Init PROVE MapsOK /\ RowsOK /\ SaversOK /\ DiskOK /\ FlagsOK
  BY TypeParts
<1>1. MapsOK /\ DiskOK
  BY DbTableAssumption DEF Init, MapsOK, DiskOK
<1>2. (CHOOSE i \in Id : TRUE) \in Id
  BY DbTableAssumption
<1>3. RowsOK
  BY <1>2, RowOfType, DbTableAssumption DEF Init, RowsOK
<1>4. SaversOK
  BY RestingType DEF Init, SaversOK, SaverPc
<1>5. FlagsOK
  BY Zenon DEF Init, FlagsOK
<1> QED  BY <1>1, <1>3, <1>4, <1>5

(***************************************************************************)
(* What each step does, in the fields the invariants speak of.             *)
(***************************************************************************)

LEMMA GetRowType == ASSUME MapsOK, NEW i \in Id, GetRow(i) # NoRow PROVE GetRow(i) \in Obj
BY DEF MapsOK, GetRow

LEMMA AddRowDoes ==
  ASSUME MapsOK, RowsOK, NEW i \in Id, AddRow(i)
  PROVE  /\ MapsOK' /\ RowsOK'
         /\ created + 1 \in Obj /\ created' = created + 1
         /\ m_new_rows' = [m_new_rows EXCEPT ![i] = created + 1]
         /\ row'[created + 1].id = i /\ row'[created + 1].flags = {"new", "changed"}
         /\ \A o \in Obj \ {created + 1} : row'[o] = row[o]
<1>1. created + 1 \in Obj /\ created' = created + 1
  BY DbTableAssumption DEF AddRow, MapsOK, Obj
<1> DEFINE r == RowOf(i, {"new", "changed"}, 0)
<1>2. r \in Row /\ r.id = i /\ r.flags = {"new", "changed"}
  BY RowOfType, DbTableAssumption
<1>a. row' = [row EXCEPT ![created + 1] = r]
  BY DEF AddRow
<1> HIDE DEF r
<1>3. RowsOK' /\ row'[created + 1] = r /\ \A o \in Obj \ {created + 1} : row'[o] = row[o]
  BY <1>1, <1>2, <1>a DEF RowsOK
<1>4. MapsOK'
  BY <1>1, DbTableAssumption DEF AddRow, MapsOK
<1> QED  BY <1>1, <1>2, <1>3, <1>4 DEF AddRow

LEMMA SetDoes ==
  ASSUME RowsOK, NEW o \in Obj, Set(o)
  PROVE  /\ RowsOK'
         /\ row'[o].id = row[o].id /\ row'[o].flags = row[o].flags \cup {"changed"}
         /\ row'[o].ver = row[o].ver + 1
         /\ \A p \in Obj \ {o} : row'[p] = row[p]
<1> DEFINE r == RowOf(row[o].id, row[o].flags \cup {"changed"}, row[o].ver + 1)
<1>1. row' = [row EXCEPT ![o] = r]
  BY DEF Set, RowsOK
<1>2. /\ r \in Row /\ r.id = row[o].id /\ r.flags = row[o].flags \cup {"changed"}
      /\ r.ver = row[o].ver + 1
  <2>1. row[o].ver + 1 \in 0..MaxVer
    BY RowFields, DbTableAssumption DEF Set
  <2> QED  BY <2>1, RowFields, RowOfType
<1> HIDE DEF r
<1> QED  BY <1>1, <1>2 DEF RowsOK

LEMMA SaveDataDoes ==
  ASSUME RowsOK, SaversOK, NEW s \in Saver, SaveData(s)
  PROVE  /\ SaversOK' /\ RowsOK'
         /\ \E o \in saver[s].todo, st \in Stmt :
              /\ OnlySaver(s, saver[s].pc, saver[s].how, saver[s].todo \ {o}, st)
              /\ row[o].flags = {} => st = NoStmt
              /\ row[o].flags # {} =>
                   /\ st.obj = o /\ st.ver = row[o].ver
                   /\ st.kind = IF "new" \in row[o].flags THEN "insert" ELSE "update"
              /\ row'[o].id = row[o].id /\ row'[o].flags = {} /\ row'[o].ver = row[o].ver
              /\ \A p \in Obj \ {o} : row'[p] = row[p]
<1>1. PICK o \in saver[s].todo :
        /\ saver' = [saver EXCEPT ![s] =
             SaverAt(@.pc, @.how, @.todo \ {o}, IF row[o].flags = {} THEN NoStmt ELSE Saved(o))]
        /\ row' = [row EXCEPT ![o] = RowOf(@.id, {}, @.ver)]
  BY DEF SaveData
<1>2. o \in Obj
  BY SaverFields
<1>3. PICK st \in Stmt :
        /\ st = IF row[o].flags = {} THEN NoStmt ELSE Saved(o)
        /\ row[o].flags = {} => st = NoStmt
        /\ row[o].flags # {} =>
             /\ st.obj = o /\ st.ver = row[o].ver
             /\ st.kind = IF "new" \in row[o].flags THEN "insert" ELSE "update"
  BY <1>2, NoStmtType, StmtOfType, RowFields DEF Saved
<1>4. SaversOK' /\ OnlySaver(s, saver[s].pc, saver[s].how, saver[s].todo \ {o}, st)
  <2>1. saver' = [saver EXCEPT ![s] = SaverAt(saver[s].pc, saver[s].how, saver[s].todo \ {o}, st)]
    BY <1>1, <1>3 DEF SaversOK
  <2> QED  BY <2>1, SaverFields, SaverReplaced
<1> DEFINE r == RowOf(row[o].id, {}, row[o].ver)
<1>5. row' = [row EXCEPT ![o] = r]
  BY <1>1, <1>2 DEF RowsOK
<1>a. r \in Row /\ r.id = row[o].id /\ r.flags = {} /\ r.ver = row[o].ver
  BY <1>2, RowFields, RowOfType
<1> HIDE DEF r
<1>6. RowsOK' /\ row'[o] = r /\ \A p \in Obj \ {o} : row'[p] = row[p]
  BY <1>2, <1>5, <1>a DEF RowsOK
<1> QED  BY <1>3, <1>4, <1>a, <1>6

LEMMA DeleteDoes ==
  ASSUME RowsOK, SaversOK, DiskOK, NEW s \in Saver, Delete(s)
  PROVE  /\ SaversOK' /\ DiskOK' /\ saver[s].pc = "deleting"
         /\ \E o \in saver[s].todo :
              /\ row[o].id \in Id
              /\ OnlySaver(s, "deleting", saver[s].how, saver[s].todo \ {o}, saver[s].stmt)
              /\ \/ /\ disk'[row[o].id] = Nothing
                    /\ \A i \in Id \ {row[o].id} : disk'[i] = disk[i]
                    /\ failed' = failed
                 \/ disk' = disk /\ failed' = failed \cup {row[o].id}
<1>1. PICK o \in saver[s].todo :
        /\ Goes(s, "deleting", saver[s].todo \ {o})
        /\ \/ disk' = [disk EXCEPT ![row[o].id] = Nothing] /\ failed' = failed
           \/ failed' = failed \cup {row[o].id} /\ disk' = disk
  BY Zenon DEF Delete
<1>2. row[o].id \in Id
  BY SaverFields, RowFields
<1>3. SaversOK' /\ OnlySaver(s, "deleting", saver[s].how, saver[s].todo \ {o}, saver[s].stmt)
  BY <1>1, SaverFields, GoesDoes DEF SaverPc
<1>4. DiskOK'
  BY <1>1, <1>2 DEF Delete, DiskOK
<1>5. \/ /\ disk'[row[o].id] = Nothing
         /\ \A i \in Id \ {row[o].id} : disk'[i] = disk[i]
         /\ failed' = failed
      \/ disk' = disk /\ failed' = failed \cup {row[o].id}
  BY <1>1, <1>2 DEF DiskOK
<1> QED  BY <1>2, <1>3, <1>4, <1>5 DEF Delete

LEMMA ExecDoes ==
  ASSUME RowsOK, SaversOK, DiskOK, NEW s \in Saver, Exec(s)
  PROVE  LET st == saver[s].stmt
             i == row[st.obj].id IN
         /\ SaversOK' /\ DiskOK'
         /\ st.obj \in Obj /\ i \in Id
         /\ OnlySaver(s, saver[s].pc, saver[s].how, saver[s].todo, NoStmt)
         /\ \/ disk' = disk /\ failed' = failed \cup {i}
            \/ /\ failed' = failed
               /\ \A j \in Id \ {i} : disk'[j] = disk[j]
               /\ \/ /\ st.kind = "insert" /\ disk[i].obj = NoRow
                     /\ disk'[i].obj = st.obj /\ disk'[i].ver = st.ver
                  \/ /\ st.kind = "update" /\ disk[i].obj # NoRow
                     /\ disk'[i].obj = st.obj /\ disk'[i].ver = st.ver
                  \/ /\ st.kind = "update" /\ disk[i].obj = NoRow
                     /\ disk'[i] = disk[i]
<1> DEFINE st == saver[s].stmt
           i == row[st.obj].id
<1>1. /\ st \in Stmt /\ st # NoStmt /\ st.obj \in Obj /\ st.kind \in {"insert", "update"}
      /\ st.ver \in 0..MaxVer /\ i \in Id
  BY SaverFields, StmtFields, RowFields DEF Exec
<1>2. SaversOK' /\ OnlySaver(s, saver[s].pc, saver[s].how, saver[s].todo, NoStmt)
  <2>1. saver' = [saver EXCEPT ![s] = SaverAt(saver[s].pc, saver[s].how, saver[s].todo, NoStmt)]
    BY DEF Exec, SaversOK
  <2> QED  BY <2>1, SaverFields, SaverReplaced, NoStmtType
<1>3. disk[i] \in Record \cup {Nothing}
  BY <1>1 DEF DiskOK
<1>4. CASE disk' = disk /\ failed' = failed \cup {i}
  BY <1>1, <1>2, <1>4 DEF Exec, DiskOK
<1>5. CASE /\ st.kind = "insert" => disk[i] = Nothing
           /\ disk' = Executed(st)
           /\ failed' = failed
  <2>1. PICK d \in Record \cup {Nothing} :
          /\ disk' = [disk EXCEPT ![i] = d]
          /\ d = IF (st.kind = "insert") = (disk[i] = Nothing)
                 THEN RecordOf(st.obj, st.ver) ELSE disk[i]
    BY <1>1, <1>3, <1>5, RecordOfType DEF Executed, DiskOK
  <2>a. late' = late
    BY DEF Exec
  <2>2. disk'[i] = d /\ \A j \in Id \ {i} : disk'[j] = disk[j]
    BY <1>1, <2>1 DEF DiskOK
  <2>b. DiskOK'
    <3>1. disk' \in [Id -> Record \cup {Nothing}]
      BY <2>1 DEF DiskOK
    <3> QED  BY <1>5, <2>a, <3>1 DEF DiskOK
  <2>3. \/ st.kind = "insert" /\ disk[i] = Nothing /\ d = RecordOf(st.obj, st.ver)
        \/ st.kind = "update" /\ disk[i] # Nothing /\ d = RecordOf(st.obj, st.ver)
        \/ st.kind = "update" /\ disk[i] = Nothing /\ d = disk[i]
    BY <1>1, <1>5, <2>1
  <2>4. /\ disk[i] = Nothing <=> disk[i].obj = NoRow
        /\ RecordOf(st.obj, st.ver).obj = st.obj /\ RecordOf(st.obj, st.ver).ver = st.ver
    BY <1>1, <1>3, RecordFields, RecordOfType
  <2>5. \/ /\ st.kind = "insert" /\ disk[i].obj = NoRow
           /\ disk'[i].obj = st.obj /\ disk'[i].ver = st.ver
        \/ /\ st.kind = "update" /\ disk[i].obj # NoRow
           /\ disk'[i].obj = st.obj /\ disk'[i].ver = st.ver
        \/ st.kind = "update" /\ disk[i].obj = NoRow /\ disk'[i] = disk[i]
    BY <2>2, <2>3, <2>4, Zenon
  <2> QED  BY <1>1, <1>2, <1>5, <2>2, <2>b, <2>5, Zenon
<1> QED  BY <1>4, <1>5 DEF Exec

LEMMA FetchNewRowsDoes ==
  ASSUME MapsOK, SaversOK, NEW s \in Saver, FetchNewRows(s)
  PROVE  LET Moves(i) == m_new_rows[i] # NoRow /\ m_rows[i] = NoRow IN
         /\ MapsOK' /\ SaversOK'
         /\ \A i \in Id : /\ m_rows'[i] = IF Moves(i) THEN m_new_rows[i] ELSE m_rows[i]
                          /\ m_new_rows'[i] = IF Moves(i) THEN NoRow ELSE m_new_rows[i]
         /\ \E todo \in SUBSET Obj :
              /\ OnlySaver(s, "new", saver[s].how, todo, NoStmt)
              /\ \A o \in Obj : o \in todo <=> \E i \in Id : Moves(i) /\ m_new_rows[i] = o
<1> DEFINE moving == {i \in Id : m_new_rows[i] # NoRow /\ m_rows[i] = NoRow}
           todo == {m_new_rows[i] : i \in moving}
<1>1. todo \in SUBSET Obj
  BY DEF MapsOK
<1>2. Goes(s, "new", todo) /\ saver[s].stmt = NoStmt
  BY DEF FetchNewRows, RowsDone
<1>3. SaversOK' /\ OnlySaver(s, "new", saver[s].how, todo, NoStmt)
  BY <1>1, <1>2, GoesDoes DEF SaverPc
<1>4. \A o \in Obj : o \in todo <=>
        \E i \in Id : m_new_rows[i] # NoRow /\ m_rows[i] = NoRow /\ m_new_rows[i] = o
  OBVIOUS
<1>5. /\ m_rows' = [i \in Id |-> IF i \in moving THEN m_new_rows[i] ELSE m_rows[i]]
      /\ m_new_rows' = [i \in Id |-> IF i \in moving THEN NoRow ELSE m_new_rows[i]]
      /\ m_removed_rows' = m_removed_rows /\ created' = created
  BY DEF FetchNewRows
<1>6. MapsOK'
  BY <1>5 DEF MapsOK
<1> QED  BY <1>1, <1>3, <1>4, <1>5, <1>6

LEMMA SaveReturnsDoes ==
  ASSUME SaversOK, NEW s \in Saver, SaveReturns(s)
  PROVE  /\ SaversOK'
         /\ \E place \in RestPc :
              /\ OnlySaver(s, place, "plain", {}, NoStmt)
              /\ s = "main" => place = "quitting"
<1>1. PICK place \in RestPc :
        saver' = [saver EXCEPT ![s] = Resting(place)] /\ (s = "main" => place = "quitting")
  BY DEF SaveReturns
<1> QED  BY <1>1, SaverReplaced, NoStmtType DEF Resting, How, SaverPc

LEMMA StartSaveDoes ==
  ASSUME SaversOK, NEW s \in Saver, NEW how \in How, StartSave(s, how)
  PROVE  SaversOK' /\ OnlySaver(s, "before", how, {}, NoStmt)
BY SaverReplaced, NoStmtType DEF StartSave, SaverPc

LEMMA RestartDoes ==
  ASSUME RowsOK, DiskOK, Restart
  PROVE  /\ MapsOK' <=> created' \in 0..MaxRows
         /\ RowsOK' /\ SaversOK' /\ DiskOK'
         /\ \A i \in Id : /\ m_rows'[i] = disk[i].obj
                          /\ m_new_rows'[i] = NoRow /\ m_removed_rows'[i] = NoRow
         /\ \A o \in Obj : /\ row'[o].id = row[o].id /\ row'[o].flags = {}
                           /\ disk[row[o].id].obj = o => row'[o].ver = disk[row[o].id].ver
         /\ \A s \in Saver : /\ saver'[s].pc = "idle" /\ saver'[s].how = "plain"
                             /\ saver'[s].todo = {} /\ saver'[s].stmt = NoStmt
<1>1. \A i \in Id : disk[i].obj \in Obj \cup {NoRow} /\ (disk[i].obj # NoRow => disk[i].ver \in 0..MaxVer)
  BY RecordFields DEF DiskOK
<1>2. MapsOK' <=> created' \in 0..MaxRows
  BY <1>1 DEF Restart, MapsOK
<1> DEFINE Ver(o) == IF disk[row[o].id].obj = o THEN disk[row[o].id].ver ELSE 0
<1>3. ASSUME NEW o \in Obj PROVE Ver(o) \in 0..MaxVer
  <2>1. row[o].id \in Id /\ o # NoRow
    BY RowFields, NoRowIsNone
  <2> QED  BY <1>1, <2>1, DbTableAssumption
<1>4. row' = [o \in Obj |-> RowOf(row[o].id, {}, Ver(o))]
  BY DEF Restart
<1> HIDE DEF Ver
<1>5. \A o \in Obj : /\ RowOf(row[o].id, {}, Ver(o)) \in Row
                     /\ RowOf(row[o].id, {}, Ver(o)).id = row[o].id
                     /\ RowOf(row[o].id, {}, Ver(o)).flags = {}
                     /\ RowOf(row[o].id, {}, Ver(o)).ver = Ver(o)
  BY <1>3, RowFields, RowOfType
<1>6. RowsOK' /\ \A o \in Obj : row'[o].id = row[o].id /\ row'[o].flags = {} /\ row'[o].ver = Ver(o)
  BY <1>4, <1>5 DEF RowsOK
<1>7. SaversOK' /\ \A s \in Saver : saver'[s] = Resting("idle")
  BY RestingType DEF Restart, SaversOK, SaverPc
<1>8. DiskOK'
  BY DEF Restart, DiskOK
<1>9. \A o \in Obj : disk[row[o].id].obj = o => Ver(o) = disk[row[o].id].ver
  BY DEF Ver
<1>10. \A i \in Id : m_rows'[i] = disk[i].obj /\ m_new_rows'[i] = NoRow /\ m_removed_rows'[i] = NoRow
  BY DEF Restart
<1>11. \A s \in Saver : /\ saver'[s].pc = "idle" /\ saver'[s].how = "plain"
                        /\ saver'[s].todo = {} /\ saver'[s].stmt = NoStmt
  BY <1>7, RestingType DEF SaverPc
<1> QED  BY <1>2, <1>6, <1>7, <1>8, <1>9, <1>10, <1>11

LEMMA SaveStepTypes ==
  ASSUME MapsOK, RowsOK, SaversOK, DiskOK, NEW s \in Saver, SaveStep(s)
  PROVE  MapsOK' /\ RowsOK' /\ SaversOK' /\ DiskOK'
<1>1. CASE StartSave(s, IF s = "loop" /\ m_quit THEN "quick" ELSE "plain")
  <2>1. PICK how \in How : StartSave(s, how)
    BY <1>1 DEF How
  <2> QED  BY <2>1, StartSaveDoes DEF StartSave, tableVars, MapsOK, RowsOK, DiskOK
<1>2. CASE FetchRemoved(s)
  <2>1. Goes(s, "deleting", In(m_removed_rows)) /\ In(m_removed_rows) \in SUBSET Obj
    BY <1>2, InType DEF FetchRemoved, MapsOK
  <2> QED  BY <1>2, <2>1, GoesDoes DEF FetchRemoved, tableVars, MapsOK, RowsOK, DiskOK, SaverPc
<1>3. CASE Delete(s)
  BY <1>3, DeleteDoes DEF Delete, tableVars, MapsOK, RowsOK
<1>4. CASE ResetRemoved(s)
  <2>1. SaversOK'
    BY <1>4, GoesDoes DEF ResetRemoved, SaverPc
  <2> QED  BY <1>4, <2>1 DEF ResetRemoved, MapsOK, RowsOK, DiskOK
<1>5. CASE FetchRows(s)
  <2>1. Goes(s, "rows", In(m_rows)) /\ In(m_rows) \in SUBSET Obj
    BY <1>5, InType DEF FetchRows, MapsOK
  <2> QED  BY <1>5, <2>1, GoesDoes DEF FetchRows, tableVars, MapsOK, RowsOK, DiskOK, SaverPc
<1>6. CASE SaveData(s)
  BY <1>6, SaveDataDoes DEF SaveData, tableVars, MapsOK, DiskOK
<1>7. CASE Exec(s)
  BY <1>7, ExecDoes DEF Exec, tableVars, MapsOK, RowsOK
<1>8. CASE FetchNewRows(s)
  BY <1>8, FetchNewRowsDoes DEF FetchNewRows, RowsOK, DiskOK
<1>9. CASE EndSave(s)
  BY <1>9, SaveReturnsDoes DEF EndSave, tableVars, MapsOK, RowsOK, DiskOK
<1>10. CASE SaveCutShort(s)
  BY <1>10, SaveReturnsDoes DEF SaveCutShort, tableVars, MapsOK, RowsOK, DiskOK
<1> QED  BY <1>1, <1>2, <1>3, <1>4, <1>5, <1>6, <1>7, <1>8, <1>9, <1>10 DEF SaveStep

LEMMA RemoveRowTypes == ASSUME MapsOK, DiskOK, NEW i \in Id, RemoveRow(i) PROVE MapsOK' /\ DiskOK'
BY DEF RemoveRow, MapsOK, DiskOK

LEMMA TypeStep == TypeOK /\ [Next]_vars => TypeOK'
<1> SUFFICES ASSUME TypeOK, [Next]_vars
             PROVE  MapsOK' /\ RowsOK' /\ SaversOK' /\ DiskOK' /\ FlagsOK'
  BY Zenon DEF TypeOK, MapsOK, RowsOK, SaversOK, DiskOK, FlagsOK
<1>0. MapsOK /\ RowsOK /\ SaversOK /\ DiskOK /\ FlagsOK
  BY TypeParts
<1>1. m_quit' \in BOOLEAN
  BY <1>0, Zenon DEF FlagsOK, Next, HandlerStep, SaveStep, AddRow, Set, RemoveRow, StartSave,
     FetchRemoved, Delete, ResetRemoved, FetchRows, SaveData, Exec, FetchNewRows, SaveCutShort, EndSave,
     SaveReturns, Restart, vars
<1>2. overlap' \in BOOLEAN
  BY <1>0, Zenon DEF FlagsOK, Next, HandlerStep, SaveStep, AddRow, Set, RemoveRow, StartSave,
     FetchRemoved, Delete, ResetRemoved, FetchRows, SaveData, Exec, FetchNewRows, SaveCutShort, EndSave,
     Restart, vars
<1>3. ASSUME NEW i \in Id, AddRow(i) PROVE MapsOK' /\ RowsOK' /\ SaversOK' /\ DiskOK'
  BY <1>0, <1>3, AddRowDoes DEF AddRow, SaversOK, DiskOK
<1>4. ASSUME NEW i \in Id, GetRow(i) # NoRow, Set(GetRow(i))
      PROVE  MapsOK' /\ RowsOK' /\ SaversOK' /\ DiskOK'
  <2>1. RowsOK'
    BY <1>0, <1>4, GetRowType, SetDoes
  <2> QED  BY <1>0, <1>4, <2>1 DEF Set, tableVars, MapsOK, SaversOK, DiskOK
<1>5. ASSUME NEW i \in Id, RemoveRow(i) PROVE MapsOK' /\ RowsOK' /\ SaversOK' /\ DiskOK'
  BY <1>0, <1>5, RemoveRowTypes DEF RemoveRow, RowsOK, SaversOK
<1>6. ASSUME NEW s \in Saver, SaveStep(s) PROVE MapsOK' /\ RowsOK' /\ SaversOK' /\ DiskOK'
  BY <1>0, <1>6, SaveStepTypes
<1>7. CASE Restart
  BY <1>0, <1>1, <1>2, <1>7, RestartDoes DEF Restart, MapsOK, FlagsOK
<1>8. CASE UNCHANGED vars
  BY <1>0, <1>1, <1>2, <1>8 DEF vars, MapsOK, RowsOK, SaversOK, DiskOK, FlagsOK
<1>9. FlagsOK'
  BY <1>1, <1>2 DEF FlagsOK
<1> QED  BY <1>3, <1>4, <1>5, <1>6, <1>7, <1>8, <1>9 DEF Next, HandlerStep

\* Every variable of a table (a_db_tables.go) has its type.
THEOREM TypeCorrect == Spec => []TypeOK
BY TypeInit, TypeStep, PTL DEF Spec

(***************************************************************************)
(* Where row objects are, whatever saves overlap.                          *)
(***************************************************************************)

Named(o) == o = NoRow \/ o \in 1 .. created

\* Whatever a map, a record or a saver names has been created.
AllNamed ==
  /\ \A i \in Id : Named(m_rows[i]) /\ Named(m_new_rows[i]) /\ Named(m_removed_rows[i])
  /\ \A i \in Id : Named(disk[i].obj)
  /\ \A s \in Saver : saver[s].todo \subseteq 1 .. created /\ Named(saver[s].stmt.obj)

\* The maps and the records have each object under its own id.
AllOwn ==
  \A i \in Id :
    /\ m_rows[i] # NoRow => row[m_rows[i]].id = i
    /\ m_new_rows[i] # NoRow => row[m_new_rows[i]].id = i
    /\ m_removed_rows[i] # NoRow => row[m_removed_rows[i]].id = i
    /\ disk[i].obj # NoRow => row[disk[i].obj].id = i

\* An id has a row or a new row; a new row has not been fetched by a save yet.
NewApart ==
  /\ \A i \in Id : m_new_rows[i] # NoRow =>
       /\ m_rows[i] = NoRow
       /\ m_removed_rows[i] # m_new_rows[i]
       /\ "new" \in row[m_new_rows[i]].flags
  /\ \A s \in Saver : \A o \in saver[s].todo : m_new_rows[row[o].id] # o

RowsFit == AllNamed /\ AllOwn /\ NewApart

\* What savers have at hand where; only main's save has the DBC quit.
SaversFit ==
  /\ \A s \in Saver :
       /\ saver[s].pc \notin {"rows", "new"} => saver[s].stmt = NoStmt
       /\ saver[s].pc \notin {"deleting", "rows", "new"} => saver[s].todo = {}
  /\ m_quit => "main" \in Saver /\ saver["main"].pc = "quitting"

LEMMA CreatedType == MapsOK => 1 .. created \subseteq Obj /\ created \in Nat
BY DbTableAssumption DEF MapsOK, Obj

LEMMA FitInit == Init => RowsFit /\ SaversFit
<1> SUFFICES ASSUME Init PROVE RowsFit /\ SaversFit
  OBVIOUS
<1>1. /\ \A i \in Id : m_rows[i] = NoRow /\ m_new_rows[i] = NoRow /\ m_removed_rows[i] = NoRow
      /\ \A i \in Id : disk[i].obj = NoRow
  BY DEF Init, Nothing
<1>2. \A s \in Saver : saver[s].todo = {} /\ saver[s].stmt = NoStmt
  BY RestingType DEF Init, SaverPc
<1>3. m_quit = FALSE
  BY DEF Init
<1> QED  BY <1>1, <1>2, <1>3, NoStmtType DEF RowsFit, AllNamed, AllOwn, NewApart, SaversFit, Named

\* A saver takes rows at hand, or drops them; the maps and the rows stay.
LEMMA SaverKeepsRows ==
  ASSUME MapsOK, RowsFit, NEW s \in Saver, NEW place, NEW how, NEW todo, NEW st,
         OnlySaver(s, place, how, todo, st),
         todo \subseteq 1 .. created, Named(st.obj),
         \A o \in todo : m_new_rows[row[o].id] # o,
         UNCHANGED <<m_rows, m_new_rows, row, created>>,
         \A i \in Id : m_removed_rows'[i] \in {NoRow, m_removed_rows[i]},
         \A i \in Id : \/ disk'[i].obj = disk[i].obj
                       \/ disk'[i].obj = NoRow
                       \/ /\ disk'[i].obj = saver[s].stmt.obj
                          /\ row[saver[s].stmt.obj].id = i
  PROVE  RowsFit'
<1>1. AllNamed'
  BY DEF RowsFit, AllNamed, OnlySaver, Named
<1>2. AllOwn'
  BY DEF RowsFit, AllOwn
<1>3. NewApart'
  BY DEF RowsFit, NewApart, OnlySaver
<1> QED  BY <1>1, <1>2, <1>3 DEF RowsFit

LEMMA AddRowKeepsRows ==
  ASSUME MapsOK, RowsOK, SaversOK, DiskOK, RowsFit, NEW i \in Id, GetRow(i) = NoRow, AddRow(i)
  PROVE  RowsFit'
<1>1. m_rows[i] = NoRow
  BY DEF GetRow
<1>a. created \in Nat /\ \A o \in 1 .. created : o \in Obj \ {created + 1}
  BY CreatedType
<1>2. /\ m_new_rows' = [m_new_rows EXCEPT ![i] = created + 1]
      /\ created' = created + 1 /\ created \in Nat /\ created + 1 \in Obj
      /\ row'[created + 1].id = i /\ row'[created + 1].flags = {"new", "changed"}
      /\ \A o \in 1 .. created : row'[o] = row[o]
      /\ UNCHANGED <<m_rows, m_removed_rows, saver, disk>>
  BY <1>a, AddRowDoes DEF AddRow
<1>3. /\ m_new_rows'[i] = created + 1
      /\ \A j \in Id \ {i} : m_new_rows'[j] = m_new_rows[j]
      /\ created + 1 # NoRow
  BY <1>2 DEF MapsOK, NoRow
<1>4. AllNamed'
  BY <1>2, <1>3 DEF RowsFit, AllNamed, Named
<1>5. AllOwn'
  BY <1>2, <1>3 DEF RowsFit, AllNamed, AllOwn, Named
<1>6. ASSUME NEW j \in Id, m_new_rows'[j] # NoRow
      PROVE  /\ m_rows'[j] = NoRow
             /\ m_removed_rows'[j] # m_new_rows'[j]
             /\ "new" \in row'[m_new_rows'[j]].flags
  <2>1. CASE j = i
    BY <1>1, <1>2, <1>3, <2>1 DEF RowsFit, AllNamed, Named, NoRow
  <2>2. CASE j # i
    BY <1>2, <1>3, <1>6, <2>2 DEF RowsFit, AllNamed, NewApart, Named
  <2> QED  BY <2>1, <2>2
<1>7. ASSUME NEW s \in Saver, NEW o \in saver'[s].todo PROVE m_new_rows'[row'[o].id] # o
  <2>1. o \in 1 .. created /\ row'[o] = row[o] /\ row[o].id \in Id /\ o \in saver[s].todo
    BY <1>2, <1>7, RowFields, SaverFields DEF RowsFit, AllNamed
  <2> QED  BY <1>2, <1>3, <2>1 DEF RowsFit, NewApart
<1> QED  BY <1>4, <1>5, <1>6, <1>7 DEF RowsFit, NewApart

LEMMA SetKeepsRows ==
  ASSUME MapsOK, RowsOK, SaversOK, DiskOK, RowsFit, NEW o \in Obj, Set(o)
  PROVE  RowsFit'
<1>1. /\ \A p \in Obj : row'[p].id = row[p].id /\ row[p].flags \subseteq row'[p].flags
      /\ UNCHANGED <<m_rows, m_new_rows, m_removed_rows, created, saver, disk>>
  BY SetDoes DEF Set, tableVars
<1>2. \A i \in Id : m_new_rows[i] # NoRow => m_new_rows[i] \in Obj
  BY DEF MapsOK
<1>3. AllNamed'
  BY <1>1 DEF RowsFit, AllNamed, Named
<1>4. \A i \in Id : disk[i].obj # NoRow => disk[i].obj \in Obj
  BY CreatedType DEF RowsFit, AllNamed, Named
<1>5. AllOwn'
  BY <1>1, <1>4 DEF RowsFit, AllOwn, MapsOK
<1>6. NewApart'
  BY <1>1, <1>2, SaverFields DEF RowsFit, NewApart
<1> QED  BY <1>3, <1>5, <1>6 DEF RowsFit

LEMMA RemoveRowDoes ==
  ASSUME MapsOK, NEW i \in Id, RemoveRow(i)
  PROVE  /\ m_rows'[i] = NoRow /\ m_new_rows'[i] = NoRow
         /\ m_removed_rows'[i] = IF m_rows[i] = NoRow THEN m_removed_rows[i] ELSE m_rows[i]
         /\ \A j \in Id \ {i} : /\ m_rows'[j] = m_rows[j] /\ m_new_rows'[j] = m_new_rows[j]
                                /\ m_removed_rows'[j] = m_removed_rows[j]
         /\ UNCHANGED <<row, created, saver, disk>>
BY DEF RemoveRow, MapsOK

LEMMA RemoveRowKeepsRows ==
  ASSUME MapsOK, RowsOK, SaversOK, RowsFit, NEW i \in Id, RemoveRow(i)
  PROVE  RowsFit'
<1>1. AllNamed'
  BY RemoveRowDoes DEF RowsFit, AllNamed, Named
<1>2. AllOwn'
  BY RemoveRowDoes DEF RowsFit, AllOwn
<1>3. ASSUME NEW s \in Saver, NEW o \in saver'[s].todo PROVE m_new_rows'[row'[o].id] # o
  <2>1. o \in Obj /\ o \in saver[s].todo /\ o # NoRow
    BY <1>3, RemoveRowDoes, SaverFields, NoRowIsNone
  <2> QED  BY <2>1, RemoveRowDoes, RowFields DEF RowsFit, NewApart
<1>4. \A j \in Id : m_new_rows'[j] # NoRow =>
        /\ m_rows'[j] = NoRow
        /\ m_removed_rows'[j] # m_new_rows'[j]
        /\ "new" \in row'[m_new_rows'[j]].flags
  BY RemoveRowDoes DEF RowsFit, NewApart
<1> QED  BY <1>1, <1>2, <1>3, <1>4 DEF RowsFit, NewApart

LEMMA SaveDataKeepsRows ==
  ASSUME MapsOK, RowsOK, SaversOK, DiskOK, RowsFit, NEW s \in Saver, SaveData(s)
  PROVE  RowsFit'
<1>1. PICK o \in saver[s].todo, st \in Stmt :
        /\ OnlySaver(s, saver[s].pc, saver[s].how, saver[s].todo \ {o}, st)
        /\ row[o].flags = {} => st = NoStmt
        /\ row[o].flags # {} => st.obj = o
        /\ row'[o].id = row[o].id /\ row'[o].flags = {}
        /\ \A p \in Obj \ {o} : row'[p] = row[p]
  BY SaveDataDoes
<1>2. o \in 1 .. created /\ o \in Obj /\ m_new_rows[row[o].id] # o
  BY SaverFields DEF RowsFit, AllNamed, NewApart
<1>3. UNCHANGED <<m_rows, m_new_rows, m_removed_rows, created, disk>>
  BY DEF SaveData, tableVars
<1>4. \A p \in Obj : row'[p].id = row[p].id
  BY <1>1
<1>5. Named(st.obj)
  BY <1>1, <1>2, NoStmtType DEF Named
<1>6. AllNamed'
  BY <1>1, <1>3, <1>5 DEF RowsFit, AllNamed, Named, OnlySaver
<1>7. \A i \in Id : disk[i].obj # NoRow => disk[i].obj \in Obj
  BY CreatedType DEF RowsFit, AllNamed, Named
<1>8. AllOwn'
  BY <1>3, <1>4, <1>7 DEF RowsFit, AllOwn, MapsOK
<1>9. \A i \in Id : m_new_rows[i] # NoRow => m_new_rows[i] \in Obj \ {o}
  BY <1>2 DEF RowsFit, AllOwn, MapsOK
<1>10. NewApart'
  BY <1>1, <1>3, <1>4, <1>9, SaverFields DEF RowsFit, NewApart, OnlySaver
<1> QED  BY <1>6, <1>8, <1>10 DEF RowsFit

LEMMA FetchNewRowsKeepsRows ==
  ASSUME MapsOK, RowsOK, SaversOK, RowsFit, NEW s \in Saver, FetchNewRows(s)
  PROVE  RowsFit'
<1>1. \A i \in Id : \/ /\ m_rows'[i] = m_new_rows[i] /\ m_new_rows[i] # NoRow
                       /\ m_new_rows'[i] = NoRow
                    \/ m_rows'[i] = m_rows[i] /\ m_new_rows'[i] = NoRow /\ m_new_rows[i] = NoRow
  BY FetchNewRowsDoes DEF RowsFit, NewApart
<1>2. PICK todo \in SUBSET Obj :
        /\ OnlySaver(s, "new", saver[s].how, todo, NoStmt)
        /\ \A o \in Obj : o \in todo => \E i \in Id : m_new_rows[i] # NoRow /\ m_new_rows[i] = o
  BY FetchNewRowsDoes
<1>3. UNCHANGED <<row, created, disk, m_removed_rows>>
  BY DEF FetchNewRows
<1>4. AllNamed'
  BY <1>1, <1>2, <1>3, NoStmtType DEF RowsFit, AllNamed, Named, OnlySaver
<1>5. AllOwn'
  BY <1>1, <1>3 DEF RowsFit, AllOwn
<1>6. \A t \in Saver : \A o \in saver'[t].todo : row'[o].id \in Id /\ o # NoRow
  BY <1>2, <1>3, SaverFields, RowFields, NoRowIsNone DEF OnlySaver
<1>7. NewApart'
  BY <1>1, <1>6 DEF RowsFit, NewApart
<1> QED  BY <1>4, <1>5, <1>7 DEF RowsFit

LEMMA SaveStepKeepsRows ==
  ASSUME MapsOK, RowsOK, SaversOK, DiskOK, RowsFit, SaversFit, NEW s \in Saver, SaveStep(s)
  PROVE  RowsFit'
<1>0. \A i \in Id : \A o \in {m_rows[i], m_removed_rows[i]} \ {NoRow} :
        o \in 1 .. created /\ row[o].id = i /\ m_new_rows[i] # o
  BY DEF RowsFit, AllNamed, AllOwn, NewApart, Named
<1>a. Named(saver[s].stmt.obj) /\ Named(NoStmt.obj) /\ saver[s].todo \subseteq 1 .. created
  BY NoStmtType DEF RowsFit, AllNamed, Named
<1>b. \A o \in saver[s].todo : m_new_rows[row[o].id] # o
  BY DEF RowsFit, NewApart
<1>1. CASE StartSave(s, IF s = "loop" /\ m_quit THEN "quick" ELSE "plain")
  <2>1. PICK how \in How : StartSave(s, how)
    BY <1>1 DEF How
  <2>2. OnlySaver(s, "before", how, {}, NoStmt)
    BY <2>1, StartSaveDoes
  <2> QED  BY <1>a, <2>1, <2>2, SaverKeepsRows DEF StartSave, tableVars
<1>2. CASE FetchRemoved(s)
  <2>1. Goes(s, "deleting", In(m_removed_rows)) /\ In(m_removed_rows) \in SUBSET Obj
    BY <1>2, InType DEF FetchRemoved, MapsOK
  <2>2. OnlySaver(s, "deleting", saver[s].how, In(m_removed_rows), saver[s].stmt)
    BY <2>1, GoesDoes DEF SaverPc
  <2>3. \A o \in In(m_removed_rows) : o \in 1 .. created /\ m_new_rows[row[o].id] # o
    BY <1>0 DEF In
  <2> QED  BY <1>a, <1>2, <2>2, <2>3, SaverKeepsRows DEF FetchRemoved, tableVars
<1>3. CASE Delete(s)
  <2>1. PICK o \in saver[s].todo :
          /\ row[o].id \in Id
          /\ OnlySaver(s, "deleting", saver[s].how, saver[s].todo \ {o}, saver[s].stmt)
          /\ \A i \in Id : disk'[i] = disk[i] \/ disk'[i] = Nothing
    BY <1>3, DeleteDoes
  <2>2. \A i \in Id : disk'[i].obj = disk[i].obj \/ disk'[i].obj = NoRow
    BY <2>1 DEF Nothing
  <2>3. UNCHANGED tableVars /\ UNCHANGED <<row, created>>
    BY <1>3 DEF Delete
  <2> QED  BY <1>a, <1>b, <2>1, <2>2, <2>3, SaverKeepsRows DEF tableVars
<1>4. CASE ResetRemoved(s)
  <2>1. OnlySaver(s, "fetch", saver[s].how, {}, saver[s].stmt)
    BY <1>4, GoesDoes DEF ResetRemoved, SaverPc
  <2> QED  BY <1>a, <1>4, <2>1, SaverKeepsRows DEF ResetRemoved
<1>5. CASE FetchRows(s)
  <2>1. Goes(s, "rows", In(m_rows)) /\ In(m_rows) \in SUBSET Obj
    BY <1>5, InType DEF FetchRows, MapsOK
  <2>2. OnlySaver(s, "rows", saver[s].how, In(m_rows), saver[s].stmt)
    BY <2>1, GoesDoes DEF SaverPc
  <2>3. \A o \in In(m_rows) : o \in 1 .. created /\ m_new_rows[row[o].id] # o
    BY <1>0 DEF In
  <2> QED  BY <1>a, <1>5, <2>2, <2>3, SaverKeepsRows DEF FetchRows, tableVars
<1>7. CASE Exec(s)
  <2>1. OnlySaver(s, saver[s].pc, saver[s].how, saver[s].todo, NoStmt)
    BY <1>7, ExecDoes
  <2>2. \A i \in Id : \/ disk'[i].obj = disk[i].obj
                      \/ /\ disk'[i].obj = saver[s].stmt.obj
                         /\ row[saver[s].stmt.obj].id = i
    BY <1>7, ExecDoes
  <2> QED  BY <1>a, <1>b, <1>7, <2>1, <2>2, SaverKeepsRows DEF Exec, tableVars
<1>9. CASE EndSave(s)
  <2>1. PICK place : OnlySaver(s, place, "plain", {}, NoStmt)
    BY <1>9, SaveReturnsDoes DEF EndSave
  <2> QED  BY <1>a, <1>9, <2>1, SaverKeepsRows DEF EndSave, tableVars
<1>10. CASE SaveCutShort(s)
  <2>1. PICK place : OnlySaver(s, place, "plain", {}, NoStmt)
    BY <1>10, SaveReturnsDoes DEF SaveCutShort
  <2> QED  BY <1>a, <1>10, <2>1, SaverKeepsRows DEF SaveCutShort, tableVars
<1> QED  BY <1>1, <1>2, <1>3, <1>4, <1>5, <1>7, <1>9, <1>10, SaveDataKeepsRows, FetchNewRowsKeepsRows
         DEF SaveStep

LEMMA RestartKeepsRows ==
  ASSUME MapsOK, RowsOK, SaversOK, DiskOK, RowsFit, Restart PROVE RowsFit' /\ SaversFit'
<1>1. UNCHANGED <<created, disk>> /\ m_quit' = FALSE
  BY DEF Restart
<1>2. \A i \in Id : disk[i].obj # NoRow => disk[i].obj \in Obj
  BY CreatedType DEF RowsFit, AllNamed, Named
<1>3. AllNamed'
  BY <1>1, RestartDoes, NoStmtType DEF RowsFit, AllNamed, Named
<1>4. AllOwn'
  BY <1>1, <1>2, RestartDoes DEF RowsFit, AllOwn
<1>5. NewApart' /\ SaversFit'
  BY <1>1, RestartDoes DEF NewApart, SaversFit
<1> QED  BY <1>3, <1>4, <1>5 DEF RowsFit

LEMMA SaveStepKeepsFit ==
  ASSUME MapsOK, RowsOK, SaversOK, DiskOK, SaversFit, NEW s \in Saver, SaveStep(s)
  PROVE  SaversFit'
<1>1. CASE StartSave(s, IF s = "loop" /\ m_quit THEN "quick" ELSE "plain")
  <2>1. PICK how \in How : StartSave(s, how)
    BY <1>1 DEF How
  <2>2. OnlySaver(s, "before", how, {}, NoStmt) /\ m_quit' = m_quit /\ saver[s].pc = "idle"
    BY <2>1, StartSaveDoes DEF StartSave
  <2> QED  BY <2>2 DEF SaversFit, OnlySaver
<1>2. ASSUME NEW place \in {"deleting", "fetch", "rows", "new"}, NEW how, NEW todo, NEW st,
             OnlySaver(s, place, how, todo, st),
             place \notin {"rows", "new"} => st = NoStmt,
             place = "fetch" => todo = {},
             saver[s].pc \notin RestPc, m_quit' = m_quit
      PROVE  SaversFit'
  BY <1>2 DEF SaversFit, OnlySaver
<1>3. CASE FetchRemoved(s)
  <2>1. Goes(s, "deleting", In(m_removed_rows)) /\ In(m_removed_rows) \in SUBSET Obj
    BY <1>3, InType DEF FetchRemoved, MapsOK
  <2>2. OnlySaver(s, "deleting", saver[s].how, In(m_removed_rows), saver[s].stmt)
    BY <2>1, GoesDoes DEF SaverPc
  <2> QED  BY <1>2, <1>3, <2>2 DEF FetchRemoved, SaversFit
<1>4. CASE Delete(s)
  <2>1. \E o : OnlySaver(s, "deleting", saver[s].how, saver[s].todo \ {o}, saver[s].stmt)
    BY <1>4, DeleteDoes
  <2> QED  BY <1>2, <1>4, <2>1 DEF Delete, SaversFit
<1>5. CASE ResetRemoved(s)
  <2>1. OnlySaver(s, "fetch", saver[s].how, {}, saver[s].stmt)
    BY <1>5, GoesDoes DEF ResetRemoved, SaverPc
  <2> QED  BY <1>2, <1>5, <2>1 DEF ResetRemoved, SaversFit
<1>6. CASE FetchRows(s)
  <2>1. Goes(s, "rows", In(m_rows)) /\ In(m_rows) \in SUBSET Obj
    BY <1>6, InType DEF FetchRows, MapsOK
  <2>2. OnlySaver(s, "rows", saver[s].how, In(m_rows), saver[s].stmt)
    BY <2>1, GoesDoes DEF SaverPc
  <2> QED  BY <1>2, <1>6, <2>2 DEF FetchRows
<1>7. CASE SaveData(s)
  <2>1. PICK o \in saver[s].todo, st \in Stmt :
          OnlySaver(s, saver[s].pc, saver[s].how, saver[s].todo \ {o}, st)
    BY <1>7, SaveDataDoes
  <2>2. saver[s].pc \in {"rows", "new"} /\ m_quit' = m_quit
    BY <1>7 DEF SaveData
  <2> QED  BY <1>2, <2>1, <2>2
<1>8. CASE Exec(s)
  <2>1. OnlySaver(s, saver[s].pc, saver[s].how, saver[s].todo, NoStmt)
    BY <1>8, ExecDoes
  <2>2. saver[s].pc \in {"rows", "new"} /\ m_quit' = m_quit
    BY <1>8 DEF Exec, SaversFit
  <2> QED  BY <1>2, <2>1, <2>2
<1>9. CASE FetchNewRows(s)
  <2>1. PICK todo \in SUBSET Obj : OnlySaver(s, "new", saver[s].how, todo, NoStmt)
    BY <1>9, FetchNewRowsDoes
  <2> QED  BY <1>2, <1>9, <2>1 DEF FetchNewRows
<1>10. CASE EndSave(s) \/ SaveCutShort(s)
  <2>0. SaveReturns(s)
    BY <1>10 DEF EndSave, SaveCutShort
  <2>1. PICK place \in RestPc :
          /\ OnlySaver(s, place, "plain", {}, NoStmt)
          /\ s = "main" => place = "quitting"
    BY <2>0, SaveReturnsDoes
  <2>2. m_quit' => m_quit \/ s = "main"
    BY <2>0 DEF SaveReturns
  <2> QED  BY <2>1, <2>2 DEF SaversFit, OnlySaver
<1> QED  BY <1>1, <1>3, <1>4, <1>5, <1>6, <1>7, <1>8, <1>9, <1>10 DEF SaveStep

LEMMA FitStep == TypeOK /\ RowsFit /\ SaversFit /\ [Next]_vars => RowsFit' /\ SaversFit'
<1> SUFFICES ASSUME TypeOK, RowsFit, SaversFit, [Next]_vars PROVE RowsFit' /\ SaversFit'
  OBVIOUS
<1>0. MapsOK /\ RowsOK /\ SaversOK /\ DiskOK
  BY TypeParts
<1>1. ASSUME saver' = saver, m_quit' = m_quit PROVE SaversFit'
  BY <1>1 DEF SaversFit
<1>2. ASSUME NEW i \in Id, GetRow(i) = NoRow, AddRow(i) PROVE RowsFit' /\ SaversFit'
  BY <1>0, <1>1, <1>2, AddRowKeepsRows DEF AddRow
<1>3. ASSUME NEW i \in Id, GetRow(i) # NoRow, Set(GetRow(i)) PROVE RowsFit' /\ SaversFit'
  BY <1>0, <1>1, <1>3, GetRowType, SetKeepsRows DEF Set
<1>4. ASSUME NEW i \in Id, RemoveRow(i) PROVE RowsFit' /\ SaversFit'
  BY <1>0, <1>1, <1>4, RemoveRowKeepsRows DEF RemoveRow
<1>5. ASSUME NEW s \in Saver, SaveStep(s) PROVE RowsFit' /\ SaversFit'
  BY <1>0, <1>5, SaveStepKeepsRows, SaveStepKeepsFit
<1>6. CASE Restart
  BY <1>0, <1>6, RestartKeepsRows
<1>7. CASE UNCHANGED vars
  BY <1>7 DEF vars, RowsFit, AllNamed, AllOwn, NewApart, SaversFit, Named
<1> QED  BY <1>2, <1>3, <1>4, <1>5, <1>6, <1>7 DEF Next, HandlerStep
(***************************************************************************)
(* What is clean is on record and what is removed goes, while no two saves *)
(* overlap.                                                                *)
(***************************************************************************)

OneSaves == \A s, t \in Saver : Saving(s) /\ Saving(t) => s = t

\* No save gives up: once the DBC quits, only loop's last one is left.
QuickAtLast == m_quit => \A s \in Saver : Saving(s) => saver[s].how = "quick"

\* A row object at hand is the row of its id, or removed and to be deleted.
Stands(o) ==
  LET i == row[o].id IN
  m_rows[i] = o \/ (m_rows[i] = NoRow /\ m_removed_rows[i] # NoRow)

\* What the saver has at hand: rows that need an UPDATE, or new ones for an INSERT.
TodoFits(s) ==
  /\ saver[s].pc \in {"rows", "new"} => \A o \in saver[s].todo : Stands(o)
  /\ saver[s].pc = "rows" => \A o \in saver[s].todo : "new" \notin row[o].flags
  /\ saver[s].pc = "new" => \A o \in saver[s].todo : "new" \in row[o].flags

\* The statement in flight is as new as its row, if the row has not changed since.
StmtFits(s) ==
  LET st == saver[s].stmt IN
  st.obj # NoRow =>
    /\ Stands(st.obj)
    /\ st.kind = IF saver[s].pc = "new" THEN "insert" ELSE "update"
    /\ "new" \notin row[st.obj].flags
    /\ row[st.obj].flags = {} => st.ver = row[st.obj].ver

\* The DELETEs to come spare every row, and are all that is needed.
DeletesFit(s) ==
  saver[s].pc = "deleting" =>
    /\ \A o \in saver[s].todo : m_rows[row[o].id] = NoRow \/ row[o].id \in failed
    /\ \A i \in Id : disk[i].obj # NoRow /\ m_rows[i] = NoRow /\ i \notin late /\ i \notin failed
                       => m_removed_rows[i] \in saver[s].todo

\* Until the new rows are fetched, what was removed since the DELETEs is on record.
RemovedOnRecord(s) ==
  saver[s].pc \in {"fetch", "rows"} =>
    \A i \in Id : m_removed_rows[i] # NoRow => disk[i].obj # NoRow \/ i \in failed

SaveFits(s) == TodoFits(s) /\ StmtFits(s) /\ DeletesFit(s) /\ RemovedOnRecord(s)

\* A row that is new still is at hand.
NewAtHand(i) ==
  m_rows[i] # NoRow /\ "new" \in row[m_rows[i]].flags
    => \E s \in Saver : saver[s].pc = "new" /\ m_rows[i] \in saver[s].todo

Inserting(o) == \E s \in Saver : saver[s].stmt.obj = o /\ saver[s].stmt.kind = "insert"

\* A row that is not new is on record, in whatever version, or being inserted.
OnRecord(i) ==
  (m_rows[i] # NoRow /\ "new" \notin row[m_rows[i]].flags /\ ~Inserting(m_rows[i]) /\ i \notin failed)
    => disk[i].obj = m_rows[i]

\* A clean row is there in its version.
CleanOnRecord(i) ==
  (m_rows[i] # NoRow /\ row[m_rows[i]].flags = {} /\ i \notin failed
    /\ \A s \in Saver : saver[s].stmt.obj # m_rows[i])
    => disk[i].ver = row[m_rows[i]].ver

\* A row of an id whose DELETE is due is about to fail: the record is in its way.
Reborn(i) ==
  m_removed_rows[i] # NoRow /\ m_rows[i] # NoRow =>
    \/ i \in failed
    \/ /\ disk[i].obj # NoRow
       /\ \E s \in Saver : /\ saver[s].pc = "new"
                           /\ m_rows[i] \in saver[s].todo \/ saver[s].stmt.obj = m_rows[i]

RemovedGoes(i) ==
  disk[i].obj # NoRow /\ m_rows[i] = NoRow
    => m_removed_rows[i] # NoRow \/ i \in late \/ i \in failed

RowStands(i) == NewAtHand(i) /\ OnRecord(i) /\ CleanOnRecord(i) /\ Reborn(i) /\ RemovedGoes(i)

Apart ==
  /\ OneSaves
  /\ QuickAtLast
  /\ \A s \in Saver : SaveFits(s)
  /\ \A i \in Id : RowStands(i)

Inv == TypeOK /\ RowsFit /\ SaversFit /\ (overlap \/ Apart)

\* What the steps below start from.
Sound == MapsOK /\ RowsOK /\ SaversOK /\ DiskOK /\ RowsFit /\ SaversFit /\ Apart

LEMMA ObjectFacts ==
  ASSUME Sound
  PROVE  /\ \A i \in Id : /\ m_rows[i] # NoRow => m_rows[i] \in Obj /\ row[m_rows[i]].id = i
                          /\ m_new_rows[i] # NoRow => m_new_rows[i] \in Obj /\ row[m_new_rows[i]].id = i
                          /\ m_removed_rows[i] # NoRow => row[m_removed_rows[i]].id = i
         /\ \A s \in Saver : /\ saver[s].todo \subseteq Obj
                             /\ saver[s].stmt.obj # NoRow => saver[s].stmt.obj \in Obj
         /\ \A o \in Obj : o # NoRow /\ row[o].id \in Id
<1>1. \A s \in Saver : saver[s].stmt.obj # NoRow => saver[s].stmt.obj \in Obj
  BY SaverFields, StmtFields, NoStmtType DEF Sound
<1>2. \A o \in Obj : o # NoRow /\ row[o].id \in Id
  BY RowFields, NoRowIsNone DEF Sound
<1> QED  BY <1>1, <1>2, SaverFields DEF Sound, MapsOK, RowsFit, AllOwn

\* While s saves, the other rests.
LEMMA OthersRest ==
  ASSUME Sound, NEW s \in Saver, Saving(s), NEW t \in Saver \ {s}
  PROVE  saver[t].pc \in RestPc /\ saver[t].todo = {} /\ saver[t].stmt.obj = NoRow
<1>1. saver[t].pc \in RestPc
  BY DEF Sound, Apart, OneSaves, Saving
<1> QED  BY <1>1, NoStmtType DEF Sound, SaversFit

LEMMA RestFits ==
  ASSUME NEW t \in Saver, saver'[t].pc \in RestPc, saver'[t].stmt.obj = NoRow
  PROVE  SaveFits(t)'
BY DEF SaveFits, TodoFits, StmtFits, DeletesFit, RemovedOnRecord

\* A step of a save that goes on leaves all but the save and the rows to be looked at.
LEMMA SaveGoesOn ==
  ASSUME Sound, NEW s \in Saver, Saving(s), NEW place, NEW todo, NEW st,
         OnlySaver(s, place, saver[s].how, todo, st), m_quit' = m_quit,
         SaveFits(s)', \A i \in Id : RowStands(i)'
  PROVE  Apart'
<1>1. \A t \in Saver \ {s} : ~Saving(t) /\ saver'[t] = saver[t] /\ SaveFits(t)'
  BY OthersRest, RestFits DEF OnlySaver, Saving
<1>2. \A t \in Saver \ {s} : ~Saving(t)'
  BY <1>1 DEF Saving
<1>3. OneSaves'
  BY <1>2 DEF OneSaves
<1>4. QuickAtLast'
  BY <1>2 DEF QuickAtLast, OnlySaver, Sound, Apart
<1> QED  BY <1>1, <1>3, <1>4 DEF Apart

\* Handlers: the savers stay as they are.
LEMMA HandlerGoesOn ==
  ASSUME Sound, saver' = saver, m_quit' = m_quit,
         \A s \in Saver : SaveFits(s)', \A i \in Id : RowStands(i)'
  PROVE  Apart'
BY DEF Sound, Apart, OneSaves, QuickAtLast, Saving

LEMMA AddRowKeepsApart ==
  ASSUME Sound, NEW k \in Id, AddRow(k) PROVE Apart'
<1>1. /\ \A o \in 1 .. created : row'[o] = row[o]
      /\ UNCHANGED <<m_rows, m_removed_rows, saver, disk, failed, late, m_quit>>
  <2>1. created \in Nat /\ \A o \in 1 .. created : o \in Obj \ {created + 1}
    BY CreatedType DEF Sound
  <2> QED  BY <2>1, AddRowDoes DEF AddRow, Sound
<1>2. /\ \A i \in Id : m_rows[i] # NoRow => row'[m_rows[i]] = row[m_rows[i]]
      /\ \A s \in Saver : \A o \in saver[s].todo : row'[o] = row[o]
      /\ \A s \in Saver : saver[s].stmt.obj # NoRow => row'[saver[s].stmt.obj] = row[saver[s].stmt.obj]
  BY <1>1 DEF Sound, RowsFit, AllNamed, Named
<1>3. ASSUME NEW s \in Saver PROVE SaveFits(s)'
  BY <1>1, <1>2 DEF Sound, Apart, SaveFits, TodoFits, StmtFits, DeletesFit, RemovedOnRecord, Stands
<1>4. ASSUME NEW i \in Id PROVE RowStands(i)'
  BY <1>1, <1>2 DEF Sound, Apart, RowStands, NewAtHand, OnRecord, CleanOnRecord, Reborn, RemovedGoes,
     Inserting
<1> QED  BY <1>1, <1>3, <1>4, HandlerGoesOn

LEMMA SetKeepsApart ==
  ASSUME Sound, NEW k \in Obj, Set(k) PROVE Apart'
<1>1. /\ \A o \in Obj : row'[o].id = row[o].id /\ ("new" \in row'[o].flags <=> "new" \in row[o].flags)
      /\ \A o \in Obj : row'[o].flags = {} => row'[o] = row[o]
      /\ UNCHANGED <<m_rows, m_removed_rows, saver, disk, failed, late, m_quit>>
  <2>1. /\ row'[k].id = row[k].id /\ row'[k].flags = row[k].flags \cup {"changed"}
        /\ \A p \in Obj \ {k} : row'[p] = row[p]
    BY SetDoes DEF Sound
  <2> QED  BY <2>1 DEF Set, tableVars
<1>2. ASSUME NEW s \in Saver PROVE SaveFits(s)'
  BY <1>1, ObjectFacts DEF Sound, Apart, SaveFits, TodoFits, StmtFits, DeletesFit, RemovedOnRecord, Stands
<1>3. ASSUME NEW i \in Id PROVE RowStands(i)'
  BY <1>1, ObjectFacts DEF Sound, Apart, RowStands, NewAtHand, OnRecord, CleanOnRecord, Reborn,
     RemovedGoes, Inserting
<1> QED  BY <1>1, <1>2, <1>3, HandlerGoesOn

LEMMA RemoveRowKeepsApart ==
  ASSUME Sound, NEW k \in Id, RemoveRow(k) PROVE Apart'
<1>1. /\ m_rows'[k] = NoRow
      /\ m_removed_rows'[k] = IF m_rows[k] = NoRow THEN m_removed_rows[k] ELSE m_rows[k]
      /\ \A j \in Id \ {k} : m_rows'[j] = m_rows[j] /\ m_removed_rows'[j] = m_removed_rows[j]
      /\ UNCHANGED <<row, saver, disk, failed, m_quit>>
  BY RemoveRowDoes DEF RemoveRow, Sound
<1>2. /\ late \subseteq late'
      /\ m_rows[k] # NoRow => \A s \in Saver : saver[s].pc = "deleting" => k \in late'
  BY DEF RemoveRow
<1>3. ASSUME NEW s \in Saver PROVE SaveFits(s)'
  <2>1. \A o \in Obj : Stands(o) => Stands(o)'
    BY <1>1, ObjectFacts DEF Stands
  <2>2. TodoFits(s)' /\ StmtFits(s)'
    BY <1>1, <2>1, ObjectFacts DEF Sound, Apart, SaveFits, TodoFits, StmtFits
  <2>3. DeletesFit(s)'
    BY <1>1, <1>2, ObjectFacts DEF Sound, Apart, SaveFits, DeletesFit
  <2>4. RemovedOnRecord(s)'
    <3>1. SUFFICES ASSUME saver[s].pc \in {"fetch", "rows"}, m_rows[k] # NoRow
                   PROVE  disk[k].obj # NoRow \/ k \in failed
      BY <1>1 DEF Sound, Apart, SaveFits, RemovedOnRecord
    <3>2. \A t \in Saver \ {s} : saver[t].pc # "new" /\ saver[t].stmt.obj = NoRow
      BY <3>1, OthersRest DEF Saving
    <3>3. saver[s].pc # "new" /\ (saver[s].stmt.obj # NoRow => saver[s].stmt.kind # "insert")
      BY <3>1 DEF Sound, Apart, SaveFits, StmtFits
    <3>4. "new" \notin row[m_rows[k]].flags /\ ~Inserting(m_rows[k])
      BY <3>1, <3>2, <3>3 DEF Sound, Apart, RowStands, NewAtHand, Inserting
    <3> QED  BY <3>1, <3>4 DEF Sound, Apart, RowStands, OnRecord
  <2> QED  BY <2>2, <2>3, <2>4 DEF SaveFits
<1>4. ASSUME NEW i \in Id PROVE RowStands(i)'
  <2>1. CASE i = k
    BY <1>1, <1>2, <2>1 DEF Sound, Apart, RowStands, NewAtHand, OnRecord, CleanOnRecord, Reborn,
       RemovedGoes
  <2>2. CASE i # k
    BY <1>1, <1>2, <2>2 DEF Sound, Apart, RowStands, NewAtHand, OnRecord, CleanOnRecord, Reborn,
       RemovedGoes, Inserting
  <2> QED  BY <2>1, <2>2
<1> QED  BY <1>1, <1>3, <1>4, HandlerGoesOn
LEMMA StartSaveKeepsApart ==
  ASSUME Sound, NEW s \in Saver, StartSave(s, IF s = "loop" /\ m_quit THEN "quick" ELSE "plain"),
         ~overlap'
  PROVE  Apart'
<1>1. PICK how \in How : StartSave(s, how) /\ (s = "loop" /\ m_quit => how = "quick")
  BY DEF How
<1>2. OnlySaver(s, "before", how, {}, NoStmt) /\ NoStmt.obj = NoRow
  BY <1>1, StartSaveDoes, NoStmtType DEF Sound
<1>3. /\ saver[s].pc = "idle" /\ \A t \in Saver \ {s} : ~Saving(t)
      /\ UNCHANGED <<m_rows, m_removed_rows, row, disk, failed, late, m_quit>>
  BY <1>1 DEF StartSave, tableVars
<1>4. \A t \in Saver \ {s} : ~Saving(t)' /\ saver'[t] = saver[t]
  BY <1>2, <1>3 DEF OnlySaver, Saving
<1>5. OneSaves'
  BY <1>4 DEF OneSaves
<1>6. QuickAtLast'
  <2>1. m_quit => s = "loop"
    BY <1>3, DbTableAssumption DEF Sound, SaversFit
  <2> QED  BY <1>1, <1>2, <1>3, <1>4, <2>1 DEF QuickAtLast, OnlySaver
<1>7. ASSUME NEW t \in Saver PROVE SaveFits(t)'
  <2>1. CASE t = s
    BY <1>2, <2>1 DEF OnlySaver, SaveFits, TodoFits, StmtFits, DeletesFit, RemovedOnRecord
  <2>2. CASE t # s
    BY <1>2, <1>3, <2>2, <1>4 DEF Sound, Apart, SaveFits, TodoFits, StmtFits, DeletesFit,
       RemovedOnRecord, Stands
  <2> QED  BY <2>1, <2>2
<1>8. saver[s].todo = {} /\ saver[s].stmt.obj = NoRow
  BY <1>3, NoStmtType DEF Sound, SaversFit
<1>9. ASSUME NEW i \in Id PROVE RowStands(i)'
  BY <1>2, <1>3, <1>4, <1>8, <1>9 DEF Sound, Apart, RowStands, NewAtHand, OnRecord, CleanOnRecord,
     Reborn, RemovedGoes, Inserting, OnlySaver
<1> QED  BY <1>5, <1>6, <1>7, <1>9 DEF Apart

LEMMA FetchRemovedKeepsApart ==
  ASSUME Sound, NEW s \in Saver, FetchRemoved(s) PROVE Apart'
<1> DEFINE todo == In(m_removed_rows)
<1>1. /\ OnlySaver(s, "deleting", saver[s].how, todo, saver[s].stmt)
      /\ saver[s].pc = "before" /\ Saving(s)
      /\ UNCHANGED <<m_rows, m_removed_rows, row, disk, failed, late, m_quit>>
  <2>1. Goes(s, "deleting", todo) /\ todo \in SUBSET Obj
    BY InType DEF FetchRemoved, Sound, MapsOK
  <2> QED  BY <2>1, GoesDoes DEF FetchRemoved, tableVars, Sound, SaverPc, Saving
<1>2. saver[s].todo = {} /\ saver[s].stmt.obj = NoRow
  BY <1>1, NoStmtType DEF Sound, SaversFit
<1>3. \A t \in Saver : saver[t].pc # "new" /\ saver[t].stmt.obj = NoRow
  BY <1>1, <1>2, OthersRest
<1>4. \A i \in Id : m_removed_rows[i] # NoRow => m_rows[i] = NoRow \/ i \in failed
  BY <1>3 DEF Sound, Apart, RowStands, Reborn
<1>5. SaveFits(s)'
  <2>1. \A o \in todo : m_rows[row[o].id] = NoRow \/ row[o].id \in failed
    BY <1>4, ObjectFacts DEF In
  <2>2. \A i \in Id : m_removed_rows[i] # NoRow => m_removed_rows[i] \in todo
    BY DEF In
  <2> HIDE DEF todo
  <2>3. DeletesFit(s)'
    BY <1>1, <2>1, <2>2 DEF OnlySaver, DeletesFit, Sound, Apart, RowStands, RemovedGoes
  <2> QED  BY <1>1, <1>2, <2>3 DEF OnlySaver, SaveFits, TodoFits, StmtFits, RemovedOnRecord
<1> HIDE DEF todo
<1>6. ASSUME NEW i \in Id PROVE RowStands(i)'
  BY <1>1, <1>2, <1>3 DEF Sound, Apart, RowStands, NewAtHand, OnRecord, CleanOnRecord,
     Reborn, RemovedGoes, Inserting, OnlySaver
<1> QED  BY <1>1, <1>5, <1>6, SaveGoesOn

LEMMA DeleteKeepsApart ==
  ASSUME Sound, NEW s \in Saver, Delete(s) PROVE Apart'
<1>1. PICK o \in saver[s].todo :
        /\ row[o].id \in Id
        /\ OnlySaver(s, "deleting", saver[s].how, saver[s].todo \ {o}, saver[s].stmt)
        /\ \/ /\ disk'[row[o].id] = Nothing
              /\ \A i \in Id \ {row[o].id} : disk'[i] = disk[i]
              /\ failed' = failed
           \/ disk' = disk /\ failed' = failed \cup {row[o].id}
  BY DeleteDoes DEF Sound
<1>2. /\ saver[s].pc = "deleting" /\ Saving(s)
      /\ UNCHANGED <<m_rows, m_removed_rows, row, late, m_quit>>
  BY DEF Delete, Saving, tableVars
<1>3. \A t \in Saver : saver[t].pc # "new" /\ saver[t].stmt.obj = NoRow
  BY <1>2, OthersRest, NoStmtType DEF Sound, SaversFit
<1>4. /\ failed \subseteq failed'
      /\ \A i \in Id \ {row[o].id} : disk'[i] = disk[i]
      /\ disk'[row[o].id].obj = NoRow \/ row[o].id \in failed'
      /\ m_rows[row[o].id] = NoRow \/ row[o].id \in failed
  BY <1>1, <1>2 DEF Nothing, Sound, Apart, SaveFits, DeletesFit
<1>5. SaveFits(s)'
  <2>1. DeletesFit(s)'
    <3>1. \A i \in Id \ {row[o].id} : m_removed_rows[i] # NoRow => m_removed_rows[i] # o
      BY ObjectFacts
    <3>2. \A p \in saver[s].todo : p # NoRow
      BY ObjectFacts
    <3> QED  BY <1>1, <1>2, <1>4, <3>1, <3>2 DEF OnlySaver, Sound, Apart, SaveFits, DeletesFit
  <2> QED  BY <1>1, <1>3, <2>1 DEF OnlySaver, SaveFits, TodoFits, StmtFits, RemovedOnRecord
<1>6. ASSUME NEW i \in Id PROVE RowStands(i)'
  <2>1. CASE i = row[o].id
    BY <1>1, <1>2, <1>3, <1>4, <2>1 DEF Sound, Apart, RowStands, NewAtHand, OnRecord, CleanOnRecord,
       Reborn, RemovedGoes, Inserting, OnlySaver
  <2>2. CASE i # row[o].id
    BY <1>1, <1>2, <1>3, <1>4, <2>2 DEF Sound, Apart, RowStands, NewAtHand, OnRecord, CleanOnRecord,
       Reborn, RemovedGoes, Inserting, OnlySaver
  <2> QED  BY <2>1, <2>2
<1> QED  BY <1>1, <1>2, <1>5, <1>6, SaveGoesOn

LEMMA ResetRemovedKeepsApart ==
  ASSUME Sound, NEW s \in Saver, ResetRemoved(s) PROVE Apart'
<1>1. /\ OnlySaver(s, "fetch", saver[s].how, {}, saver[s].stmt)
      /\ saver[s].pc = "deleting" /\ saver[s].todo = {} /\ Saving(s)
      /\ UNCHANGED <<m_rows, row, disk, failed, late, m_quit>>
      /\ \A i \in Id : m_removed_rows'[i] = NoRow
  BY GoesDoes DEF ResetRemoved, Sound, SaverPc, Saving
<1>2. \A t \in Saver : saver[t].pc # "new" /\ saver[t].stmt.obj = NoRow
  BY <1>1, OthersRest, NoStmtType DEF Sound, SaversFit
<1>3. SaveFits(s)'
  BY <1>1, <1>2 DEF OnlySaver, SaveFits, TodoFits, StmtFits, DeletesFit, RemovedOnRecord
<1>4. ASSUME NEW i \in Id PROVE RowStands(i)'
  <2>1. RemovedGoes(i)'
    BY <1>1 DEF Sound, Apart, SaveFits, DeletesFit, RemovedGoes
  <2> QED  BY <1>1, <1>2, <2>1 DEF Sound, Apart, RowStands, NewAtHand, OnRecord, CleanOnRecord,
           Reborn, Inserting, OnlySaver
<1> QED  BY <1>1, <1>3, <1>4, SaveGoesOn

LEMMA FetchRowsKeepsApart ==
  ASSUME Sound, NEW s \in Saver, FetchRows(s) PROVE Apart'
<1> DEFINE todo == In(m_rows)
<1>1. /\ OnlySaver(s, "rows", saver[s].how, todo, saver[s].stmt)
      /\ saver[s].pc = "fetch" /\ Saving(s)
      /\ UNCHANGED <<m_rows, m_removed_rows, row, disk, failed, late, m_quit>>
  <2>1. Goes(s, "rows", todo) /\ todo \in SUBSET Obj
    BY InType DEF FetchRows, Sound, MapsOK
  <2> QED  BY <2>1, GoesDoes DEF FetchRows, tableVars, Sound, SaverPc, Saving
<1>2. saver[s].todo = {} /\ \A t \in Saver : saver[t].pc # "new" /\ saver[t].stmt.obj = NoRow
  BY <1>1, OthersRest, NoStmtType DEF Sound, SaversFit
<1>3. \A o \in todo : m_rows[row[o].id] = o /\ "new" \notin row[o].flags
  <2>1. ASSUME NEW i \in Id, m_rows[i] # NoRow PROVE row[m_rows[i]].id = i /\ "new" \notin row[m_rows[i]].flags
    BY <1>2, <2>1, ObjectFacts DEF Sound, Apart, RowStands, NewAtHand
  <2> QED  BY <2>1 DEF In
<1> HIDE DEF todo
<1>4. SaveFits(s)'
  BY <1>1, <1>2, <1>3 DEF OnlySaver, SaveFits, TodoFits, StmtFits, DeletesFit, RemovedOnRecord, Stands,
     Sound, Apart
<1>5. ASSUME NEW i \in Id PROVE RowStands(i)'
  BY <1>1, <1>2 DEF Sound, Apart, RowStands, NewAtHand, OnRecord, CleanOnRecord,
     Reborn, RemovedGoes, Inserting, OnlySaver
<1> QED  BY <1>1, <1>4, <1>5, SaveGoesOn

LEMMA SaveDataKeepsApart ==
  ASSUME Sound, NEW s \in Saver, SaveData(s) PROVE Apart'
<1>1. PICK o \in saver[s].todo, st \in Stmt :
        /\ OnlySaver(s, saver[s].pc, saver[s].how, saver[s].todo \ {o}, st)
        /\ row[o].flags = {} => st = NoStmt
        /\ row[o].flags # {} =>
             /\ st.obj = o /\ st.ver = row[o].ver
             /\ st.kind = IF "new" \in row[o].flags THEN "insert" ELSE "update"
        /\ row'[o].id = row[o].id /\ row'[o].flags = {} /\ row'[o].ver = row[o].ver
        /\ \A p \in Obj \ {o} : row'[p] = row[p]
  BY SaveDataDoes DEF Sound
<1>2. /\ saver[s].pc \in {"rows", "new"} /\ saver[s].stmt.obj = NoRow /\ Saving(s)
      /\ UNCHANGED <<m_rows, m_removed_rows, disk, failed, late, m_quit>>
  BY NoStmtType DEF SaveData, Saving, tableVars
<1>3. \A t \in Saver : saver[t].stmt.obj = NoRow /\ (t # s => saver[t].pc # "new")
  BY <1>2, OthersRest
<1>4. /\ o \in Obj /\ o # NoRow /\ Stands(o)
      /\ "new" \in row[o].flags <=> saver[s].pc = "new"
      /\ st.obj = IF row[o].flags = {} THEN NoRow ELSE o
  BY <1>1, <1>2, ObjectFacts, NoStmtType DEF Sound, Apart, SaveFits, TodoFits
<1>5. \A p \in Obj : row'[p].id = row[p].id /\ (Stands(p) => Stands(p)')
  BY <1>1, <1>2 DEF Stands
<1>6. SaveFits(s)'
  <2>1. TodoFits(s)'
    BY <1>1, <1>2, <1>5, ObjectFacts DEF OnlySaver, Sound, Apart, SaveFits, TodoFits
  <2>2. StmtFits(s)'
    BY <1>1, <1>2, <1>4, <1>5 DEF OnlySaver, StmtFits
  <2>3. DeletesFit(s)' /\ RemovedOnRecord(s)'
    BY <1>1, <1>2 DEF OnlySaver, Sound, Apart, SaveFits, DeletesFit, RemovedOnRecord
  <2> QED  BY <2>1, <2>2, <2>3 DEF SaveFits
<1>7. ASSUME NEW i \in Id PROVE RowStands(i)'
  <2>1. CASE m_rows[i] = o
    <3>1. NewAtHand(i)' /\ RemovedGoes(i)'
      BY <1>1, <1>2, <1>4, <2>1 DEF NewAtHand, RemovedGoes
    <3>2. OnRecord(i)'
      BY <1>1, <1>2, <1>3, <1>4, <2>1 DEF Sound, Apart, RowStands, OnRecord, Inserting, OnlySaver
    <3>3. CleanOnRecord(i)'
      BY <1>1, <1>2, <1>3, <1>4, <2>1 DEF Sound, Apart, RowStands, CleanOnRecord, OnlySaver
    <3>4. Reborn(i)'
      BY <1>1, <1>2, <1>3, <1>4, <2>1 DEF Sound, Apart, RowStands, Reborn, OnlySaver
    <3> QED  BY <3>1, <3>2, <3>3, <3>4 DEF RowStands
  <2>2. CASE m_rows[i] # o
    <3>1. m_rows[i] # NoRow => row'[m_rows[i]] = row[m_rows[i]]
      BY <1>1, <2>2, ObjectFacts
    <3>2. NewAtHand(i)' /\ RemovedGoes(i)'
      BY <1>1, <1>2, <1>3, <2>2, <3>1 DEF Sound, Apart, RowStands, NewAtHand, RemovedGoes, OnlySaver
    <3>3. OnRecord(i)' /\ CleanOnRecord(i)'
      BY <1>1, <1>2, <1>3, <1>4, <2>2, <3>1 DEF Sound, Apart, RowStands, OnRecord, CleanOnRecord,
         Inserting, OnlySaver
    <3>4. Reborn(i)'
      BY <1>1, <1>2, <1>3, <2>2 DEF Sound, Apart, RowStands, Reborn, OnlySaver
    <3> QED  BY <3>2, <3>3, <3>4 DEF RowStands
  <2> QED  BY <2>1, <2>2
<1> QED  BY <1>1, <1>2, <1>6, <1>7, SaveGoesOn

LEMMA ExecKeepsApart ==
  ASSUME Sound, NEW s \in Saver, Exec(s) PROVE Apart'
<1> DEFINE st == saver[s].stmt
           k == row[st.obj].id
<1>1. /\ st.obj \in Obj /\ st.obj # NoRow /\ k \in Id
      /\ OnlySaver(s, saver[s].pc, saver[s].how, saver[s].todo, NoStmt)
      /\ failed \subseteq failed'
      /\ \A j \in Id \ {k} : disk'[j] = disk[j]
      /\ \/ disk' = disk /\ k \in failed'
         \/ st.kind = "insert" /\ disk[k].obj = NoRow /\ disk'[k].obj = st.obj /\ disk'[k].ver = st.ver
         \/ st.kind = "update" /\ disk[k].obj # NoRow /\ disk'[k].obj = st.obj /\ disk'[k].ver = st.ver
         \/ st.kind = "update" /\ disk[k].obj = NoRow /\ disk'[k] = disk[k]
  BY ExecDoes, NoRowIsNone DEF Sound
<1>2. UNCHANGED <<m_rows, m_removed_rows, row, late, m_quit>>
  BY DEF Exec, tableVars
<1>3. saver[s].pc \in {"rows", "new"} /\ Saving(s)
  BY <1>1, NoStmtType DEF Sound, SaversFit, Saving
<1>4. \A t \in Saver \ {s} : saver[t].pc # "new" /\ saver[t].stmt.obj = NoRow
  BY <1>3, OthersRest
<1>5. /\ Stands(st.obj)
      /\ st.kind = IF saver[s].pc = "new" THEN "insert" ELSE "update"
      /\ "new" \notin row[st.obj].flags
      /\ row[st.obj].flags = {} => st.ver = row[st.obj].ver
  <2>1. StmtFits(s)
    BY DEF Sound, Apart, SaveFits
  <2> QED  BY <1>1, <2>1, Zenon DEF StmtFits
<1>6. SaveFits(s)'
  <2>1. TodoFits(s)'
    <3>1. TodoFits(s)
      BY DEF Sound, Apart, SaveFits
    <3>2. /\ saver'[s].pc = saver[s].pc /\ saver'[s].todo = saver[s].todo
          /\ UNCHANGED <<m_rows, m_removed_rows, row>>
      BY <1>1, <1>2, Zenon DEF OnlySaver
    <3> QED  BY <3>1, <3>2 DEF TodoFits, Stands
  <2>2. StmtFits(s)' /\ DeletesFit(s)'
    BY <1>1, <1>3, NoStmtType DEF OnlySaver, StmtFits, DeletesFit
  <2>3. \A i \in Id : disk[i].obj # NoRow => disk'[i].obj # NoRow
    BY <1>1
  <2>4. RemovedOnRecord(s)'
    BY <1>1, <1>2, <2>3 DEF OnlySaver, Sound, Apart, SaveFits, RemovedOnRecord
  <2> QED  BY <2>1, <2>2, <2>4 DEF SaveFits
<1>7. \A i \in Id : m_rows[i] # NoRow => (m_rows[i] = st.obj <=> i = k /\ m_rows[k] = st.obj)
  BY ObjectFacts
<1>8. m_rows[k] = st.obj \/ (m_rows[k] = NoRow /\ m_removed_rows[k] # NoRow)
  BY <1>5 DEF Stands
<1> HIDE DEF k
<1>9. ASSUME NEW i \in Id PROVE RowStands(i)'
  <2>1. NewAtHand(i)'
    BY <1>1, <1>2 DEF Sound, Apart, RowStands, NewAtHand, OnlySaver
  <2>2. RemovedGoes(i)'
    BY <1>1, <1>2, <1>8 DEF Sound, Apart, RowStands, RemovedGoes
  <2>3. CASE i = k
    <3>1. OnRecord(i)'
      BY <1>1, <1>2, <1>4, <1>5, <1>8, <2>3 DEF Sound, Apart, RowStands, OnRecord, Inserting, OnlySaver
    <3>2. CleanOnRecord(i)'
      BY <1>1, <1>2, <1>4, <1>5, <1>8, <2>3 DEF Sound, Apart, RowStands, OnRecord, CleanOnRecord,
         Inserting, OnlySaver
    <3>3. Reborn(i)'
      BY <1>1, <1>2, <1>4, <1>5, <1>8, <2>3 DEF Sound, Apart, RowStands, Reborn, OnlySaver
    <3> QED  BY <2>1, <2>2, <3>1, <3>2, <3>3 DEF RowStands
  <2>4. CASE i # k
    <3>1. disk'[i] = disk[i] /\ (m_rows[i] # NoRow => m_rows[i] # st.obj)
      BY <1>1, <1>7, <2>4
    <3>2. OnRecord(i)' /\ CleanOnRecord(i)'
      BY <1>1, <1>2, <3>1 DEF Sound, Apart, RowStands, OnRecord, CleanOnRecord, Inserting, OnlySaver
    <3>3. Reborn(i)'
      BY <1>1, <1>2, <3>1 DEF Sound, Apart, RowStands, Reborn, OnlySaver
    <3> QED  BY <2>1, <2>2, <3>2, <3>3 DEF RowStands
  <2> QED  BY <2>3, <2>4
<1> QED  BY <1>1, <1>2, <1>3, <1>6, <1>9, SaveGoesOn

\* No save gives up, so that it has been through all its rows.
LEMMA RowsAreDone ==
  ASSUME Sound, NEW s \in Saver, Saving(s), RowsDone(s)
  PROVE  saver[s].todo = {} /\ \A t \in Saver : saver[t].stmt.obj = NoRow
<1>1. ~GivesUp(s)
  BY DEF GivesUp, Sound, Apart, QuickAtLast
<1> QED  BY <1>1, OthersRest, NoStmtType DEF RowsDone

LEMMA FetchNewRowsKeepsApart ==
  ASSUME Sound, NEW s \in Saver, FetchNewRows(s) PROVE Apart'
<1>1. \A i \in Id : \/ /\ m_rows'[i] = m_new_rows[i] /\ m_new_rows[i] # NoRow
                       /\ m_rows[i] = NoRow
                    \/ m_rows'[i] = m_rows[i] /\ m_new_rows[i] = NoRow
  BY FetchNewRowsDoes DEF Sound, RowsFit, NewApart
<1>2. PICK todo \in SUBSET Obj :
        /\ OnlySaver(s, "new", saver[s].how, todo, NoStmt)
        /\ \A o \in Obj : o \in todo <=>
             \E i \in Id : m_new_rows[i] # NoRow /\ m_rows[i] = NoRow /\ m_new_rows[i] = o
  BY FetchNewRowsDoes DEF Sound
<1>3. /\ saver[s].pc = "rows" /\ Saving(s) /\ NoStmt.obj = NoRow
      /\ UNCHANGED <<row, m_removed_rows, disk, failed, late, m_quit>>
  BY NoStmtType DEF FetchNewRows, Saving
<1>4. \A t \in Saver : saver[t].stmt.obj = NoRow /\ saver[t].pc # "new"
  BY <1>3, RowsAreDone, OthersRest DEF FetchNewRows
<1>5. \A t \in Saver : saver'[t].stmt.obj = NoRow
  BY <1>2, <1>3, <1>4 DEF OnlySaver
<1>6. \A i \in Id : m_new_rows[i] # NoRow =>
        /\ m_new_rows[i] \in Obj /\ row[m_new_rows[i]].id = i /\ "new" \in row[m_new_rows[i]].flags
  BY ObjectFacts DEF Sound, RowsFit, NewApart
<1>7. \A o \in todo : m_rows'[row[o].id] = o /\ "new" \in row[o].flags
  BY <1>1, <1>2, <1>6
<1>8. SaveFits(s)'
  BY <1>2, <1>3, <1>5, <1>7 DEF OnlySaver, SaveFits, TodoFits, StmtFits, DeletesFit, RemovedOnRecord, Stands
<1>9. ASSUME NEW i \in Id PROVE RowStands(i)'
  <2>1. CASE m_rows'[i] = m_new_rows[i] /\ m_new_rows[i] # NoRow /\ m_rows[i] = NoRow
    <3>1. m_rows'[i] \in todo /\ "new" \in row[m_rows'[i]].flags
      BY <1>2, <1>6, <2>1
    <3>2. Reborn(i)'
      BY <1>2, <1>3, <3>1 DEF Sound, Apart, SaveFits, RemovedOnRecord, Reborn, OnlySaver
    <3> QED  BY <1>2, <1>3, <2>1, <3>1, <3>2 DEF RowStands, NewAtHand, OnRecord, CleanOnRecord,
             RemovedGoes, OnlySaver
  <2>2. CASE m_rows'[i] = m_rows[i]
    BY <1>3, <1>4, <1>5, <2>2 DEF Sound, Apart, RowStands, NewAtHand, OnRecord, CleanOnRecord,
       Reborn, RemovedGoes, Inserting
  <2> QED  BY <1>1, <2>1, <2>2
<1> QED  BY <1>2, <1>3, <1>8, <1>9, SaveGoesOn

\* A save that ends has nothing left to do, wherever it ends.
LEMMA ReturnKeepsApart ==
  ASSUME Sound, NEW s \in Saver, SaveReturns(s), saver[s].pc \in {"before", "new"},
         UNCHANGED <<m_rows, m_removed_rows, row, disk, failed, late>>,
         saver[s].todo = {}, \A t \in Saver : saver[t].stmt.obj = NoRow
  PROVE  Apart'
<1>1. PICK place \in RestPc : OnlySaver(s, place, "plain", {}, NoStmt)
  BY SaveReturnsDoes DEF Sound
<1>2. Saving(s) /\ NoStmt.obj = NoRow
  BY NoStmtType DEF Saving
<1>4. \A t \in Saver \ {s} : saver[t].pc \in RestPc
  BY <1>2, OthersRest
<1>5. \A t \in Saver : saver'[t].pc \in RestPc /\ saver'[t].stmt.obj = NoRow
  BY <1>1, <1>2, <1>4 DEF OnlySaver
<1>6. OneSaves' /\ QuickAtLast' /\ \A t \in Saver : SaveFits(t)'
  BY <1>5, RestFits DEF OneSaves, QuickAtLast, Saving
<1>7. ASSUME NEW i \in Id PROVE RowStands(i)'
  BY <1>2, <1>4, <1>5 DEF Sound, Apart, RowStands, NewAtHand, OnRecord, CleanOnRecord,
     Reborn, RemovedGoes, Inserting
<1> QED  BY <1>6, <1>7 DEF Apart

LEMMA EndSaveKeepsApart ==
  ASSUME Sound, NEW s \in Saver, EndSave(s) PROVE Apart'
<1>1. saver[s].pc = "new" /\ Saving(s)
  BY DEF EndSave, Saving
<1> QED  BY <1>1, RowsAreDone, ReturnKeepsApart DEF EndSave, tableVars

LEMMA CutKeepsApart ==
  ASSUME Sound, NEW s \in Saver, SaveCutShort(s) PROVE Apart'
<1>1. saver[s].pc = "before" /\ Saving(s)
  BY DEF SaveCutShort, Saving
<1>2. saver[s].todo = {} /\ \A t \in Saver : saver[t].stmt.obj = NoRow
  BY <1>1, OthersRest, NoStmtType DEF Sound, SaversFit
<1> QED  BY <1>1, <1>2, ReturnKeepsApart DEF SaveCutShort, tableVars

\* Whatever overlapped before, what is loaded is apart.
LEMMA RestartApart ==
  ASSUME MapsOK, RowsOK, DiskOK, RowsFit, Restart PROVE Apart'
<1>1. /\ \A i \in Id : m_rows'[i] = disk[i].obj /\ m_removed_rows'[i] = NoRow
      /\ \A o \in Obj : /\ row'[o].id = row[o].id /\ row'[o].flags = {}
                        /\ disk[row[o].id].obj = o => row'[o].ver = disk[row[o].id].ver
      /\ \A s \in Saver : saver'[s].pc = "idle" /\ saver'[s].stmt = NoStmt
      /\ disk' = disk /\ NoStmt.obj = NoRow
  BY RestartDoes, NoStmtType DEF Restart
<1>2. OneSaves' /\ QuickAtLast' /\ \A t \in Saver : SaveFits(t)'
  BY <1>1, RestFits DEF OneSaves, QuickAtLast, Saving
<1>3. ASSUME NEW i \in Id PROVE RowStands(i)'
  <2>1. disk[i].obj # NoRow => disk[i].obj \in Obj /\ row[disk[i].obj].id = i
    BY CreatedType DEF RowsFit, AllNamed, AllOwn, Named
  <2> QED  BY <1>1, <2>1 DEF RowStands, NewAtHand, OnRecord, CleanOnRecord, Reborn, RemovedGoes
<1> QED  BY <1>2, <1>3 DEF Apart

LEMMA InitApart == Init => Apart
<1> SUFFICES ASSUME Init PROVE Apart
  OBVIOUS
<1>1. /\ \A i \in Id : m_rows[i] = NoRow /\ m_removed_rows[i] = NoRow /\ disk[i].obj = NoRow
      /\ \A s \in Saver : saver[s].pc = "idle" /\ saver[s].stmt.obj = NoRow
  BY RestingType, NoStmtType DEF Init, Nothing, SaverPc
<1> QED  BY <1>1 DEF Apart, OneSaves, QuickAtLast, Saving, SaveFits, TodoFits, StmtFits, DeletesFit,
         RemovedOnRecord, RowStands, NewAtHand, OnRecord, CleanOnRecord, Reborn, RemovedGoes

LEMMA SaveStepApart ==
  ASSUME Sound, NEW s \in Saver, SaveStep(s), ~overlap' PROVE Apart'
<1>1. StartSave(s, IF s = "loop" /\ m_quit THEN "quick" ELSE "plain") => Apart'
  BY StartSaveKeepsApart
<1> QED  BY <1>1, FetchRemovedKeepsApart, DeleteKeepsApart, ResetRemovedKeepsApart, FetchRowsKeepsApart,
         SaveDataKeepsApart, ExecKeepsApart, FetchNewRowsKeepsApart, EndSaveKeepsApart,
         CutKeepsApart, Zenon DEF SaveStep

LEMMA InvStep == Inv /\ [Next]_vars => Inv'
<1> SUFFICES ASSUME Inv, [Next]_vars PROVE Inv'
  OBVIOUS
<1>1. TypeOK' /\ RowsFit' /\ SaversFit'
  BY TypeStep, FitStep DEF Inv
<1>2. MapsOK /\ RowsOK /\ SaversOK /\ DiskOK /\ RowsFit /\ SaversFit /\ (overlap \/ Apart)
  BY TypeParts DEF Inv
<1>3. overlap => overlap' \/ Restart
  BY <1>2, Zenon DEF Next, HandlerStep, SaveStep, AddRow, Set, RemoveRow, StartSave, FetchRemoved,
     Delete, ResetRemoved, FetchRows, SaveData, Exec, FetchNewRows, SaveCutShort, EndSave, Restart, vars
<1>4. ASSUME ~overlap, ~overlap' PROVE Apart'
  <2>0. Sound
    BY <1>2, <1>4 DEF Sound
  <2>1. ASSUME NEW i \in Id, AddRow(i) PROVE Apart'
    BY <2>0, <2>1, AddRowKeepsApart
  <2>2. ASSUME NEW i \in Id, GetRow(i) # NoRow, Set(GetRow(i)) PROVE Apart'
    BY <2>0, <2>2, <1>2, GetRowType, SetKeepsApart
  <2>3. ASSUME NEW i \in Id, RemoveRow(i) PROVE Apart'
    BY <2>0, <2>3, RemoveRowKeepsApart
  <2>4. ASSUME NEW s \in Saver, SaveStep(s) PROVE Apart'
    BY <2>0, <1>4, <2>4, SaveStepApart
  <2>5. CASE Restart
    BY <1>2, <2>5, RestartApart
  <2>6. CASE UNCHANGED vars
    BY <2>0, <2>6 DEF vars, Sound, Apart, OneSaves, QuickAtLast, Saving, SaveFits, TodoFits, StmtFits,
       DeletesFit, RemovedOnRecord, RowStands, NewAtHand, OnRecord, CleanOnRecord, Reborn, RemovedGoes,
       Stands, Inserting
  <2> QED  BY <2>1, <2>2, <2>3, <2>4, <2>5, <2>6, Zenon DEF Next, HandlerStep
<1>5. Restart => Apart'
  BY <1>2, RestartApart
<1> QED  BY <1>1, <1>3, <1>4, <1>5, Zenon DEF Inv

LEMMA InvAlways == Spec => []Inv
<1>1. Init => Inv
  BY TypeInit, FitInit, InitApart DEF Inv
<1> QED  BY <1>1, InvStep, PTL DEF Spec

\* What save_data (a_db_tables.go) has taken for saved is in the database: a row
\* with no flag set is on record in its version, unless its statement is in flight
\* or has failed, however handlers, savers and restarts come in between.
THEOREM CleanCorrect == Spec => []CleanRowsAreSaved
<1>1. Inv => CleanRowsAreSaved
  <2> SUFFICES ASSUME Inv, ~overlap, NEW i \in Id,
                      m_rows[i] # NoRow, ~Dirty(m_rows[i]), i \notin failed,
                      \A s \in Saver : saver[s].stmt.obj # m_rows[i]
               PROVE  disk[i] = RecordOf(m_rows[i], row[m_rows[i]].ver)
    BY DEF CleanRowsAreSaved
  <2>1. row[m_rows[i]].flags = {}
    BY DEF Dirty, In
  <2>2. disk[i].obj = m_rows[i] /\ disk[i].ver = row[m_rows[i]].ver
    BY <2>1 DEF Inv, Apart, RowStands, OnRecord, CleanOnRecord, Inserting
  <2>3. disk[i] \in Record \cup {Nothing} /\ disk[i] # Nothing
    BY <2>2 DEF Inv, TypeOK, Nothing
  <2> QED  BY <2>2, <2>3 DEF Record, RecordOf
<1> QED  BY <1>1, InvAlways, PTL

\* What RemoveRow (a_db_tables.go) took out does not come back at the next Preload:
\* a record without a row awaits its DELETE, or that failed, or was forgotten when
\* the map was made anew.
THEOREM RemovedCorrect == Spec => []RemovedRowsGo
<1>1. Inv => RemovedRowsGo
  <2> SUFFICES ASSUME Inv, ~overlap, NEW i \in Id, disk[i] # Nothing, m_rows[i] = NoRow
               PROVE  m_removed_rows[i] # NoRow \/ i \in late \/ i \in failed
    BY DEF RemovedRowsGo
  <2>1. disk[i].obj # NoRow
    BY RecordFields DEF Inv, TypeOK
  <2> QED  BY <2>1 DEF Inv, Apart, RowStands, RemovedGoes
<1> QED  BY <1>1, InvAlways, PTL
(***************************************************************************)
(* Records do not go back.                                                 *)
(***************************************************************************)

\* Neither a record nor a statement is ahead of its row, nor a statement behind its
\* record, unless another saver's has overtaken it.
NotOlder ==
  /\ \A i \in Id : disk[i].obj # NoRow => disk[i].ver <= row[disk[i].obj].ver
  /\ \A s \in Saver : saver[s].stmt.obj # NoRow => saver[s].stmt.ver <= row[saver[s].stmt.obj].ver
  /\ overlap \/ \A s \in Saver, i \in Id :
       saver[s].stmt.obj # NoRow /\ disk[i].obj = saver[s].stmt.obj => disk[i].ver <= saver[s].stmt.ver

LEMMA Versions ==
  ASSUME RowsOK, SaversOK, DiskOK, MapsOK, RowsFit
  PROVE  /\ \A i \in Id : disk[i].obj # NoRow => /\ disk[i].obj \in 1 .. created /\ disk[i].obj \in Obj
                                                 /\ disk[i].ver \in Nat /\ row[disk[i].obj].id = i
         /\ \A s \in Saver : saver[s].stmt.obj # NoRow =>
              /\ saver[s].stmt.obj \in 1 .. created /\ saver[s].stmt.obj \in Obj /\ saver[s].stmt.ver \in Nat
         /\ \A o \in Obj : row[o].ver \in Nat
<1>1. \A i \in Id : disk[i].obj # NoRow => disk[i].ver \in Nat
  BY RecordFields DEF DiskOK
<1>2. \A s \in Saver : saver[s].stmt.obj # NoRow => saver[s].stmt.ver \in Nat
  BY SaverFields, StmtFields, NoStmtType
<1>3. \A o \in Obj : row[o].ver \in Nat
  BY RowFields
<1> QED  BY <1>1, <1>2, <1>3, CreatedType DEF RowsFit, AllNamed, AllOwn, Named

\* Steps that neither make a statement nor execute one.
LEMMA NotOlderStays ==
  ASSUME RowsOK, SaversOK, DiskOK, MapsOK, RowsFit, NotOlder, RowsOK',
         \A o \in 1 .. created : row'[o].ver >= row[o].ver,
         \A i \in Id : disk'[i] = disk[i] \/ disk'[i].obj = NoRow,
         \A s \in Saver : saver'[s].stmt = saver[s].stmt \/ saver'[s].stmt.obj = NoRow,
         overlap => overlap'
  PROVE  NotOlder'
<1>1. \A o \in Obj : row'[o].ver \in Nat
  BY DEF RowsOK, Row
<1>2. \A i \in Id : disk'[i].obj # NoRow => disk'[i].ver <= row'[disk'[i].obj].ver
  BY <1>1, Versions DEF NotOlder
<1>3. \A s \in Saver : saver'[s].stmt.obj # NoRow => saver'[s].stmt.ver <= row'[saver'[s].stmt.obj].ver
  BY <1>1, Versions DEF NotOlder
<1> QED  BY <1>2, <1>3 DEF NotOlder

LEMMA SaveDataNotOlder ==
  ASSUME RowsOK, SaversOK, DiskOK, MapsOK, RowsFit, NotOlder, NEW s \in Saver, SaveData(s)
  PROVE  NotOlder'
<1>1. PICK o \in saver[s].todo, st \in Stmt :
        /\ OnlySaver(s, saver[s].pc, saver[s].how, saver[s].todo \ {o}, st)
        /\ row[o].flags = {} => st = NoStmt
        /\ row[o].flags # {} =>
             /\ st.obj = o /\ st.ver = row[o].ver
             /\ st.kind = IF "new" \in row[o].flags THEN "insert" ELSE "update"
        /\ row'[o].id = row[o].id /\ row'[o].flags = {} /\ row'[o].ver = row[o].ver
        /\ \A p \in Obj \ {o} : row'[p] = row[p]
  BY SaveDataDoes
<1>2. disk' = disk /\ overlap' = overlap
  BY DEF SaveData
<1>3. o \in Obj /\ \A p \in Obj : row'[p].ver = row[p].ver
  BY <1>1, SaverFields
<1>4. st.obj # NoRow => st.obj = o /\ st.ver = row[o].ver
  BY <1>1, NoStmtType
<1>5. \A t \in Saver : saver'[t].stmt = IF t = s THEN st ELSE saver[t].stmt
  BY <1>1 DEF OnlySaver
<1> QED  BY <1>2, <1>3, <1>4, <1>5, Versions DEF NotOlder

LEMMA ExecNotOlder ==
  ASSUME RowsOK, SaversOK, DiskOK, MapsOK, RowsFit, SaversFit, overlap \/ Apart, NotOlder,
         NEW s \in Saver, Exec(s)
  PROVE  NotOlder' /\ \A i \in Id : disk'[i].obj = disk[i].obj /\ ~overlap => disk'[i].ver >= disk[i].ver
<1> DEFINE st == saver[s].stmt
           k == row[st.obj].id
<1>1. /\ st.obj \in Obj /\ st.obj # NoRow /\ k \in Id
      /\ OnlySaver(s, saver[s].pc, saver[s].how, saver[s].todo, NoStmt)
      /\ \A j \in Id \ {k} : disk'[j] = disk[j]
      /\ \/ disk'[k] = disk[k]
         \/ /\ disk'[k].obj = st.obj /\ disk'[k].ver = st.ver
  BY ExecDoes, NoRowIsNone
<1>2. row' = row /\ overlap' = overlap
  BY DEF Exec
<1>3. \A t \in Saver : saver'[t].stmt = IF t = s THEN NoStmt ELSE saver[t].stmt
  BY <1>1 DEF OnlySaver
<1>4. ~overlap => \A t \in Saver \ {s} : saver[t].stmt.obj = NoRow
  <2> SUFFICES ASSUME ~overlap PROVE \A t \in Saver \ {s} : saver[t].stmt.obj = NoRow
    OBVIOUS
  <2>1. Sound
    BY DEF Sound
  <2>2. Saving(s)
    BY <1>1, NoStmtType DEF SaversFit, Saving
  <2> QED  BY <2>1, <2>2, OthersRest
<1>5. /\ st.ver \in Nat /\ st.ver <= row[st.obj].ver
      /\ ~overlap => \A i \in Id : disk[i].obj = st.obj => disk[i].ver <= st.ver
  BY <1>1, Versions DEF NotOlder
<1> HIDE DEF st, k
<1>6. NotOlder'
  <2>1. \A i \in Id : disk'[i].obj # NoRow => disk'[i].ver <= row'[disk'[i].obj].ver
    BY <1>1, <1>2, <1>5 DEF NotOlder
  <2>2. \A t \in Saver : saver'[t].stmt.obj # NoRow => saver'[t].stmt.ver <= row'[saver'[t].stmt.obj].ver
    BY <1>2, <1>3, NoStmtType DEF NotOlder
  <2>3. ~overlap => \A t \in Saver : saver'[t].stmt.obj = NoRow
    BY <1>3, <1>4, NoStmtType
  <2> QED  BY <1>2, <2>1, <2>2, <2>3 DEF NotOlder
<1>7. ASSUME NEW i \in Id, disk'[i].obj = disk[i].obj, ~overlap PROVE disk'[i].ver >= disk[i].ver
  <2>1. disk[i].ver \in Nat
    BY RecordFields DEF DiskOK, Record, Nothing
  <2> QED  BY <1>1, <1>5, <1>7, <2>1
<1> QED  BY <1>6, <1>7

LEMMA RestartNotOlder ==
  ASSUME RowsOK, SaversOK, DiskOK, MapsOK, RowsFit, Restart PROVE NotOlder'
<1>1. disk' = disk
  BY DEF Restart
<1>2. \A s \in Saver : saver'[s].stmt.obj = NoRow
  BY RestartDoes, NoStmtType
<1>3. \A i \in Id : disk[i].obj # NoRow => row'[disk[i].obj].ver = disk[i].ver
  BY RestartDoes, Versions
<1> QED  BY <1>1, <1>2, <1>3, Versions DEF NotOlder

\* Of all steps only Exec changes a record that stays.
NoGoingBack == \A i \in Id : (disk'[i].obj = disk[i].obj /\ ~overlap) => disk'[i].ver >= disk[i].ver

LEMMA QuietStep ==
  ASSUME MapsOK, RowsOK, SaversOK, DiskOK, NEW s \in Saver,
         SaveStep(s), ~SaveData(s), ~Exec(s)
  PROVE  /\ row' = row /\ (overlap => overlap')
         /\ \A i \in Id : disk'[i] = disk[i] \/ disk'[i] = Nothing
         /\ \A t \in Saver : saver'[t].stmt = saver[t].stmt \/ saver'[t].stmt.obj = NoRow
<1>1. row' = row /\ (overlap => overlap')
  <2>1. row' = row
    BY Zenon DEF SaveStep, StartSave, FetchRemoved, Delete, ResetRemoved, FetchRows, FetchNewRows, SaveCutShort,
       EndSave
  <2>2. overlap => overlap'
    BY Zenon DEF SaveStep, StartSave, FetchRemoved, Delete, ResetRemoved, FetchRows, FetchNewRows, SaveCutShort,
       EndSave
  <2> QED  BY <2>1, <2>2
<1>2. \A i \in Id : disk'[i] = disk[i] \/ disk'[i] = Nothing
  <2>1. CASE Delete(s)
    BY <2>1, DeleteDoes
  <2>2. CASE ~Delete(s)
    BY <2>2, Zenon DEF SaveStep, StartSave, FetchRemoved, ResetRemoved, FetchRows, FetchNewRows, SaveCutShort,
       EndSave
  <2> QED  BY <2>1, <2>2
<1>3. ASSUME NEW place, NEW todo, Goes(s, place, todo)
      PROVE  \A t \in Saver : saver'[t].stmt = saver[t].stmt
  BY <1>3 DEF Goes, SaverAt, SaversOK
<1>4. ASSUME \E place, how : OnlySaver(s, place, how, {}, NoStmt)
      PROVE  \A t \in Saver : saver'[t].stmt = saver[t].stmt \/ saver'[t].stmt.obj = NoRow
  BY <1>4, NoStmtType DEF OnlySaver
<1>5. CASE StartSave(s, IF s = "loop" /\ m_quit THEN "quick" ELSE "plain")
  <2>1. PICK how \in How : StartSave(s, how)
    BY <1>5 DEF How
  <2> QED  BY <1>1, <1>2, <1>4, <2>1, StartSaveDoes
<1>6. CASE EndSave(s) \/ SaveCutShort(s)
  <2>1. SaveReturns(s)
    BY <1>6 DEF EndSave, SaveCutShort
  <2> QED  BY <1>1, <1>2, <1>4, <2>1, SaveReturnsDoes
<1>7. CASE \E place, todo : Goes(s, place, todo)
  BY <1>1, <1>2, <1>3, <1>7
<1>8. FetchRemoved(s) \/ Delete(s) \/ ResetRemoved(s) \/ FetchRows(s) \/ FetchNewRows(s)
        => \E place, todo : Goes(s, place, todo)
  BY Zenon DEF FetchRemoved, Delete, ResetRemoved, FetchRows, FetchNewRows
<1> QED  BY <1>5, <1>6, <1>7, <1>8, Zenon DEF SaveStep

LEMMA NotOlderStep ==
  Inv /\ NotOlder /\ [Next]_vars => NotOlder' /\ NoGoingBack
<1> SUFFICES ASSUME Inv, NotOlder, [Next]_vars PROVE NotOlder' /\ NoGoingBack
  OBVIOUS
<1>1. MapsOK /\ RowsOK /\ SaversOK /\ DiskOK /\ RowsFit /\ SaversFit /\ (overlap \/ Apart)
  BY TypeParts DEF Inv
<1>2. RowsOK'
  BY TypeStep, Zenon DEF Inv, TypeOK, RowsOK
<1>3. ASSUME \A o \in 1 .. created : row'[o].ver >= row[o].ver,
             \A i \in Id : disk'[i] = disk[i] \/ disk'[i] = Nothing,
             \A s \in Saver : saver'[s].stmt = saver[s].stmt \/ saver'[s].stmt.obj = NoRow,
             overlap => overlap'
      PROVE  NotOlder' /\ NoGoingBack
  <2>1. \A i \in Id : disk'[i] = disk[i] \/ disk'[i].obj = NoRow
    BY <1>3 DEF Nothing
  <2>2. NotOlder'
    BY <1>1, <1>2, <1>3, <2>1, NotOlderStays
  <2>3. ASSUME NEW i \in Id, disk'[i].obj = disk[i].obj PROVE disk'[i].ver >= disk[i].ver
    <3>1. disk[i] \in Record \cup {Nothing} /\ disk[i].ver \in Nat
      BY <1>1, RecordFields DEF DiskOK, Record, Nothing
    <3> QED  BY <1>3, <2>3, <3>1, RecordFields DEF Nothing
  <2> QED  BY <2>2, <2>3 DEF NoGoingBack
<1>4. \A o \in Obj : row[o].ver \in Nat
  BY <1>1, RowFields
<1>5. 1 .. created \subseteq Obj /\ created \in Nat
  BY <1>1, CreatedType
<1>6. ASSUME NEW i \in Id, AddRow(i) PROVE NotOlder' /\ NoGoingBack
  <2>1. \A o \in 1 .. created : row'[o] = row[o]
    BY <1>1, <1>5, <1>6, AddRowDoes
  <2> QED  BY <1>3, <1>4, <1>5, <1>6, <2>1 DEF AddRow
<1>7. ASSUME NEW i \in Id, GetRow(i) # NoRow, Set(GetRow(i)) PROVE NotOlder' /\ NoGoingBack
  <2>1. \A o \in Obj : row'[o].ver >= row[o].ver
    BY <1>1, <1>4, <1>7, GetRowType, SetDoes
  <2> QED  BY <1>3, <1>5, <1>7, <2>1 DEF Set
<1>8. ASSUME NEW i \in Id, RemoveRow(i) PROVE NotOlder' /\ NoGoingBack
  BY <1>3, <1>4, <1>5, <1>8 DEF RemoveRow
<1>9. ASSUME NEW s \in Saver, SaveStep(s) PROVE NotOlder' /\ NoGoingBack
  <2>1. CASE SaveData(s)
    <3>1. NotOlder'
      BY <1>1, <2>1, SaveDataNotOlder
    <3>2. disk' = disk
      BY <2>1 DEF SaveData
    <3>3. \A i \in Id : disk[i].ver \in Nat
      BY <1>1, RecordFields DEF DiskOK, Record, Nothing
    <3> QED  BY <3>1, <3>2, <3>3 DEF NoGoingBack
  <2>2. CASE Exec(s)
    BY <1>1, <2>2, ExecNotOlder DEF NoGoingBack
  <2>3. CASE ~SaveData(s) /\ ~Exec(s)
    BY <1>1, <1>3, <1>4, <1>5, <1>9, <2>3, QuietStep
  <2> QED  BY <2>1, <2>2, <2>3
<1>10. CASE Restart
  <2>1. \A i \in Id : disk'[i] = disk[i] /\ disk[i].ver \in Nat
    BY <1>1, <1>10, RecordFields DEF Restart, DiskOK, Record, Nothing
  <2> QED  BY <1>1, <1>10, <2>1, RestartNotOlder DEF NoGoingBack
<1>11. CASE UNCHANGED vars
  BY <1>3, <1>4, <1>5, <1>11 DEF vars
<1> QED  BY <1>6, <1>7, <1>8, <1>9, <1>10, <1>11, Zenon DEF Next, HandlerStep

LEMMA NotOlderInit == Init => NotOlder
<1> SUFFICES ASSUME Init PROVE NotOlder
  OBVIOUS
<1>1. /\ \A i \in Id : disk[i].obj = NoRow
      /\ \A s \in Saver : saver[s].stmt.obj = NoRow
  BY RestingType, NoStmtType DEF Init, Nothing, SaverPc
<1> QED  BY <1>1 DEF NotOlder

\* No UPDATE of Exec (dbPlayerRow.Save and the like in a_db_tables.go) puts columns
\* back that the record has newer already, while no two saves overlap.
THEOREM RecordsCorrect == Spec => DiskNeverGoesBack
<1>1. Inv /\ NotOlder /\ [Next]_vars
        => [\A i \in Id : (disk'[i].obj = disk[i].obj /\ ~overlap) => disk'[i].ver >= disk[i].ver]_vars
  BY NotOlderStep DEF NoGoingBack
<1>2. Spec => []NotOlder
  <2>1. Inv /\ NotOlder /\ [Next]_vars => NotOlder'
    BY NotOlderStep
  <2> QED  BY <2>1, NotOlderInit, InvAlways, PTL DEF Spec
<1> QED  BY <1>1, <1>2, InvAlways, PTL DEF Spec, DiskNeverGoesBack
=============================================================================
