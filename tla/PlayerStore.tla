----------------------------- MODULE PlayerStore -----------------------------
(***************************************************************************)
(* Where the hall server's players come from and where they stay: the      *)
(* counter of the Global row hands out their ids, the Players table        *)
(* (module DbTable) keeps their rows, and player_mgr finds them by id.     *)
(* DBC.Save saves the Global row first and the Players after it, in        *)
(* statements of their own, while players are being created.               *)
(*                                                                         *)
(* Players are never removed.  The server's id in a player's id is left    *)
(* out: it is the same for all players of a hall.                          *)
(***************************************************************************)
EXTENDS Integers

CONSTANTS
  Saver,        \* as in DbTable
  MaxPlayerId,  \* bound: the counter
  MaxRows,      \* bound: players created
  MaxVer        \* bound: changes of a player

ASSUME PlayerStoreAssumption ==
  /\ MaxPlayerId \in Nat \ {0}
  /\ MaxRows \in Nat \ {0}
  /\ MaxVer \in Nat

VARIABLES
  (* the Players table *)
  m_rows, m_new_rows, m_removed_rows, row, created, m_quit, saver, disk,
  failed, late, overlap,
  (* the Global row *)
  m_CurrentPlayerId, m_CurrentPlayerId_changed,
  CurrentPlayerId,  \* its record in the database
  globalSave,       \* saver -> [pc, arg]: how far it is with the Global row
  (* player_mgr *)
  id2players,       \* id -> the row of its player, NoRow for none
  (* C2SEnterGameRequestHandler, for a new account *)
  creator,          \* [pc, id]
  (* history *)
  behind,           \* at the last start a player on record was beyond the counter
  globalFailed      \* a statement of the Global row has failed, since the start

tableVars == <<m_rows, m_new_rows, m_removed_rows, row, created, m_quit, saver,
               disk, failed, late, overlap>>
counterVars == <<m_CurrentPlayerId, m_CurrentPlayerId_changed>>
globalVars == <<CurrentPlayerId, globalSave, globalFailed>>
playerVars == <<id2players, creator>>
vars == <<m_rows, m_new_rows, m_removed_rows, row, created, m_quit, saver, disk,
          failed, late, overlap, m_CurrentPlayerId, m_CurrentPlayerId_changed,
          CurrentPlayerId, globalSave, id2players, creator, behind, globalFailed>>

PlayerId == 1..MaxPlayerId

Players == INSTANCE DbTable WITH Id <- PlayerId

NotYet == [pc |-> "todo", arg |-> 0]
NoCreator == [pc |-> "idle", id |-> 1]

TypeOK ==
  /\ Players!TypeOK
  /\ m_CurrentPlayerId \in 0..MaxPlayerId
  /\ m_CurrentPlayerId_changed \in BOOLEAN
  /\ CurrentPlayerId \in 0..MaxPlayerId
  /\ globalSave \in [Saver -> [pc : {"todo", "exec", "done"}, arg : 0..MaxPlayerId]]
  /\ id2players \in [PlayerId -> Players!Obj \cup {Players!NoRow}]
  /\ creator \in [pc : {"idle", "mark", "add", "map"}, id : PlayerId]
  /\ behind \in BOOLEAN
  /\ globalFailed \in BOOLEAN

-----------------------------------------------------------------------------
(* A new account's player *)

\* GetNextPlayerId: the atomic addition ...
NextPlayerId ==
  /\ creator.pc = "idle"
  /\ m_CurrentPlayerId < MaxPlayerId
  /\ m_CurrentPlayerId' = m_CurrentPlayerId + 1
  /\ creator' = [pc |-> "mark", id |-> m_CurrentPlayerId + 1]
  /\ UNCHANGED <<tableVars, m_CurrentPlayerId_changed, globalVars, id2players, behind>>

\* A slip: the counter is not marked as changed.
DoNotMarkChanged ==
  /\ creator.pc = "mark"
  /\ creator' = [creator EXCEPT !.pc = "add"]
  /\ UNCHANGED <<tableVars, counterVars, globalVars, id2players, behind>>

\* ... and the changed flag, under the row's lock.
MarkChanged ==
  /\ creator.pc = "mark"
  /\ m_CurrentPlayerId_changed' = TRUE
  /\ creator' = [creator EXCEPT !.pc = "add"]
  /\ UNCHANGED <<tableVars, m_CurrentPlayerId, globalVars, id2players, behind>>

\* dbc.Players.AddRow looks at the new rows only.
AddPlayerRow ==
  /\ creator.pc = "add"
  /\ IF m_new_rows[creator.id] # Players!NoRow
     THEN creator' = NoCreator /\ UNCHANGED tableVars
     ELSE Players!AddRow(creator.id) /\ creator' = [creator EXCEPT !.pc = "map"]
  /\ UNCHANGED <<counterVars, globalVars, id2players, behind>>

\* player_mgr.Add2IdMap: a player who is there already is reported and replaced.
Add2IdMap ==
  /\ creator.pc = "map"
  /\ id2players' = [id2players EXCEPT ![creator.id] = created]
  /\ creator' = NoCreator
  /\ UNCHANGED <<tableVars, counterVars, globalVars, behind>>

\* A handler changes its player's row.
SetPlayer(i) ==
  /\ id2players[i] # Players!NoRow
  /\ Players!Set(id2players[i])
  /\ UNCHANGED <<counterVars, globalVars, playerVars, behind>>

-----------------------------------------------------------------------------
(* DBC.Save: Global, Players, and the other tables, which are left out *)

StartSave(s) ==
  /\ Players!StartSave(s, IF s = "loop" /\ m_quit THEN "quick" ELSE "plain")
  /\ UNCHANGED <<counterVars, globalVars, playerVars, behind>>

\* dbGlobalRow.save_data.
SaveGlobalData(s) ==
  /\ saver[s].pc = "before"
  /\ globalSave[s].pc = "todo"
  /\ globalSave' = [globalSave EXCEPT ![s] =
       [pc |-> IF m_CurrentPlayerId_changed THEN "exec" ELSE "done",
        arg |-> IF m_CurrentPlayerId_changed THEN m_CurrentPlayerId ELSE 0]]
  /\ m_CurrentPlayerId_changed' = FALSE
  /\ UNCHANGED <<tableVars, m_CurrentPlayerId, CurrentPlayerId, globalFailed,
                 playerVars, behind>>

\* Its statement; when that fails, the save is over before the Players' turn.
ExecGlobal(s) ==
  /\ globalSave[s].pc = "exec"
  /\ \/ /\ CurrentPlayerId' = globalSave[s].arg
        /\ globalSave' = [globalSave EXCEPT ![s] = [pc |-> "done", arg |-> 0]]
        /\ UNCHANGED <<tableVars, globalFailed>>
     \/ /\ globalFailed' = TRUE
        /\ globalSave' = [globalSave EXCEPT ![s] = NotYet]
        /\ Players!SaveReturns(s)
        /\ UNCHANGED <<m_rows, m_new_rows, m_removed_rows, row, created, disk,
                       failed, late, overlap, CurrentPlayerId>>
  /\ UNCHANGED <<counterVars, playerVars, behind>>

\* The Players' turn.
SavePlayers(s) ==
  /\ globalSave[s].pc = "done"
  /\ Players!FetchRemoved(s)
  /\ globalSave' = [globalSave EXCEPT ![s] = NotYet]
  /\ UNCHANGED <<counterVars, CurrentPlayerId, globalFailed, playerVars, behind>>

SavePlayersStep(s) ==
  /\ \/ Players!ResetRemoved(s) \/ Players!FetchRows(s) \/ Players!SaveData(s)
     \/ Players!Exec(s) \/ Players!FetchNewRows(s) \/ Players!EndSave(s)
  /\ UNCHANGED <<counterVars, globalVars, playerVars, behind>>

-----------------------------------------------------------------------------
\* DBC.Preload and on_preload, after the process has stopped.
Restart ==
  /\ Players!Restart
  /\ m_CurrentPlayerId' = CurrentPlayerId
  /\ m_CurrentPlayerId_changed' = FALSE
  /\ globalSave' = [s \in Saver |-> NotYet]
  /\ id2players' = [i \in PlayerId |-> disk[i].obj]
  /\ creator' = NoCreator
  /\ behind' = \E i \in PlayerId : disk[i] # Players!Nothing /\ i > CurrentPlayerId
  /\ globalFailed' = FALSE
  /\ UNCHANGED CurrentPlayerId

\* The first start: Preload has inserted the Global row.
Init ==
  /\ Players!Init
  /\ m_CurrentPlayerId = 0
  /\ m_CurrentPlayerId_changed = FALSE
  /\ CurrentPlayerId = 0
  /\ globalSave = [s \in Saver |-> NotYet]
  /\ id2players = [i \in PlayerId |-> Players!NoRow]
  /\ creator = NoCreator
  /\ behind = FALSE
  /\ globalFailed = FALSE

Next ==
  \/ NextPlayerId \/ MarkChanged \/ AddPlayerRow \/ Add2IdMap
  \/ \E i \in PlayerId : SetPlayer(i)
  \/ \E s \in Saver : \/ StartSave(s) \/ SaveGlobalData(s) \/ ExecGlobal(s)
                      \/ SavePlayers(s) \/ SavePlayersStep(s)
  \/ Restart

Spec == Init /\ [][Next]_vars

-----------------------------------------------------------------------------
(* Properties *)

\* A player once saved keeps his record: no other player's data gets under his id,
\* not even when the id is issued a second time.
SavedPlayerStays ==
  [][\A i \in PlayerId : disk[i] # Players!Nothing => disk'[i].obj = disk[i].obj]_vars

\* A player's changes are made to the row that is saved under his id, unless the
\* server came up with the counter behind the players.
PlayersHaveTheirRows ==
  \/ behind
  \/ \A i \in PlayerId : id2players[i] # Players!NoRow
                           => id2players[i] = Players!GetRow(i)

\* The counter's record falls behind the saved players only for as long as the
\* counter waits to be saved: until then a crash would make the next start issue
\* their ids again.  Failed statements and overlapping saves apart.
CounterCatchesUp ==
  \/ behind \/ globalFailed \/ overlap
  \/ \A i \in PlayerId :
       (disk[i] # Players!Nothing /\ i > CurrentPlayerId)
         => \/ m_CurrentPlayerId_changed
            \/ \E s \in Saver : globalSave[s].pc = "exec" /\ globalSave[s].arg >= i

\* The id of a new player is not taken: Add2IdMap reports an error otherwise
\* ("PlayerManager Add2IdMap already have player").
IdIsFree == creator.pc = "map" => id2players[creator.id] = Players!NoRow
=============================================================================
