--------------------------- MODULE ConnTimerWheel ---------------------------
(***************************************************************************)
(* The hall server's connection timers as the code keeps them: a ring of   *)
(* 3 * HeartbeatInterval lists, an index that moves with the clock, and a  *)
(* map from each player to the list it stands in.  The handlers only write *)
(* to op_chan; one goroutine (Run) owns everything else, so what it does   *)
(* between two receives from the channel is one step here.                 *)
(*                                                                         *)
(* A list is the set of its players: the order in which one list's players *)
(* are put offline is of no consequence to the timers.                     *)
(***************************************************************************)
EXTENDS Integers, Sequences

CONSTANTS
  Player,                \* the players of the hall server
  HeartbeatInterval,     \* global_config.HeartbeatInterval, in seconds
  MaxClientConnections,  \* config.MaxClientConnections: capacity of op_chan
  MaxTime                \* bound: the clock stops here

ASSUME ConnTimerWheelAssumption ==
  /\ HeartbeatInterval \in Nat \ {0}
  /\ MaxClientConnections \in Nat \ {0}
  /\ MaxTime \in Nat \ {0}

VARIABLES
  now,               \* time.Now().Unix()
  op_chan,           \* the buffered channel of conn_op_data
  timer_lists,       \* the players in each list of the ring
  curr_timer_index,  \* the list the last pass ended at, -1 before the first
  last_check_time,   \* when the last pass was, 0 before the first
  players,           \* player -> the list its timer is in, NoList if it has none
  pc,                \* where Run is: draining the channel, passing, or asleep
  offlined           \* history: the players the last pass called OnLogout on

queueVars == <<now, op_chan>>
wheelVars == <<timer_lists, curr_timer_index, last_check_time, players, offlined>>
vars == <<now, op_chan, timer_lists, curr_timer_index, last_check_time,
          players, pc, offlined>>

-----------------------------------------------------------------------------
(* Types and helpers *)

lists_len == HeartbeatInterval * 3
List == 0..(lists_len - 1)
NoList == -1
Op == [op : {"insert", "remove"}, player_id : Player]

TypeOK ==
  /\ now \in 1..MaxTime
  /\ op_chan \in Seq(Op)
  /\ timer_lists \in [List -> SUBSET Player]
  /\ curr_timer_index \in -1..(lists_len - 1)
  /\ last_check_time \in 0..now
  /\ players \in [Player -> List \cup {NoList}]
  /\ pc \in {"drain", "pass", "sleep"}
  /\ offlined \in SUBSET Player

\* How many lists after the current one list i comes, 1 for the next one.
Ahead(i, curr) == IF i > curr THEN i - curr ELSE i - curr + lists_len

-----------------------------------------------------------------------------
(* The requests, made by the message handlers *)

\* conn_timer_wheel.Insert and Remove: send on op_chan, waiting while it is full.
Ask(o) ==
  /\ Len(op_chan) < MaxClientConnections
  /\ op_chan' = Append(op_chan, o)
  /\ UNCHANGED <<now, wheelVars, pc>>

-----------------------------------------------------------------------------
(* The goroutine *)

\* _remove: the player leaves the list its entry points to.
Without(lists, p) ==
  IF players[p] = NoList THEN lists
  ELSE [lists EXCEPT ![players[p]] = @ \ {p}]

\* A slip of insert: the index runs off the ring.
InsertPastTheEnd(p) ==
  LET i == curr_timer_index + HeartbeatInterval IN
  /\ timer_lists' = [Without(timer_lists, p) EXCEPT ![i] = @ \cup {p}]
  /\ players' = [players EXCEPT ![p] = i]

\* insert: an old timer is taken out first, the new one goes HeartbeatInterval
\* lists ahead of the current one.
insert(p) ==
  LET i == (curr_timer_index + HeartbeatInterval) % lists_len IN
  /\ timer_lists' = [Without(timer_lists, p) EXCEPT ![i] = @ \cup {p}]
  /\ players' = [players EXCEPT ![p] = i]

\* remove: nothing to do for a player with no timer.
remove(p) ==
  /\ timer_lists' = Without(timer_lists, p)
  /\ players' = [players EXCEPT ![p] = NoList]

\* Run receives one request and applies it.
Drain ==
  /\ pc = "drain"
  /\ op_chan # <<>>
  /\ LET o == Head(op_chan) IN
       IF o.op = "insert" THEN insert(o.player_id) ELSE remove(o.player_id)
  /\ op_chan' = Tail(op_chan)
  /\ UNCHANGED <<now, curr_timer_index, last_check_time, pc, offlined>>

\* The select's default branch: the channel is empty, the loop ends.
DrainEnd ==
  /\ pc = "drain"
  /\ op_chan = <<>>
  /\ pc' = "pass"
  /\ UNCHANGED <<queueVars, wheelVars>>

diff_secs == IF last_check_time = 0 THEN 0 ELSE now - last_check_time

\* A slip: a pause of more than a turn is taken modulo the turn.
IdxWithoutWholeTurn == (curr_timer_index + diff_secs) % lists_len

\* The list the pass ends at; a pause longer than the ring visits the whole ring.
idx ==
  IF diff_secs >= lists_len
  THEN IF curr_timer_index > 0 THEN curr_timer_index - 1 ELSE lists_len - 1
  ELSE (curr_timer_index + diff_secs) % lists_len

\* The lists from the one after the current to idx, in a circle.
Visited ==
  {i \in List : Ahead(i, curr_timer_index) <= Ahead(idx, curr_timer_index)}

\* The pass: the players of every visited list lose their timer and are logged
\* out (OnLogout), the lists become nil.  Without a second gone nothing happens,
\* except that the first pass of all starts the clock.
Pass ==
  /\ pc = "pass"
  /\ pc' = "sleep"
  /\ last_check_time' = now
  /\ IF diff_secs > 0
     THEN LET out == UNION {timer_lists[i] : i \in Visited} IN
          /\ offlined' = out
          /\ players' = [p \in Player |-> IF p \in out THEN NoList ELSE players[p]]
          /\ timer_lists' = [i \in List |->
                               IF i \in Visited THEN {} ELSE timer_lists[i]]
          /\ curr_timer_index' = idx
     ELSE /\ offlined' = {}
          /\ UNCHANGED <<timer_lists, players, curr_timer_index>>
  /\ UNCHANGED queueVars

\* time.Sleep(1s) is over: as much or as little of the clock's time has passed
\* as Tick has let pass.
Wake ==
  /\ pc = "sleep"
  /\ pc' = "drain"
  /\ UNCHANGED <<queueVars, wheelVars>>

\* The clock.  It does not run backwards.
Tick ==
  /\ now < MaxTime
  /\ now' = now + 1
  /\ UNCHANGED <<op_chan, wheelVars, pc>>

-----------------------------------------------------------------------------
Init ==
  /\ now = 1
  /\ op_chan = <<>>
  /\ timer_lists = [i \in List |-> {}]
  /\ curr_timer_index = -1
  /\ last_check_time = 0
  /\ players = [p \in Player |-> NoList]
  /\ pc = "drain"
  /\ offlined = {}

Next ==
  \/ \E o \in Op : Ask(o)
  \/ Drain
  \/ DrainEnd
  \/ Pass
  \/ Wake
  \/ Tick

Spec == Init /\ [][Next]_vars

-----------------------------------------------------------------------------
(* Properties *)

\* The two structures agree: a player stands in exactly the list its entry in
\* the players map points to.  insert and remove find a timer through the map,
\* the pass finds it through the lists; where they disagree, a timer that was
\* renewed or dropped still puts its player offline.
ListsMatchPlayers ==
  \A i \in List, p \in Player : p \in timer_lists[i] <=> players[p] = i

\* Timers stand at most HeartbeatInterval lists ahead of the current one, never
\* in it or in the two thirds of the ring behind it: a list that the index has
\* left behind without visiting would keep its players online for a whole turn.
WithinInterval ==
  \A p \in Player : players[p] # NoList =>
    Ahead(players[p], curr_timer_index) \in 1..HeartbeatInterval

\* The seconds the ring leaves a player.
TimeLeft ==
  [p \in Player |-> IF players[p] = NoList THEN 0
                    ELSE Ahead(players[p], curr_timer_index)]

CT == INSTANCE ConnTimer WITH left <- TimeLeft

\* The ring keeps the promise of ConnTimer: a pass puts offline exactly the
\* players whose HeartbeatInterval seconds are over, whatever the pause since
\* the last pass (longer than the ring included), wherever the index stands.
KeepsTimers == CT!Spec
=============================================================================
