----------------------------- MODULE ConnTimer -----------------------------
(***************************************************************************)
(* What the hall server's connection timers promise, without the wheel     *)
(* that keeps the promise: a player whose Insert request has been served   *)
(* has HeartbeatInterval seconds left, counted from the last time the      *)
(* timer goroutine looked at the clock; each look takes away the seconds   *)
(* that passed since the previous one and puts exactly the players with    *)
(* none left offline.  Requests are served in the order they were made.    *)
(* ConnTimerWheel implements this module.                                  *)
(***************************************************************************)
EXTENDS Integers, Sequences

CONSTANTS
  Player,                \* the players of the hall server
  HeartbeatInterval,     \* seconds a silent player stays online
  MaxClientConnections,  \* capacity of the request channel
  MaxTime                \* bound: the clock stops here

VARIABLES
  now,              \* time.Now().Unix()
  last_check_time,  \* the previous look at the clock, 0 before the first one
  op_chan,          \* requests not yet served
  left,             \* seconds each player has left, 0 for a player with no timer
  offlined          \* players the last look put offline

ctVars == <<now, last_check_time, op_chan, left, offlined>>

Op == [op : {"insert", "remove"}, player_id : Player]

TypeOK ==
  /\ now \in 1..MaxTime
  /\ last_check_time \in 0..MaxTime
  /\ op_chan \in Seq(Op)
  /\ left \in [Player -> 0..HeartbeatInterval]
  /\ offlined \in SUBSET Player

-----------------------------------------------------------------------------
Init ==
  /\ now = 1
  /\ last_check_time = 0
  /\ op_chan = <<>>
  /\ left = [p \in Player |-> 0]
  /\ offlined = {}

\* A request handler asks for a player's timer to be restarted or dropped.
\* The channel is bounded: the caller waits while it is full.
Ask(o) ==
  /\ Len(op_chan) < MaxClientConnections
  /\ op_chan' = Append(op_chan, o)
  /\ UNCHANGED <<now, last_check_time, left, offlined>>

\* The timer goroutine serves the oldest request.
Serve ==
  /\ op_chan # <<>>
  /\ LET o == Head(op_chan) IN
       left' = [left EXCEPT ![o.player_id] =
                  IF o.op = "insert" THEN HeartbeatInterval ELSE 0]
  /\ op_chan' = Tail(op_chan)
  /\ UNCHANGED <<now, last_check_time, offlined>>

\* Seconds since the previous look at the clock; the first look has none.
Elapsed == IF last_check_time = 0 THEN 0 ELSE now - last_check_time

\* The timer goroutine looks at the clock and puts offline who has no time left.
Check ==
  /\ offlined' = {p \in Player : left[p] \in 1..Elapsed}
  /\ left' = [p \in Player |->
                IF left[p] <= Elapsed THEN 0 ELSE left[p] - Elapsed]
  /\ last_check_time' = now
  /\ UNCHANGED <<now, op_chan>>

Tick ==
  /\ now < MaxTime
  /\ now' = now + 1
  /\ UNCHANGED <<last_check_time, op_chan, left, offlined>>

Next ==
  \/ \E o \in Op : Ask(o)
  \/ Serve
  \/ Check
  \/ Tick

Spec == Init /\ [][Next]_ctVars
=============================================================================
