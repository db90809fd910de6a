------------------------ MODULE ConnTimerWheel_proofs ------------------------
(***************************************************************************)
(* ConnTimerWheel keeps its types and its two structural invariants, and   *)
(* implements ConnTimer, for any number of players and any interval.       *)
(***************************************************************************)
EXTENDS ConnTimerWheel, TLAPS

(***************************************************************************)
(* Arithmetic of the ring.  The index is advanced modulo the length of the *)
(* ring, from a value below twice that length.                             *)
(***************************************************************************)

\* A number is its quotient times the divisor plus its remainder.
LEMMA DivMod ==
  ASSUME NEW L \in Int, L > 0, NEW x \in Int
  PROVE  /\ x \div L \in Int
         /\ x % L \in 0..(L - 1)
         /\ x = L * (x \div L) + (x % L)
  BY SMT

\* A product with a positive factor is at least the other factor, and so on.
LEMMA MultiplePositive ==
  ASSUME NEW L \in Int, L > 0, NEW q \in Int, q > 0 PROVE L * q >= L
  BY SMT

LEMMA MultipleNegative ==
  ASSUME NEW L \in Int, L > 0, NEW q \in Int, q < 0 PROVE L * q <= -L
  BY SMT

LEMMA MultipleTwo ==
  ASSUME NEW L \in Int, L > 0, NEW q \in Int, q > 1 PROVE L * q >= 2 * L
  BY SMT

\* Below the divisor, the remainder is the number itself.
LEMMA ModBelow ==
  ASSUME NEW L \in Int, L > 0, NEW x \in 0..(L - 1)
  PROVE  x % L = x
<1> DEFINE q == x \div L
           m == x % L
<1>1. q \in Int /\ m \in 0..(L - 1) /\ x = L * q + m
  BY DivMod
<1> HIDE DEF q, m
<1>2. ~(q > 0)
  BY <1>1, MultiplePositive
<1>3. ~(q < 0)
  BY <1>1, MultipleNegative
<1>4. m = x
  BY <1>1, <1>2, <1>3
<1> QED  BY <1>4 DEF m

\* Once round, the remainder is the number less the divisor.
LEMMA ModOnceRound ==
  ASSUME NEW L \in Int, L > 0, NEW x \in L..(2 * L - 1)
  PROVE  x % L = x - L
<1> DEFINE q == x \div L
           m == x % L
<1>1. q \in Int /\ m \in 0..(L - 1) /\ x = L * q + m
  BY DivMod
<1> HIDE DEF q, m
<1>2. ~(q > 1)
  BY <1>1, MultipleTwo
<1>3. ~(q < 0)
  BY <1>1, MultipleNegative
<1>4. q = 1
  BY <1>1, <1>2, <1>3
<1>5. m = x - L
  BY <1>1, <1>4
<1> QED  BY <1>5 DEF m

\* Moving d lists on from any index, less than a turn, comes to the list that is
\* d ahead.
LEMMA AdvanceIsAhead ==
  ASSUME NEW c \in -1..(lists_len - 1), NEW d \in 1..(lists_len - 1)
  PROVE  /\ (c + d) % lists_len \in List
         /\ Ahead((c + d) % lists_len, c) = d
<1>1. lists_len \in Int /\ lists_len > 0
  BY ConnTimerWheelAssumption DEF lists_len
<1>2. CASE c + d < lists_len
  <2>1. (c + d) % lists_len = c + d
    BY <1>1, <1>2, ModBelow
  <2> QED  BY <1>1, <1>2, <2>1 DEF List, Ahead
<1>3. CASE c + d >= lists_len
  <2>1. (c + d) % lists_len = c + d - lists_len
    BY <1>1, <1>3, ModOnceRound
  <2> QED  BY <1>1, <1>3, <2>1 DEF List, Ahead
<1> QED  BY <1>1, <1>2, <1>3

\* A list beyond the new index is as much nearer as the index has moved.
LEMMA AheadFromThere ==
  ASSUME NEW c \in -1..(lists_len - 1), NEW i \in List, NEW j \in List,
         Ahead(i, c) > Ahead(j, c)
  PROVE  Ahead(i, j) = Ahead(i, c) - Ahead(j, c)
  BY ConnTimerWheelAssumption DEF lists_len, List, Ahead

LEMMA AheadType ==
  ASSUME NEW c \in -1..(lists_len - 1), NEW i \in List
  PROVE  Ahead(i, c) \in 1..lists_len
  BY ConnTimerWheelAssumption DEF lists_len, List, Ahead

(***************************************************************************)
(* The invariant                                                           *)
(***************************************************************************)

Inv == TypeOK /\ ListsMatchPlayers /\ WithinInterval

\* A pass after a pause of some seconds ends at a list of the ring: as many
\* lists ahead as seconds have passed, or beyond every timer.
LEMMA IdxReach ==
  ASSUME TypeOK, diff_secs > 0
  PROVE  /\ idx \in List
         /\ \/ Ahead(idx, curr_timer_index) = diff_secs
            \/ /\ Ahead(idx, curr_timer_index) >= HeartbeatInterval
               /\ diff_secs >= HeartbeatInterval
<1>1. lists_len \in Int /\ lists_len >= 3 /\ lists_len > HeartbeatInterval
  BY ConnTimerWheelAssumption DEF lists_len
<1>2. diff_secs \in Int /\ curr_timer_index \in -1..(lists_len - 1)
  BY DEF TypeOK, diff_secs
<1>3. CASE diff_secs < lists_len
  <2>1. idx = (curr_timer_index + diff_secs) % lists_len
    BY <1>1, <1>2, <1>3 DEF idx
  <2> QED  BY <1>1, <1>2, <1>3, <2>1, AdvanceIsAhead
<1>4. CASE diff_secs >= lists_len
  <2>1. idx = IF curr_timer_index > 0 THEN curr_timer_index - 1 ELSE lists_len - 1
    BY <1>4 DEF idx
  <2>2. idx \in List /\ Ahead(idx, curr_timer_index) >= lists_len - 1
    BY <1>1, <1>2, <2>1 DEF List, Ahead
  <2>3. Ahead(idx, curr_timer_index) \in Int
    BY <1>2, <2>2, AheadType
  <2>4. lists_len - 1 >= HeartbeatInterval /\ HeartbeatInterval \in Int
    BY ConnTimerWheelAssumption DEF lists_len
  <2> HIDE DEF idx, diff_secs, lists_len
  <2>5. Ahead(idx, curr_timer_index) >= HeartbeatInterval
    BY <1>1, <2>2, <2>3, <2>4
  <2>6. diff_secs >= HeartbeatInterval
    BY <1>1, <1>2, <1>4, <2>4
  <2> QED  BY <2>2, <2>5, <2>6
<1> QED  BY <1>1, <1>2, <1>3, <1>4

LEMMA InitInv == Init => Inv
  BY ConnTimerWheelAssumption
  DEF Init, Inv, TypeOK, ListsMatchPlayers, WithinInterval, List, NoList, lists_len, Op

\* Where insert puts a timer.
LEMMA InsertIndex ==
  ASSUME TypeOK
  PROVE  LET i == (curr_timer_index + HeartbeatInterval) % lists_len IN
         i \in List /\ Ahead(i, curr_timer_index) = HeartbeatInterval
<1>1. HeartbeatInterval \in 1..(lists_len - 1)
  BY ConnTimerWheelAssumption DEF lists_len
<1>2. curr_timer_index \in -1..(lists_len - 1)
  BY DEF TypeOK
<1> QED  BY <1>1, <1>2, AdvanceIsAhead

\* Serving a request keeps the invariant.
LEMMA DrainInv == Inv /\ Drain => Inv'
<1> SUFFICES ASSUME Inv, Drain PROVE Inv'
  OBVIOUS
<1> USE DEF Inv
<1> DEFINE o == Head(op_chan)
           p == o.player_id
           i == (curr_timer_index + HeartbeatInterval) % lists_len
<1>1. o \in Op /\ op_chan' \in Seq(Op)
  BY DEF Drain, TypeOK
<1>2. p \in Player
  BY <1>1 DEF Op
<1>3. i \in List /\ Ahead(i, curr_timer_index) = HeartbeatInterval
  BY InsertIndex
<1>4. NoList \notin List
  BY DEF NoList, List
<1> HIDE DEF o, i
<1>5. CASE o.op = "insert"
  <2>1. /\ timer_lists' = [Without(timer_lists, p) EXCEPT ![i] = @ \cup {p}]
        /\ players' = [players EXCEPT ![p] = i]
    BY <1>5 DEF Drain, insert, o, i
  <2>2. TypeOK'
    BY <1>1, <1>2, <1>3, <2>1 DEF TypeOK, Drain, Without, List
  <2>3. ListsMatchPlayers'
    BY <1>2, <1>3, <1>4, <2>1 DEF TypeOK, ListsMatchPlayers, Without
  <2>4. WithinInterval'
    BY <1>2, <1>3, <2>1, ConnTimerWheelAssumption
    DEF TypeOK, WithinInterval, Drain, Ahead
  <2> QED  BY <2>2, <2>3, <2>4
<1>6. CASE o.op # "insert"
  <2>1. /\ timer_lists' = Without(timer_lists, p)
        /\ players' = [players EXCEPT ![p] = NoList]
    BY <1>6 DEF Drain, remove, o
  <2>2. TypeOK'
    BY <1>1, <1>2, <2>1 DEF TypeOK, Drain, Without, List
  <2>3. ListsMatchPlayers'
    BY <1>2, <1>4, <2>1 DEF TypeOK, ListsMatchPlayers, Without
  <2>4. WithinInterval'
    BY <1>2, <2>1 DEF TypeOK, WithinInterval, Drain, Ahead
  <2> QED  BY <2>2, <2>3, <2>4
<1> QED  BY <1>5, <1>6

\* The players a pass logs out are those whose list it visits.
LEMMA VisitedPlayers ==
  ASSUME TypeOK, ListsMatchPlayers, NEW p \in Player
  PROVE  p \in UNION {timer_lists[i] : i \in Visited}
           <=> players[p] # NoList /\ players[p] \in Visited
<1>1. Visited \subseteq List /\ NoList \notin List
  BY DEF Visited, List, NoList
<1> QED  BY <1>1 DEF TypeOK, ListsMatchPlayers

\* A pass keeps the invariant.
LEMMA PassInv == Inv /\ Pass => Inv'
<1> SUFFICES ASSUME Inv, Pass PROVE Inv'
  OBVIOUS
<1> USE DEF Inv
<1>1. CASE diff_secs > 0
  <2> DEFINE out == UNION {timer_lists[i] : i \in Visited}
  <2>1. /\ players' = [p \in Player |-> IF p \in out THEN NoList ELSE players[p]]
        /\ timer_lists' = [i \in List |-> IF i \in Visited THEN {} ELSE timer_lists[i]]
        /\ curr_timer_index' = idx
        /\ offlined' = out
        /\ last_check_time' = now /\ now' = now /\ op_chan' = op_chan
        /\ pc' = "sleep"
    BY <1>1 DEF Pass, queueVars
  <2>2. \A p \in Player : p \in out <=> players[p] # NoList /\ players[p] \in Visited
    BY VisitedPlayers
  <2>3. Visited \subseteq List /\ NoList \notin List
    BY DEF Visited, List, NoList
  <2>4. out \subseteq Player
    BY <2>3 DEF TypeOK
  <2>5. idx \in List
    BY <1>1, IdxReach
  <2> HIDE DEF out
  <2>6. TypeOK'
    BY <2>1, <2>3, <2>4, <2>5 DEF TypeOK, List
  <2>7. ListsMatchPlayers'
    BY <2>1, <2>2, <2>3 DEF TypeOK, ListsMatchPlayers
  <2>8. ASSUME NEW p \in Player, players'[p] # NoList
        PROVE  Ahead(players'[p], curr_timer_index') \in 1..HeartbeatInterval
    <3>1. players'[p] = players[p] /\ players[p] # NoList /\ players[p] \notin Visited
      BY <2>1, <2>2, <2>8
    <3>2. players[p] \in List
      BY <3>1 DEF TypeOK
    <3>3. curr_timer_index \in -1..(lists_len - 1)
      BY DEF TypeOK
    <3>4. /\ Ahead(players[p], curr_timer_index) \in 1..lists_len
          /\ Ahead(idx, curr_timer_index) \in 1..lists_len
      BY <2>5, <3>2, <3>3, AheadType
    <3>5. lists_len \in Int
      BY ConnTimerWheelAssumption DEF lists_len
    <3>6. Ahead(players[p], curr_timer_index) > Ahead(idx, curr_timer_index)
      BY <3>1, <3>2, <3>4, <3>5 DEF Visited
    <3>7. Ahead(players[p], idx)
            = Ahead(players[p], curr_timer_index) - Ahead(idx, curr_timer_index)
      BY <2>5, <3>2, <3>3, <3>6, AheadFromThere
    <3>8. Ahead(players[p], curr_timer_index) \in 1..HeartbeatInterval
      BY <3>1 DEF WithinInterval
    <3> QED
      BY <2>1, <3>1, <3>4, <3>5, <3>6, <3>7, <3>8, ConnTimerWheelAssumption
  <2>9. WithinInterval'
    BY <2>8 DEF WithinInterval, Ahead, lists_len, NoList
  <2> QED  BY <2>6, <2>7, <2>9
<1>2. CASE ~(diff_secs > 0)
  <2>1. /\ UNCHANGED <<timer_lists, players, curr_timer_index, now, op_chan>>
        /\ offlined' = {} /\ last_check_time' = now /\ pc' = "sleep"
    BY <1>2 DEF Pass, queueVars
  <2> QED  BY <2>1 DEF TypeOK, ListsMatchPlayers, WithinInterval, Ahead
<1> QED  BY <1>1, <1>2

LEMMA NextInv == Inv /\ [Next]_vars => Inv'
<1> SUFFICES ASSUME Inv, [Next]_vars PROVE Inv'
  OBVIOUS
<1>1. ASSUME NEW o \in Op, Ask(o) PROVE Inv'
  BY <1>1
  DEF Inv, Ask, wheelVars, TypeOK, ListsMatchPlayers, WithinInterval, Ahead
<1>2. CASE Drain
  BY <1>2, DrainInv
<1>3. CASE DrainEnd
  BY <1>3
  DEF Inv, DrainEnd, queueVars, wheelVars, TypeOK, ListsMatchPlayers, WithinInterval, Ahead
<1>4. CASE Pass
  BY <1>4, PassInv
<1>5. CASE Wake
  BY <1>5
  DEF Inv, Wake, queueVars, wheelVars, TypeOK, ListsMatchPlayers, WithinInterval, Ahead
<1>6. CASE Tick
  BY <1>6, ConnTimerWheelAssumption
  DEF Inv, Tick, wheelVars, TypeOK, ListsMatchPlayers, WithinInterval, Ahead
<1>7. CASE UNCHANGED vars
  BY <1>7 DEF Inv, vars, TypeOK, ListsMatchPlayers, WithinInterval, Ahead
<1> QED  BY <1>1, <1>2, <1>3, <1>4, <1>5, <1>6, <1>7 DEF Next

LEMMA SpecInv == Spec => []Inv
  BY InitInv, NextInv, PTL DEF Spec

\* The variables of conn_timer_wheel.go keep their types: the index stays on the
\* ring and op_chan holds well-formed requests.
THEOREM TypeCorrect == Spec => []TypeOK
  BY SpecInv, PTL DEF Inv

\* conn_timer_wheel.go: the players map and the lists agree in every state.
THEOREM ListsAgree == Spec => []ListsMatchPlayers
  BY SpecInv, PTL DEF Inv

\* conn_timer_wheel.go: no timer is ever behind the index or further ahead than
\* the interval.
THEOREM TimersWithinInterval == Spec => []WithinInterval
  BY SpecInv, PTL DEF Inv

(***************************************************************************)
(* The ring implements ConnTimer: TimeLeft is the refinement mapping.      *)
(***************************************************************************)

LEMMA InitMaps == Init => CT!Init
  BY DEF Init, CT!Init, TimeLeft

\* A step that touches neither the ring nor its index leaves the time left alone.
LEMMA SameTimeLeft ==
  ASSUME UNCHANGED <<players, curr_timer_index>>
  PROVE  UNCHANGED TimeLeft
  BY DEF TimeLeft, Ahead

\* Serving a request on the ring is serving it on the clock.
LEMMA DrainMaps == Inv /\ Drain => CT!Serve
<1> SUFFICES ASSUME Inv, Drain PROVE CT!Serve
  OBVIOUS
<1> DEFINE o == Head(op_chan)
           p == o.player_id
           i == (curr_timer_index + HeartbeatInterval) % lists_len
<1>1. o \in Op /\ op_chan # <<>> /\ op_chan' = Tail(op_chan)
      /\ UNCHANGED <<now, curr_timer_index, last_check_time, offlined>>
  BY DEF Inv, Drain, TypeOK
<1>2. p \in Player
  BY <1>1 DEF Op
<1>3. i \in List /\ Ahead(i, curr_timer_index) = HeartbeatInterval
  BY InsertIndex DEF Inv
<1>4. NoList \notin List
  BY DEF NoList, List
<1>5. players \in [Player -> List \cup {NoList}]
  BY DEF Inv, TypeOK
<1>6. players' = [players EXCEPT ![p] = IF o.op = "insert" THEN i ELSE NoList]
  BY DEF Drain, insert, remove
<1> HIDE DEF i
<1>7. \A q \in Player :
        TimeLeft'[q] = IF q # p THEN TimeLeft[q]
                       ELSE IF o.op = "insert" THEN HeartbeatInterval ELSE 0
  BY <1>1, <1>2, <1>3, <1>4, <1>5, <1>6 DEF TimeLeft, Ahead
<1>8. TimeLeft' = [TimeLeft EXCEPT ![p] =
                     IF o.op = "insert" THEN HeartbeatInterval ELSE 0]
  <2>1. TimeLeft = [q \in Player |-> TimeLeft[q]]
        /\ TimeLeft' = [q \in Player |-> TimeLeft'[q]]
    BY DEF TimeLeft
  <2> HIDE DEF p, o
  <2> QED  BY <1>7, <2>1
<1> QED  BY <1>1, <1>8 DEF CT!Serve

\* A pass over the ring is a look at the clock: it logs out exactly the players
\* whose time is over.
LEMMA PassMaps == Inv /\ Pass => CT!Check
<1> SUFFICES ASSUME Inv, Pass PROVE CT!Check
  OBVIOUS
<1> USE DEF Inv
<1>1. CT!Elapsed = diff_secs /\ diff_secs \in Nat
  BY DEF CT!Elapsed, diff_secs, TypeOK
<1>2. /\ last_check_time' = now /\ now' = now /\ op_chan' = op_chan
      /\ curr_timer_index \in -1..(lists_len - 1)
      /\ lists_len \in Int /\ HeartbeatInterval \in Int
  BY ConnTimerWheelAssumption DEF Pass, queueVars, TypeOK, lists_len
<1>3. \A p \in Player : /\ TimeLeft[p] = IF players[p] = NoList THEN 0
                                         ELSE Ahead(players[p], curr_timer_index)
                        /\ TimeLeft[p] \in 0..HeartbeatInterval
                        /\ players[p] # NoList => players[p] \in List
                        /\ players[p] # NoList => TimeLeft[p] >= 1
  <2> SUFFICES ASSUME NEW p \in Player
               PROVE  /\ TimeLeft[p] = IF players[p] = NoList THEN 0
                                       ELSE Ahead(players[p], curr_timer_index)
                      /\ TimeLeft[p] \in 0..HeartbeatInterval
                      /\ players[p] # NoList => players[p] \in List
                      /\ players[p] # NoList => TimeLeft[p] >= 1
    OBVIOUS
  <2>1. TimeLeft[p] = IF players[p] = NoList THEN 0
                      ELSE Ahead(players[p], curr_timer_index)
    BY DEF TimeLeft
  <2>2. players[p] # NoList => players[p] \in List
    BY DEF TypeOK
  <2>3. players[p] # NoList => Ahead(players[p], curr_timer_index) \in 1..HeartbeatInterval
    BY DEF WithinInterval
  <2>4. 0 \in 0..HeartbeatInterval
    BY ConnTimerWheelAssumption
  <2> QED  BY <1>2, <2>1, <2>2, <2>3, <2>4
<1>4. CASE diff_secs > 0
  <2> DEFINE out == UNION {timer_lists[i] : i \in Visited}
  <2>1. /\ players' = [p \in Player |-> IF p \in out THEN NoList ELSE players[p]]
        /\ curr_timer_index' = idx
        /\ offlined' = out
    BY <1>4 DEF Pass
  <2>2. \A p \in Player : p \in out <=> players[p] # NoList /\ players[p] \in Visited
    BY VisitedPlayers
  <2>3. out \subseteq Player
    BY DEF TypeOK, Visited
  <2>4. /\ idx \in List
        /\ Ahead(idx, curr_timer_index) \in Int
        /\ \/ Ahead(idx, curr_timer_index) = diff_secs
           \/ /\ Ahead(idx, curr_timer_index) >= HeartbeatInterval
              /\ diff_secs >= HeartbeatInterval
    BY <1>2, <1>4, IdxReach, AheadType
  <2> HIDE DEF out
  <2>5. \A p \in Player : p \in out <=> TimeLeft[p] \in 1..diff_secs
    <3> SUFFICES ASSUME NEW p \in Player PROVE p \in out <=> TimeLeft[p] \in 1..diff_secs
      OBVIOUS
    <3>1. CASE players[p] = NoList
      BY <1>3, <2>2, <3>1
    <3>2. CASE players[p] # NoList
      <4>1. players[p] \in Visited
              <=> TimeLeft[p] <= Ahead(idx, curr_timer_index)
        BY <1>3, <3>2 DEF Visited
      <4> QED  BY <1>1, <1>2, <1>3, <2>2, <2>4, <3>2, <4>1
    <3> QED  BY <3>1, <3>2
  <2>6. offlined' = {p \in Player : TimeLeft[p] \in 1..CT!Elapsed}
    BY <1>1, <2>1, <2>3, <2>5
  <2>7. \A p \in Player : TimeLeft'[p] = IF TimeLeft[p] <= diff_secs THEN 0
                                         ELSE TimeLeft[p] - diff_secs
    <3> SUFFICES ASSUME NEW p \in Player
                 PROVE  TimeLeft'[p] = IF TimeLeft[p] <= diff_secs THEN 0
                                       ELSE TimeLeft[p] - diff_secs
      OBVIOUS
    <3>1. TimeLeft'[p] = IF players'[p] = NoList THEN 0 ELSE Ahead(players'[p], idx)
      BY <2>1 DEF TimeLeft, Ahead, lists_len, NoList
    <3>2. CASE TimeLeft[p] <= diff_secs
      <4>1. players'[p] = NoList
        BY <1>1, <1>3, <2>1, <2>5, <3>2
      <4> QED  BY <3>1, <3>2, <4>1
    <3>3. CASE ~(TimeLeft[p] <= diff_secs)
      <4>1. players'[p] = players[p] /\ players[p] # NoList /\ players[p] \in List
        BY <1>1, <1>3, <2>1, <2>5, <3>3
      <4>2. TimeLeft[p] = Ahead(players[p], curr_timer_index)
        BY <1>3, <4>1
      <4>3. /\ Ahead(idx, curr_timer_index) = diff_secs
            /\ Ahead(players[p], curr_timer_index) > Ahead(idx, curr_timer_index)
        BY <1>1, <1>2, <1>3, <2>4, <3>3, <4>2
      <4>4. Ahead(players[p], idx)
              = Ahead(players[p], curr_timer_index) - Ahead(idx, curr_timer_index)
        BY <1>2, <2>4, <4>1, <4>3, AheadFromThere
      <4> QED  BY <3>1, <3>3, <4>1, <4>2, <4>3, <4>4
    <3> QED  BY <3>2, <3>3
  <2>8. TimeLeft' = [p \in Player |-> IF TimeLeft[p] <= CT!Elapsed THEN 0
                                      ELSE TimeLeft[p] - CT!Elapsed]
    <3>1. TimeLeft' = [p \in Player |-> TimeLeft'[p]]
      BY DEF TimeLeft
    <3> QED  BY <1>1, <2>7, <3>1
  <2> QED  BY <1>2, <2>6, <2>8 DEF CT!Check
<1>5. CASE ~(diff_secs > 0)
  <2>1. CT!Elapsed = 0
    BY <1>1, <1>5
  <2>2. offlined' = {} /\ UNCHANGED <<players, curr_timer_index>>
    BY <1>5 DEF Pass
  <2>3. TimeLeft' = TimeLeft
    BY <2>2, SameTimeLeft
  <2>4. TimeLeft' = [p \in Player |-> IF TimeLeft[p] <= CT!Elapsed THEN 0
                                      ELSE TimeLeft[p] - CT!Elapsed]
    <3>1. TimeLeft = [p \in Player |-> TimeLeft[p]]
      BY DEF TimeLeft
    <3>2. \A p \in Player : TimeLeft[p] = IF TimeLeft[p] <= 0 THEN 0 ELSE TimeLeft[p] - 0
      BY <1>2, <1>3
    <3> QED  BY <2>1, <2>3, <3>1, <3>2
  <2>5. offlined' = {p \in Player : TimeLeft[p] \in 1..CT!Elapsed}
    BY <2>1, <2>2
  <2> QED  BY <1>2, <2>4, <2>5 DEF CT!Check
<1> QED  BY <1>4, <1>5

LEMMA NextMaps == Inv /\ [Next]_vars => [CT!Next]_CT!ctVars
<1> SUFFICES ASSUME Inv, [Next]_vars PROVE [CT!Next]_CT!ctVars
  OBVIOUS
<1>1. ASSUME NEW o \in Op, Ask(o) PROVE CT!Ask(o) /\ o \in CT!Op
  <2>1. UNCHANGED <<players, curr_timer_index>>
    BY <1>1 DEF Ask, wheelVars
  <2> QED  BY <1>1, <2>1, SameTimeLeft DEF Ask, wheelVars, CT!Ask, Op, CT!Op
<1>2. CASE Drain
  BY <1>2, DrainMaps DEF CT!Next
<1>3. CASE Pass
  BY <1>3, PassMaps DEF CT!Next
<1>4. CASE Tick
  <2>1. UNCHANGED <<players, curr_timer_index>>
    BY <1>4 DEF Tick, wheelVars
  <2> QED  BY <1>4, <2>1, SameTimeLeft DEF Tick, wheelVars, CT!Tick, CT!Next
<1>5. CASE DrainEnd \/ Wake \/ UNCHANGED vars
  <2>1. UNCHANGED <<players, curr_timer_index>>
        /\ UNCHANGED <<now, last_check_time, op_chan, offlined>>
    BY <1>5 DEF DrainEnd, Wake, queueVars, wheelVars, vars
  <2> QED  BY <2>1, SameTimeLeft DEF CT!ctVars
<1> QED  BY <1>1, <1>2, <1>3, <1>4, <1>5 DEF Next, CT!Next

\* conn_timer_wheel.go, Run: for every interval and any pauses of the goroutine,
\* the ring puts players offline exactly when ConnTimer says.
THEOREM WheelImplementsTimers == Spec => KeepsTimers
<1>1. Init => CT!Init
  BY InitMaps
<1>2. Inv /\ [Next]_vars => [CT!Next]_CT!ctVars
  BY NextMaps
<1> QED  BY <1>1, <1>2, SpecInv, PTL DEF Spec, KeepsTimers, CT!Spec
=============================================================================
