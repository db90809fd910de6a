------------------------ MODULE PlayerSession_proofs ------------------------
(***************************************************************************)
(* The sessions of the hall server keep their types and their safety       *)
(* invariants for any number of requests, accounts and players, any        *)
(* capacity of the timers' channel and any length of a request.            *)
(***************************************************************************)
EXTENDS PlayerSession, SequenceTheorems, FiniteSetTheorems, TLAPS

(***************************************************************************)
(* The invariant of the types: whoever holds a player's id got it from     *)
(* player_mgr, and a request has a player wherever its handler uses one.   *)
(***************************************************************************)

PlayersKnown ==
  /\ \A u \in Uid : uid2players[u] \in id2players \cup {NoPlayer}
  /\ \A r \in Request : p_of[r] \in id2players \cup {NoPlayer}
  /\ \A r \in Request : pc[r] \notin {"idle", "next", "create"} => p_of[r] # NoPlayer
  /\ \A r \in Request : pc[r] = "create" => p_of[r] = NoPlayer
  /\ gm.p \in id2players \cup {NoPlayer}
  /\ gm.pc # "idle" => gm.p # NoPlayer
  /\ wheel.p \in id2players \cup {NoPlayer}
  /\ TimersAreKnown

RequestsTyped ==
  /\ pc \in [Request -> RequestPc]
  /\ uid \in [Request -> Uid]
  /\ carried \in [Request -> 0..MaxLogins]
  /\ p_of \in [Request -> PlayerId \cup {NoPlayer}]
  /\ msgs \in [Request -> 0..MaxMsgs]

LEMMA InitTyped == Init => TypeOK /\ PlayersKnown
  BY PlayerSessionAssumption
     DEF Init, TypeOK, PlayersKnown, TimersAreKnown, PlayerId, NoPlayer, RequestPc, MessagePc, Op

(***************************************************************************)
(* What the helpers of the actions do to the types                         *)
(***************************************************************************)

LEMMA FinishTyped ==
  ASSUME TypeOK, NEW r \in Request, Finish(r)
  PROVE  RequestsTyped'
  BY PlayerSessionAssumption DEF TypeOK, Finish, RequestsTyped, RequestPc, NoPlayer

\* A request that is over knows no player.
LEMMA FinishKnown ==
  ASSUME TypeOK, PlayersKnown, NEW r \in Request, Finish(r), UNCHANGED id2players
  PROVE  /\ \A q \in Request : p_of'[q] \in id2players' \cup {NoPlayer}
         /\ \A q \in Request : pc'[q] \notin {"idle", "next", "create"} => p_of'[q] # NoPlayer
         /\ \A q \in Request : pc'[q] = "create" => p_of'[q] = NoPlayer
  BY DEF TypeOK, PlayersKnown, Finish

LEMMA NextMessageTyped ==
  ASSUME TypeOK, NEW r \in Request, NEW to \in RequestPc, NextMessage(r, to)
  PROVE  pc' \in [Request -> RequestPc] /\ msgs' \in [Request -> 0..MaxMsgs]
  BY PlayerSessionAssumption DEF TypeOK, NextMessage, At

LEMMA LetGoTyped ==
  ASSUME TypeOK, NEW p \in PlayerId \cup {NoPlayer}, LetGo(p)
  PROVE  abandoned' \in SUBSET PlayerId
<1>1. CASE p # NoPlayer /\ ~HasTimer(p)
  BY <1>1 DEF TypeOK, LetGo
<1>2. CASE ~(p # NoPlayer /\ ~HasTimer(p))
  BY <1>2 DEF TypeOK, LetGo
<1> QED  BY <1>1, <1>2

\* A request to the timers about a known player.
LEMMA SendTyped ==
  ASSUME TypeOK, TimersAreKnown, NEW p \in id2players,
         NEW o \in {InsertOp(p), RemoveOp(p)}, Send(o)
  PROVE  /\ op_chan' \in Seq(Op)
         /\ Len(op_chan) \in Nat /\ Len(op_chan') = Len(op_chan) + 1
         /\ \A i \in 1..Len(op_chan) : op_chan'[i] = op_chan[i]
         /\ op_chan'[Len(op_chan) + 1] = o
         /\ \A i \in 1..Len(op_chan') : op_chan'[i].player_id \in id2players
<1>1. o \in Op /\ o.player_id = p /\ op_chan \in Seq(Op)
  BY DEF TypeOK, Op, InsertOp, RemoveOp
<1>2. op_chan' = Append(op_chan, o)
  BY DEF Send
<1>3. /\ Append(op_chan, o) \in Seq(Op)
      /\ Len(Append(op_chan, o)) = Len(op_chan) + 1
      /\ \A i \in 1..Len(op_chan) : Append(op_chan, o)[i] = op_chan[i]
      /\ Append(op_chan, o)[Len(op_chan) + 1] = o
  BY <1>1, AppendProperties
<1>4. Len(op_chan) \in Nat
  BY <1>1
<1>5. ASSUME NEW i \in 1..Len(op_chan')
      PROVE  op_chan'[i].player_id \in id2players
  <2>1. CASE i \in 1..Len(op_chan)
    BY <1>2, <1>3, <2>1 DEF TimersAreKnown
  <2>2. CASE i = Len(op_chan) + 1
    BY <1>1, <1>2, <1>3, <2>2
  <2> QED  BY <1>2, <1>3, <1>4, <1>5, <2>1, <2>2
<1> QED  BY <1>2, <1>3, <1>4, <1>5

\* The timer goroutine takes the first request off the channel.
LEMMA ServeTyped ==
  ASSUME TypeOK, op_chan # <<>>, op_chan' = Tail(op_chan)
  PROVE  /\ Head(op_chan) = op_chan[1] /\ Head(op_chan) \in Op
         /\ op_chan' \in Seq(Op)
         /\ Len(op_chan) \in Nat /\ Len(op_chan) >= 1 /\ Len(op_chan') = Len(op_chan) - 1
         /\ \A i \in 1..(Len(op_chan) - 1) : op_chan'[i] = op_chan[i + 1]
<1>1. op_chan \in Seq(Op)
  BY DEF TypeOK
<1> QED  BY <1>1

(***************************************************************************)
(* Every step keeps the types                                              *)
(***************************************************************************)

LEMMA TypeStep ==
  ASSUME TypeOK, PlayersKnown, Next
  PROVE  TypeOK'
<1> USE DEF TypeOK, PlayerId, NoPlayer, tokenVars, mgrVars, flagVars, reqVars,
            timerVars, histVars
<1>1. ASSUME NEW r \in Request, NEW u \in Uid, Admit(r, u)
      PROVE  TypeOK'
  BY <1>1, PlayerSessionAssumption DEF Admit, At, RequestPc, PlayersKnown
<1>2. ASSUME NEW r \in Request, NextWithoutPlayer(r)
      PROVE  TypeOK'
  <2>1. RequestsTyped'
    BY <1>2, FinishTyped DEF NextWithoutPlayer
  <2> QED  BY <1>2, <2>1 DEF NextWithoutPlayer, RequestsTyped
<1>3. ASSUME NEW r \in Request, EndOfMessages(r)
      PROVE  TypeOK'
  <2>1. CASE p_of[r] = NoPlayer
    <3>1. RequestsTyped'
      BY <1>3, <2>1, FinishTyped DEF EndOfMessages
    <3> QED  BY <1>3, <2>1, <3>1 DEF EndOfMessages, RequestsTyped
  <2>2. CASE p_of[r] # NoPlayer
    BY <1>3, <2>2 DEF EndOfMessages, At, RequestPc
  <2> QED  BY <2>1, <2>2
<1>4. ASSUME NEW r \in Request, RestartTimer(r)
      PROVE  TypeOK'
  <2>1. op_chan' \in Seq(Op)
    BY <1>4, SendTyped DEF RestartTimer, PlayersKnown
  <2>2. RequestsTyped'
    BY <1>4, FinishTyped DEF RestartTimer
  <2> QED  BY <1>4, <2>1, <2>2 DEF RestartTimer, RequestsTyped
<1>5. ASSUME NEW r \in Request, NEW kind \in DOMAIN FirstStep, TakeLock(r, kind)
      PROVE  TypeOK'
  <2>1. FirstStep[kind] \in RequestPc /\ "finish" \in RequestPc
    BY DEF FirstStep, RequestPc, MessagePc
  <2>2. pc' \in [Request -> RequestPc] /\ msgs' \in [Request -> 0..MaxMsgs]
    BY <1>5, <2>1, NextMessageTyped DEF TakeLock
  <2> QED  BY <1>5, <2>2 DEF TakeLock
<1>6. ASSUME NEW r \in Request, TooFrequent(r)
      PROVE  TypeOK'
  <2>1. "next" \in RequestPc
    BY DEF RequestPc
  <2>2. pc' \in [Request -> RequestPc] /\ msgs' \in [Request -> 0..MaxMsgs]
    BY <1>6, <2>1, NextMessageTyped DEF TooFrequent
  <2> QED  BY <1>6, <2>2 DEF TooFrequent
<1>7. ASSUME NEW r \in Request, Unlock(r)
      PROVE  TypeOK'
  BY <1>7, PlayerSessionAssumption DEF Unlock, LeaveMessage, At, RequestPc
<1>8. ASSUME NEW r \in Request, LeaveRemovesTimer(r)
      PROVE  TypeOK'
  <2>1. op_chan' \in Seq(Op)
    BY <1>8, SendTyped DEF LeaveRemovesTimer, At, PlayersKnown
  <2>2. pc' \in [Request -> RequestPc]
    BY <1>8 DEF LeaveRemovesTimer, At, RequestPc, MessagePc
  <2> QED  BY <1>8, <2>1, <2>2 DEF LeaveRemovesTimer
<1>9. ASSUME NEW r \in Request, LeaveLogsOut(r)
      PROVE  TypeOK'
  BY <1>9, PlayerSessionAssumption DEF LeaveLogsOut, Logout, At, RequestPc, MessagePc
<1>10. ASSUME NEW r \in Request, ReconnectToken(r)
      PROVE  TypeOK'
  <2>1. token' \in [Uid -> 0..MaxLogins]
    BY <1>10 DEF ReconnectToken
  <2>2. CASE uid[r] \in banned
    BY <1>10, <2>1, <2>2 DEF ReconnectToken, At, RequestPc, MessagePc
  <2>3. CASE uid[r] \notin banned
    BY <1>10, <2>1, <2>3 DEF ReconnectToken, At, RequestPc, MessagePc
  <2> QED  BY <2>2, <2>3
<1>11. ASSUME NEW r \in Request, ReconnectRemovesTimer(r)
      PROVE  TypeOK'
  <2>1. op_chan' \in Seq(Op)
    BY <1>11, SendTyped DEF ReconnectRemovesTimer, At, PlayersKnown
  <2>2. pc' \in [Request -> RequestPc]
    BY <1>11 DEF ReconnectRemovesTimer, At, RequestPc, MessagePc
  <2> QED  BY <1>11, <2>1, <2>2 DEF ReconnectRemovesTimer
<1>12. ASSUME NEW r \in Request, ReconnectOnline(r)
      PROVE  TypeOK'
  BY <1>12, PlayerSessionAssumption DEF ReconnectOnline, At, RequestPc, MessagePc
<1>13. ASSUME NEW r \in Request, EnterRefused(r)
      PROVE  TypeOK'
  <2>1. abandoned' \in SUBSET PlayerId
    BY <1>13, LetGoTyped DEF EnterRefused
  <2>2. pc' \in [Request -> RequestPc] /\ msgs' \in [Request -> 0..MaxMsgs]
    BY <1>13, NextMessageTyped DEF EnterRefused, RequestPc
  <2>3. p_of' \in [Request -> PlayerId \cup {NoPlayer}]
    BY <1>13 DEF EnterRefused
  <2> QED  BY <1>13, <2>1, <2>2, <2>3 DEF EnterRefused
<1>14. ASSUME NEW r \in Request, EnterFindsPlayer(r)
      PROVE  TypeOK'
  <2>1. abandoned' \in SUBSET PlayerId
    BY <1>14, LetGoTyped DEF EnterFindsPlayer
  <2>2. pc' \in [Request -> RequestPc] /\ msgs' \in [Request -> 0..MaxMsgs]
    BY <1>14, NextMessageTyped DEF EnterFindsPlayer, RequestPc
  <2>3. p_of' \in [Request -> PlayerId \cup {NoPlayer}]
    BY <1>14 DEF EnterFindsPlayer
  <2> QED  BY <1>14, <2>1, <2>2, <2>3 DEF EnterFindsPlayer
<1>15. ASSUME NEW r \in Request, CreatePlayer(r)
      PROVE  TypeOK'
  <2>1. curr_player_id + 1 \in PlayerId /\ "adduid" \in RequestPc
    BY <1>15, PlayerSessionAssumption DEF CreatePlayer, RequestPc
  <2>2. /\ curr_player_id' \in 0..MaxPlayerId
        /\ id2players' \in SUBSET PlayerId
    BY <1>15, <2>1, PlayerSessionAssumption DEF CreatePlayer
  <2>3. /\ pc' \in [Request -> RequestPc]
        /\ p_of' \in [Request -> PlayerId \cup {NoPlayer}]
    BY <1>15, <2>1 DEF CreatePlayer, At
  <2> QED  BY <1>15, <2>2, <2>3 DEF CreatePlayer
<1>16. ASSUME NEW r \in Request, Add2UidMap(r)
      PROVE  TypeOK'
  BY <1>16, PlayerSessionAssumption DEF Add2UidMap, At, RequestPc, PlayersKnown
<1>17. ASSUME NEW r \in Request, OnLogin(r)
      PROVE  TypeOK'
  <2>1. reentered' \in SUBSET PlayerId
    BY <1>17 DEF OnLogin, At, PlayersKnown
  <2>2. pc' \in [Request -> RequestPc]
    BY <1>17 DEF OnLogin, At, RequestPc
  <2> QED  BY <1>17, <2>1, <2>2 DEF OnLogin
<1>18. ASSUME NEW r \in Request, EnterDone(r)
      PROVE  TypeOK'
  BY <1>18, PlayerSessionAssumption DEF EnterDone, At, RequestPc
<1>19. ASSUME NEW r \in Request, Panic(r)
      PROVE  TypeOK'
  BY <1>19, PlayerSessionAssumption DEF Panic, LeaveMessage, At, RequestPc
<1>20. ASSUME NEW r \in Request, EnterPanic(r)
      PROVE  TypeOK'
  <2>1. abandoned' \in SUBSET PlayerId
    BY <1>20, LetGoTyped DEF EnterPanic
  <2>2. RequestsTyped'
    BY <1>20, FinishTyped DEF EnterPanic
  <2> QED  BY <1>20, <2>1, <2>2 DEF EnterPanic, RequestsTyped
<1>21. ASSUME WheelServes
      PROVE  TypeOK'
  <2>1. Head(op_chan) \in Op /\ op_chan' \in Seq(Op)
    BY <1>21, ServeTyped DEF WheelServes
  <2>2. timers' \in SUBSET PlayerId
    BY <1>21, <2>1 DEF WheelServes, Op
  <2> QED  BY <1>21, <2>1, <2>2 DEF WheelServes
<1>22. ASSUME WheelPasses
      PROVE  TypeOK'
  BY <1>22, PlayerSessionAssumption DEF WheelPasses
<1>23. ASSUME WheelLogsOut
      PROVE  TypeOK'
  BY <1>23, PlayerSessionAssumption DEF WheelLogsOut, Logout
<1>24. ASSUME WheelSleeps
      PROVE  TypeOK'
  BY <1>24, PlayerSessionAssumption DEF WheelSleeps
<1>25. ASSUME NEW p \in PlayerId, WheelFinds(p)
      PROVE  TypeOK'
  BY <1>25, PlayerSessionAssumption DEF WheelFinds
<1>26. ASSUME NEW u \in Uid, SyncAccountToken(u)
      PROVE  TypeOK'
  BY <1>26, PlayerSessionAssumption DEF SyncAccountToken
<1>27. ASSUME NEW u \in Uid, BanBegins(u)
      PROVE  TypeOK'
  BY <1>27, PlayerSessionAssumption DEF BanBegins
<1>28. ASSUME BanRemovesTimer
      PROVE  TypeOK'
  <2>1. op_chan' \in Seq(Op)
    BY <1>28, SendTyped DEF BanRemovesTimer, PlayersKnown
  <2> QED  BY <1>28, <2>1 DEF BanRemovesTimer
<1>29. ASSUME BanLogsOut
      PROVE  TypeOK'
  BY <1>29, PlayerSessionAssumption DEF BanLogsOut, Logout
<1>30. ASSUME BanWrites
      PROVE  TypeOK'
  BY <1>30, PlayerSessionAssumption DEF BanWrites
<1>31. ASSUME WheelPanics
      PROVE  TypeOK'
  BY <1>31, PlayerSessionAssumption DEF WheelPanics, Logout
<1> QED  BY <1>1, <1>2, <1>3, <1>4, <1>5, <1>6, <1>7, <1>8, <1>9, <1>10, <1>11, <1>12,
            <1>13, <1>14, <1>15, <1>16, <1>17, <1>18, <1>19, <1>20, <1>21, <1>22, <1>23,
            <1>24, <1>25, <1>26, <1>27, <1>28, <1>29, <1>30, <1>31
         DEF Next, RequestStep, WheelStep, BanStep

(***************************************************************************)
(* Every step keeps the players known                                      *)
(***************************************************************************)

LEMMA KnownStep ==
  ASSUME TypeOK, PlayersKnown, Next
  PROVE  PlayersKnown'
<1> USE DEF PlayersKnown, TimersAreKnown, NoPlayer, tokenVars, mgrVars, flagVars, reqVars,
            timerVars, histVars
<1>1. ASSUME NEW r \in Request, NEW u \in Uid, Admit(r, u)
      PROVE  PlayersKnown'
  BY <1>1 DEF Admit, At, TypeOK
<1>2. ASSUME NEW r \in Request, NextWithoutPlayer(r)
      PROVE  PlayersKnown'
  BY <1>2, FinishKnown DEF NextWithoutPlayer
<1>3. ASSUME NEW r \in Request, EndOfMessages(r)
      PROVE  PlayersKnown'
  <2>1. CASE p_of[r] = NoPlayer
    BY <1>3, <2>1, FinishKnown DEF EndOfMessages
  <2>2. CASE p_of[r] # NoPlayer
    <3>1. \A q \in Request : pc'[q] # "create" /\ p_of[q] = NoPlayer
                              => pc'[q] \in {"idle", "next"}
      BY <1>3, <2>2 DEF EndOfMessages, At, TypeOK
    <3>2. \A q \in Request : pc'[q] = "create" => pc[q] = "create"
      BY <1>3, <2>2 DEF EndOfMessages, At, TypeOK
    <3> QED  BY <1>3, <2>2, <3>1, <3>2 DEF EndOfMessages
  <2> QED  BY <2>1, <2>2
<1>4. ASSUME NEW r \in Request, RestartTimer(r)
      PROVE  PlayersKnown'
  <2>1. \A i \in 1..Len(op_chan') : op_chan'[i].player_id \in id2players
    BY <1>4, SendTyped DEF RestartTimer
  <2> QED  BY <1>4, <2>1, FinishKnown DEF RestartTimer
<1>5. ASSUME NEW r \in Request, NEW kind \in DOMAIN FirstStep, TakeLock(r, kind)
      PROVE  PlayersKnown'
  BY <1>5 DEF TakeLock, FirstStep, NextMessage, At, TypeOK
<1>6. ASSUME NEW r \in Request, TooFrequent(r)
      PROVE  PlayersKnown'
  BY <1>6 DEF TooFrequent, NextMessage, At, TypeOK
<1>7. ASSUME NEW r \in Request, Unlock(r)
      PROVE  PlayersKnown'
  BY <1>7 DEF Unlock, At, TypeOK
<1>8. ASSUME NEW r \in Request, LeaveRemovesTimer(r)
      PROVE  PlayersKnown'
  <2>1. \A i \in 1..Len(op_chan') : op_chan'[i].player_id \in id2players
    BY <1>8, SendTyped DEF LeaveRemovesTimer, At
  <2> QED  BY <1>8, <2>1 DEF LeaveRemovesTimer, At, TypeOK
<1>9. ASSUME NEW r \in Request, LeaveLogsOut(r)
      PROVE  PlayersKnown'
  BY <1>9 DEF LeaveLogsOut, At, TypeOK
<1>10. ASSUME NEW r \in Request, ReconnectToken(r)
      PROVE  PlayersKnown'
  BY <1>10 DEF ReconnectToken, At, TypeOK
<1>11. ASSUME NEW r \in Request, ReconnectRemovesTimer(r)
      PROVE  PlayersKnown'
  <2>1. \A i \in 1..Len(op_chan') : op_chan'[i].player_id \in id2players
    BY <1>11, SendTyped DEF ReconnectRemovesTimer, At
  <2> QED  BY <1>11, <2>1 DEF ReconnectRemovesTimer, At, TypeOK
<1>12. ASSUME NEW r \in Request, ReconnectOnline(r)
      PROVE  PlayersKnown'
  BY <1>12 DEF ReconnectOnline, At, TypeOK
<1>13. ASSUME NEW r \in Request, EnterRefused(r)
      PROVE  PlayersKnown'
  BY <1>13 DEF EnterRefused, NextMessage, At, TypeOK
<1>14. ASSUME NEW r \in Request, EnterFindsPlayer(r)
      PROVE  PlayersKnown'
  BY <1>14 DEF EnterFindsPlayer, NextMessage, At, TypeOK
<1>15. ASSUME NEW r \in Request, CreatePlayer(r)
      PROVE  PlayersKnown'
  BY <1>15 DEF CreatePlayer, At, TypeOK
<1>16. ASSUME NEW r \in Request, Add2UidMap(r)
      PROVE  PlayersKnown'
  BY <1>16 DEF Add2UidMap, At, TypeOK
<1>17. ASSUME NEW r \in Request, OnLogin(r)
      PROVE  PlayersKnown'
  BY <1>17 DEF OnLogin, At, TypeOK
<1>18. ASSUME NEW r \in Request, EnterDone(r)
      PROVE  PlayersKnown'
  BY <1>18 DEF EnterDone, At, TypeOK
<1>19. ASSUME NEW r \in Request, Panic(r)
      PROVE  PlayersKnown'
  BY <1>19 DEF Panic, At, TypeOK
<1>20. ASSUME NEW r \in Request, EnterPanic(r)
      PROVE  PlayersKnown'
  BY <1>20 DEF EnterPanic, Finish, TypeOK
<1>21. ASSUME WheelServes
      PROVE  PlayersKnown'
  <2>1. timers' \subseteq id2players
    BY <1>21, ServeTyped DEF WheelServes
  <2>2. \A i \in 1..Len(op_chan') : op_chan'[i].player_id \in id2players
    BY <1>21, ServeTyped DEF WheelServes
  <2> QED  BY <1>21, <2>1, <2>2 DEF WheelServes
<1>22. ASSUME WheelPasses
      PROVE  PlayersKnown'
  BY <1>22 DEF WheelPasses, TypeOK
<1>23. ASSUME WheelLogsOut
      PROVE  PlayersKnown'
  BY <1>23 DEF WheelLogsOut, TypeOK
<1>24. ASSUME WheelSleeps
      PROVE  PlayersKnown'
  BY <1>24 DEF WheelSleeps, TypeOK
<1>25. ASSUME NEW p \in PlayerId, WheelFinds(p)
      PROVE  PlayersKnown'
  BY <1>25 DEF WheelFinds, TypeOK
<1>26. ASSUME NEW u \in Uid, SyncAccountToken(u)
      PROVE  PlayersKnown'
  BY <1>26 DEF SyncAccountToken, TypeOK
<1>27. ASSUME NEW u \in Uid, BanBegins(u)
      PROVE  PlayersKnown'
  BY <1>27 DEF BanBegins, TypeOK
<1>28. ASSUME BanRemovesTimer
      PROVE  PlayersKnown'
  <2>1. \A i \in 1..Len(op_chan') : op_chan'[i].player_id \in id2players
    BY <1>28, SendTyped DEF BanRemovesTimer
  <2> QED  BY <1>28, <2>1 DEF BanRemovesTimer, TypeOK
<1>29. ASSUME BanLogsOut
      PROVE  PlayersKnown'
  BY <1>29 DEF BanLogsOut, TypeOK
<1>30. ASSUME BanWrites
      PROVE  PlayersKnown'
  BY <1>30 DEF BanWrites, TypeOK
<1>31. ASSUME WheelPanics
      PROVE  PlayersKnown'
  BY <1>31 DEF WheelPanics, TypeOK
<1> QED  BY <1>1, <1>2, <1>3, <1>4, <1>5, <1>6, <1>7, <1>8, <1>9, <1>10, <1>11, <1>12,
            <1>13, <1>14, <1>15, <1>16, <1>17, <1>18, <1>19, <1>20, <1>21, <1>22, <1>23,
            <1>24, <1>25, <1>26, <1>27, <1>28, <1>29, <1>30, <1>31
         DEF Next, RequestStep, WheelStep, BanStep

LEMMA TypedStep ==
  TypeOK /\ PlayersKnown /\ [Next]_vars => TypeOK' /\ PlayersKnown'
<1>1. CASE Next
  BY <1>1, TypeStep, KnownStep
<1>2. CASE UNCHANGED vars
  BY <1>2 DEF vars, TypeOK, PlayersKnown, TimersAreKnown
<1> QED  BY <1>1, <1>2

\* The state always has its types: no request, timer or ban is about a player id
\* out of range, and no counter passes its bound.
THEOREM TypeCorrect == Spec => []TypeOK
<1>1. Spec => [](TypeOK /\ PlayersKnown)
  BY InitTyped, TypedStep, PTL DEF Spec
<1> QED  BY <1>1, PTL

\* The timer goroutine always finds the player of a timer in the id map.
THEOREM TimersKnown == Spec => []TimersAreKnown
<1>1. Spec => [](TypeOK /\ PlayersKnown)
  BY InitTyped, TypedStep, PTL DEF Spec
<1>2. PlayersKnown => TimersAreKnown
  BY DEF PlayersKnown
<1> QED  BY <1>1, <1>2, PTL

\* A uid keeps its player: Add2UidMap is the only step that writes the uid map, and it
\* writes where there is none.
THEOREM UidsKeepPlayers == Spec => UidKeepsPlayer
<1>1. ASSUME TypeOK, [Next]_vars
      PROVE  [\A u \in Uid : uid2players[u] # NoPlayer => uid2players'[u] = uid2players[u]]_vars
  <2>1. ASSUME NEW r \in Request, Add2UidMap(r)
        PROVE  \A u \in Uid : uid2players[u] # NoPlayer => uid2players'[u] = uid2players[u]
    BY <2>1 DEF Add2UidMap, TypeOK
  <2>2. CASE Next /\ ~ \E r \in Request : Add2UidMap(r)
    <3>1. UNCHANGED uid2players
      BY <2>2 DEF Next, RequestStep, WheelStep, BanStep, mgrVars, Admit, NextWithoutPlayer,
                  EndOfMessages, RestartTimer, TakeLock, TooFrequent, Unlock, Panic,
                  LeaveRemovesTimer, LeaveLogsOut, ReconnectToken, ReconnectRemovesTimer,
                  ReconnectOnline, EnterRefused, EnterFindsPlayer, CreatePlayer, OnLogin,
                  EnterDone, EnterPanic, WheelServes, WheelPasses, WheelFinds,
                  WheelLogsOut, WheelPanics, WheelSleeps, SyncAccountToken, BanBegins,
                  BanRemovesTimer, BanLogsOut, BanWrites
    <3> QED  BY <3>1
  <2>3. CASE UNCHANGED vars
    BY <2>3 DEF vars
  <2> QED  BY <1>1, <2>1, <2>2, <2>3
<1> QED  BY <1>1, TypeCorrect, PTL DEF Spec, UidKeepsPlayer

(***************************************************************************)
(* The lock of a player                                                    *)
(***************************************************************************)

\* LockHolds without the counting: of two requests inside a message handler of a
\* player, one is the other.
OneHolder ==
  \A p \in PlayerId :
    \/ p \in reentered
    \/ /\ \A r, s \in Processing(p) : r = s
       /\ Processing(p) # {} => is_lock[p] = 1

\* A step that is no part of the locking.
Quiet ==
  /\ \A p \in PlayerId : Processing(p)' = Processing(p)
  /\ UNCHANGED <<is_lock, reentered>>

LEMMA LockingSteps ==
  ASSUME TypeOK, PlayersKnown, Next
  PROVE  \/ Quiet
         \/ \E r \in Request : \/ \E kind \in DOMAIN FirstStep : TakeLock(r, kind)
                              \/ Unlock(r) \/ Panic(r) \/ OnLogin(r)
<1> USE DEF Quiet, Processing, MessagePc, TypeOK, tokenVars, mgrVars, flagVars, reqVars,
            timerVars, histVars
<1>1. ASSUME NEW r \in Request, NEW u \in Uid, Admit(r, u)
      PROVE  Quiet
  BY <1>1 DEF Admit, At
<1>2. ASSUME NEW r \in Request, NextWithoutPlayer(r)
      PROVE  Quiet
  BY <1>2 DEF NextWithoutPlayer, Finish
<1>3. ASSUME NEW r \in Request, EndOfMessages(r)
      PROVE  Quiet
  BY <1>3 DEF EndOfMessages, Finish, At
<1>4. ASSUME NEW r \in Request, RestartTimer(r)
      PROVE  Quiet
  BY <1>4 DEF RestartTimer, Finish
<1>5. ASSUME NEW r \in Request, TooFrequent(r)
      PROVE  Quiet
  BY <1>5 DEF TooFrequent, NextMessage, At
<1>6. ASSUME NEW r \in Request, LeaveRemovesTimer(r)
      PROVE  Quiet
  BY <1>6 DEF LeaveRemovesTimer, At
<1>7. ASSUME NEW r \in Request, LeaveLogsOut(r)
      PROVE  Quiet
  BY <1>7 DEF LeaveLogsOut, At
<1>8. ASSUME NEW r \in Request, ReconnectToken(r)
      PROVE  Quiet
  BY <1>8 DEF ReconnectToken, At
<1>9. ASSUME NEW r \in Request, ReconnectRemovesTimer(r)
      PROVE  Quiet
  BY <1>9 DEF ReconnectRemovesTimer, At
<1>10. ASSUME NEW r \in Request, ReconnectOnline(r)
      PROVE  Quiet
  BY <1>10 DEF ReconnectOnline, At
<1>11. ASSUME NEW r \in Request, EnterRefused(r)
      PROVE  Quiet
  BY <1>11 DEF EnterRefused, NextMessage, At
<1>12. ASSUME NEW r \in Request, EnterFindsPlayer(r)
      PROVE  Quiet
  BY <1>12 DEF EnterFindsPlayer, NextMessage, At
<1>13. ASSUME NEW r \in Request, CreatePlayer(r)
      PROVE  Quiet
  BY <1>13 DEF CreatePlayer, At
<1>14. ASSUME NEW r \in Request, Add2UidMap(r)
      PROVE  Quiet
  BY <1>14 DEF Add2UidMap, At
<1>15. ASSUME NEW r \in Request, EnterDone(r)
      PROVE  Quiet
  BY <1>15 DEF EnterDone, At
<1>16. ASSUME NEW r \in Request, EnterPanic(r)
      PROVE  Quiet
  BY <1>16 DEF EnterPanic, Finish
<1>17. ASSUME WheelStep \/ WheelPanics \/ (\E p \in PlayerId : WheelFinds(p))
      PROVE  Quiet
  BY <1>17 DEF WheelStep, WheelServes, WheelPasses, WheelLogsOut, WheelPanics, WheelSleeps,
               WheelFinds
<1>18. ASSUME BanStep \/ (\E u \in Uid : SyncAccountToken(u) \/ BanBegins(u))
      PROVE  Quiet
  BY <1>18 DEF BanStep, BanRemovesTimer, BanLogsOut, BanWrites, SyncAccountToken, BanBegins
<1> QED  BY <1>1, <1>2, <1>3, <1>4, <1>5, <1>6, <1>7, <1>8, <1>9, <1>10, <1>11, <1>12,
            <1>13, <1>14, <1>15, <1>16, <1>17, <1>18
         DEF Next, RequestStep

LEMMA InitLocks == Init => NoLockLeftBehind /\ OneHolder
  BY DEF Init, NoLockLeftBehind, OneHolder, Processing, MessagePc, PlayerId

LEMMA LockStep ==
  ASSUME TypeOK, PlayersKnown, NoLockLeftBehind, OneHolder, Next
  PROVE  NoLockLeftBehind' /\ OneHolder'
<1>1. CASE Quiet
  BY <1>1 DEF Quiet, NoLockLeftBehind, OneHolder
<1>2. ASSUME NEW r \in Request, NEW kind \in DOMAIN FirstStep, TakeLock(r, kind)
      PROVE  NoLockLeftBehind' /\ OneHolder'
  <2>1. p_of[r] \in PlayerId /\ is_lock[p_of[r]] = 0 /\ pc[r] = "next"
    BY <1>2 DEF TakeLock, NextMessage, At, TypeOK
  <2>2. pc'[r] \in MessagePc /\ p_of' = p_of /\ \A q \in Request : q # r => pc'[q] = pc[q]
    BY <1>2 DEF TakeLock, NextMessage, At, TypeOK, FirstStep, MessagePc
  <2>3. is_lock' = [is_lock EXCEPT ![p_of[r]] = 1] /\ reentered' = reentered
    BY <1>2 DEF TakeLock, histVars
  <2>4. \A p \in PlayerId : Processing(p)' = IF p = p_of[r] THEN Processing(p) \cup {r}
                                           ELSE Processing(p)
    BY <2>1, <2>2 DEF Processing, MessagePc
  <2>5. p_of[r] \in reentered \/ Processing(p_of[r]) = {}
    BY <2>1 DEF OneHolder
  <2>6. NoLockLeftBehind'
    BY <2>1, <2>3, <2>4 DEF NoLockLeftBehind, TypeOK
  <2>7. ASSUME NEW p \in PlayerId, p \notin reentered'
        PROVE  /\ \A q, s \in Processing(p)' : q = s
               /\ Processing(p)' # {} => is_lock'[p] = 1
    <3>1. CASE p = p_of[r]
      BY <2>3, <2>4, <2>5, <2>7, <3>1 DEF TypeOK
    <3>2. CASE p # p_of[r]
      BY <2>3, <2>4, <2>7, <3>2 DEF OneHolder, TypeOK
    <3> QED  BY <3>1, <3>2
  <2> QED  BY <2>6, <2>7 DEF OneHolder
<1>3. ASSUME NEW r \in Request, Unlock(r) \/ Panic(r)
      PROVE  NoLockLeftBehind' /\ OneHolder'
  <2>1. pc[r] = "finish" /\ pc' = [pc EXCEPT ![r] = "next"] /\ p_of' = p_of
    BY <1>3 DEF Unlock, Panic, At
  <2>2. p_of[r] \in PlayerId
    BY <2>1 DEF PlayersKnown, TypeOK
  <2>3. is_lock' = [is_lock EXCEPT ![p_of[r]] = 0]
    BY <1>3 DEF Unlock, Panic
  <2>4. \A p \in PlayerId : Processing(p)' = IF p = p_of[r] THEN Processing(p) \ {r}
                                           ELSE Processing(p)
    BY <2>1, <2>2 DEF Processing, MessagePc, TypeOK
  <2>5. r \in Processing(p_of[r])
    BY <2>1 DEF Processing, MessagePc
  <2>6. reentered' = IF Processing(p_of[r]) = {r} THEN reentered \ {p_of[r]} ELSE reentered
    BY <1>3 DEF Unlock, Panic, LeaveMessage
  <2>7. p_of[r] \notin reentered => Processing(p_of[r]) = {r}
    BY <2>2, <2>5 DEF OneHolder
  <2>8. NoLockLeftBehind'
    BY <2>2, <2>3, <2>4 DEF NoLockLeftBehind, TypeOK
  <2>9. OneHolder'
    BY <2>2, <2>3, <2>4, <2>6, <2>7 DEF OneHolder, TypeOK
  <2> QED  BY <2>8, <2>9
<1>4. ASSUME NEW r \in Request, OnLogin(r)
      PROVE  NoLockLeftBehind' /\ OneHolder'
  <2>1. pc[r] = "login" /\ pc' = [pc EXCEPT ![r] = "entered"] /\ p_of' = p_of
    BY <1>4 DEF OnLogin, At
  <2>2. p_of[r] \in PlayerId
    BY <2>1 DEF PlayersKnown, TypeOK
  <2>3. \A p \in PlayerId : Processing(p)' = Processing(p)
    BY <2>1 DEF Processing, MessagePc, TypeOK
  <2>4. /\ is_lock' = [is_lock EXCEPT ![p_of[r]] = 0]
        /\ reentered' = IF Processing(p_of[r]) = {} THEN reentered
                        ELSE reentered \cup {p_of[r]}
    BY <1>4 DEF OnLogin
  <2> QED  BY <2>2, <2>3, <2>4 DEF NoLockLeftBehind, OneHolder, TypeOK
<1> QED  BY <1>1, <1>2, <1>3, <1>4, LockingSteps

LEMMA LockInvariant == Spec => [](NoLockLeftBehind /\ OneHolder)
<1>1. TypeOK /\ PlayersKnown /\ NoLockLeftBehind /\ OneHolder /\ [Next]_vars
        => NoLockLeftBehind' /\ OneHolder'
  <2>1. ASSUME NoLockLeftBehind, OneHolder, UNCHANGED vars
        PROVE  NoLockLeftBehind' /\ OneHolder'
    BY <2>1 DEF vars, NoLockLeftBehind, OneHolder, Processing
  <2> QED  BY <2>1, LockStep
<1>2. Spec => [](TypeOK /\ PlayersKnown)
  BY InitTyped, TypedStep, PTL DEF Spec
<1> QED  BY <1>1, <1>2, InitLocks, PTL DEF Spec

\* is_lock is 1 only while a message of the player is processed: neither a panic nor
\* a refused message leaves a lock behind.
THEOREM NoLockStays == Spec => []NoLockLeftBehind
  BY LockInvariant, PTL

\* A player's messages are processed one at a time, with the lock taken, except for
\* a player who was logged in anew by OnLogin meanwhile.
THEOREM LockKeepsMessagesApart == Spec => []LockHolds
<1>1. ASSUME OneHolder PROVE LockHolds
  <2>1. ASSUME NEW p \in PlayerId, \A r, s \in Processing(p) : r = s
        PROVE  Cardinality(Processing(p)) <= 1
    <3>1. CASE Processing(p) = {}
      BY <3>1, FS_EmptySet
    <3>2. ASSUME NEW r \in Processing(p)
          PROVE  Cardinality(Processing(p)) <= 1
      <4>1. Processing(p) = {r}
        BY <2>1
      <4> QED  BY <4>1, FS_Singleton
    <3> QED  BY <3>1, <3>2
  <2> QED  BY <1>1, <2>1 DEF OneHolder, LockHolds
<1> QED  BY <1>1, LockInvariant, PTL

(***************************************************************************)
(* Whoever is online has a timer                                           *)
(***************************************************************************)

\* Somebody sees to it that p goes offline in the end.
Tended(p) ==
  \/ HasTimer(p)
  \/ \E r \in Request : pc[r] # "idle" /\ p_of[r] = p
  \/ wheel.pc = "kick" /\ wheel.p = p
  \/ gm.pc = "logout" /\ gm.p = p
  \/ p \in abandoned

LEMMA TimersUntouched ==
  ASSUME UNCHANGED <<op_chan, timers>>
  PROVE  \A p : HasTimer(p)' = HasTimer(p)
  BY DEF HasTimer

\* A request for a restart takes nobody's timer away and gives one to its player.
LEMMA InsertGivesTimer ==
  ASSUME TypeOK, TimersAreKnown, UNCHANGED timers, NEW p \in id2players, Send(InsertOp(p))
  PROVE  HasTimer(p)' /\ \A q \in PlayerId : HasTimer(q) => HasTimer(q)'
<1>1. /\ Len(op_chan) \in Nat /\ Len(op_chan') = Len(op_chan) + 1
      /\ \A i \in 1..Len(op_chan) : op_chan'[i] = op_chan[i]
      /\ op_chan'[Len(op_chan) + 1] = InsertOp(p)
  BY SendTyped
<1>2. \A q \in PlayerId : InsertOp(p) # RemoveOp(q)
  BY DEF InsertOp, RemoveOp
<1>3. HasTimer(p)'
  BY <1>1 DEF HasTimer
<1>4. ASSUME NEW q \in PlayerId, HasTimer(q) PROVE HasTimer(q)'
  BY <1>1, <1>2, <1>4 DEF HasTimer
<1> QED  BY <1>3, <1>4

\* A request for a removal takes away the timer of its player at most.
LEMMA RemoveKeepsOthers ==
  ASSUME TypeOK, TimersAreKnown, UNCHANGED timers, NEW p \in id2players, Send(RemoveOp(p)),
         NEW q \in PlayerId, q # p, HasTimer(q)
  PROVE  HasTimer(q)'
<1>1. /\ Len(op_chan) \in Nat /\ Len(op_chan') = Len(op_chan) + 1
      /\ \A i \in 1..Len(op_chan) : op_chan'[i] = op_chan[i]
      /\ op_chan'[Len(op_chan) + 1] = RemoveOp(p)
  BY SendTyped
<1>2. RemoveOp(p) # RemoveOp(q)
  BY DEF RemoveOp
<1> QED  BY <1>1, <1>2 DEF HasTimer

\* Serving a request makes a timer of a last restart and drops one only for a removal.
LEMMA ServeKeepsTimers ==
  ASSUME TypeOK, WheelServes, NEW p \in PlayerId, HasTimer(p)
  PROVE  HasTimer(p)'
<1>1. /\ Head(op_chan) = op_chan[1]
      /\ Len(op_chan) \in Nat /\ Len(op_chan) >= 1 /\ Len(op_chan') = Len(op_chan) - 1
      /\ \A i \in 1..(Len(op_chan) - 1) : op_chan'[i] = op_chan[i + 1]
      /\ op_chan[1] \in Op
  BY ServeTyped DEF WheelServes
<1>2. timers' = IF op_chan[1].op = "insert" THEN timers \cup {op_chan[1].player_id}
                ELSE timers \ {op_chan[1].player_id}
  BY <1>1 DEF WheelServes
<1>3. CASE \E i \in 2..Len(op_chan) : /\ op_chan[i] = InsertOp(p)
                                     /\ \A j \in (i + 1)..Len(op_chan) : op_chan[j] # RemoveOp(p)
  <2>1. PICK i \in 2..Len(op_chan) : /\ op_chan[i] = InsertOp(p)
                                     /\ \A j \in (i + 1)..Len(op_chan) : op_chan[j] # RemoveOp(p)
    BY <1>3
  <2>2. i - 1 \in 1..Len(op_chan') /\ op_chan'[i - 1] = InsertOp(p)
    BY <1>1, <2>1
  <2>3. ASSUME NEW j \in ((i - 1) + 1)..Len(op_chan') PROVE op_chan'[j] # RemoveOp(p)
    BY <1>1, <2>1
  <2> QED  BY <2>2, <2>3 DEF HasTimer
<1>4. CASE /\ op_chan[1] = InsertOp(p) \/ (p \in timers /\ op_chan[1] # RemoveOp(p))
           /\ \A j \in 2..Len(op_chan) : op_chan[j] # RemoveOp(p)
  <2>1. p \in timers'
    <3>1. CASE op_chan[1] = InsertOp(p)
      BY <1>2, <3>1 DEF InsertOp
    <3>2. CASE p \in timers /\ op_chan[1] # RemoveOp(p)
      <4>1. op_chan[1].op = "insert" \/ op_chan[1].player_id # p
        BY <1>1, <3>2 DEF Op, RemoveOp
      <4> QED  BY <1>2, <3>2, <4>1
    <3> QED  BY <1>4, <3>1, <3>2
  <2>2. ASSUME NEW j \in 1..Len(op_chan') PROVE op_chan'[j] # RemoveOp(p)
    BY <1>1, <1>4
  <2> QED  BY <2>1, <2>2 DEF HasTimer
<1> QED  BY <1>1, <1>3, <1>4 DEF HasTimer

LEMMA OnlineStep ==
  ASSUME TypeOK, PlayersKnown, OnlineHasTimer, Next, NEW p \in PlayerId, is_login'[p] = 1
  PROVE  Tended(p)'
<1> USE DEF Tended, TypeOK, NoPlayer, PlayerId, tokenVars, mgrVars, flagVars, reqVars,
            timerVars, histVars
<1>0. is_login[p] = 1 => Tended(p)
  BY DEF OnlineHasTimer
<1>a. p # NoPlayer
  BY DEF PlayerId
<1> HIDE DEF PlayerId
<1>1. ASSUME NEW r \in Request, NEW u \in Uid, Admit(r, u)
      PROVE  Tended(p)'
  BY <1>0, <1>1, TimersUntouched
     DEF Admit, At
<1>2. ASSUME NEW r \in Request, NextWithoutPlayer(r)
      PROVE  Tended(p)'
  BY <1>0, <1>a, <1>2, TimersUntouched
     DEF NextWithoutPlayer, Finish
<1>3. ASSUME NEW r \in Request, EndOfMessages(r)
      PROVE  Tended(p)'
  <2>1. CASE p_of[r] = NoPlayer
    BY <1>0, <1>a, <1>3, <2>1, TimersUntouched
       DEF EndOfMessages, Finish
  <2>2. CASE p_of[r] # NoPlayer
    BY <1>0, <1>3, <2>2, TimersUntouched
       DEF EndOfMessages, At
  <2> QED  BY <2>1, <2>2
<1>4. ASSUME NEW r \in Request, RestartTimer(r)
      PROVE  Tended(p)'
  <2>1. p_of[r] \in id2players
    BY <1>4 DEF RestartTimer, PlayersKnown
  <2>2. TimersAreKnown /\ UNCHANGED timers /\ Send(InsertOp(p_of[r]))
    BY <1>4 DEF RestartTimer, PlayersKnown
  <2>3. HasTimer(p) => HasTimer(p)'
    BY <2>1, <2>2, InsertGivesTimer
  <2>4. CASE p = p_of[r]
    BY <2>1, <2>2, <2>4, InsertGivesTimer
  <2>5. CASE p # p_of[r]
    BY <1>0, <1>4, <2>3, <2>5 DEF RestartTimer, Finish
  <2> QED  BY <2>4, <2>5
<1>5. ASSUME NEW r \in Request, NEW kind \in DOMAIN FirstStep, TakeLock(r, kind)
      PROVE  Tended(p)'
  BY <1>0, <1>5, TimersUntouched
     DEF TakeLock, FirstStep, NextMessage, At
<1>6. ASSUME NEW r \in Request, TooFrequent(r)
      PROVE  Tended(p)'
  BY <1>0, <1>6, TimersUntouched
     DEF TooFrequent, NextMessage, At
<1>7. ASSUME NEW r \in Request, Unlock(r)
      PROVE  Tended(p)'
  BY <1>0, <1>7, TimersUntouched
     DEF Unlock, At
<1>8. ASSUME NEW r \in Request, LeaveRemovesTimer(r)
      PROVE  Tended(p)'
  <2>1. p_of[r] \in id2players
    BY <1>8 DEF LeaveRemovesTimer, At, PlayersKnown
  <2>2. HasTimer(p) /\ p # p_of[r] => HasTimer(p)'
    BY <1>8, <2>1, RemoveKeepsOthers DEF LeaveRemovesTimer, PlayersKnown
  <2> QED  BY <1>0, <1>8, <2>2 DEF LeaveRemovesTimer, At
<1>9. ASSUME NEW r \in Request, LeaveLogsOut(r)
      PROVE  Tended(p)'
  BY <1>0, <1>9, TimersUntouched
     DEF LeaveLogsOut, Logout, At
<1>10. ASSUME NEW r \in Request, ReconnectToken(r)
      PROVE  Tended(p)'
  BY <1>0, <1>10, TimersUntouched
     DEF ReconnectToken, At
<1>11. ASSUME NEW r \in Request, ReconnectRemovesTimer(r)
      PROVE  Tended(p)'
  <2>1. p_of[r] \in id2players
    BY <1>11 DEF ReconnectRemovesTimer, At, PlayersKnown
  <2>2. HasTimer(p) /\ p # p_of[r] => HasTimer(p)'
    BY <1>11, <2>1, RemoveKeepsOthers DEF ReconnectRemovesTimer, PlayersKnown
  <2> QED  BY <1>0, <1>11, <2>2 DEF ReconnectRemovesTimer, At
<1>12. ASSUME NEW r \in Request, ReconnectOnline(r)
      PROVE  Tended(p)'
  BY <1>0, <1>12, TimersUntouched
     DEF ReconnectOnline, At
<1>13. ASSUME NEW r \in Request, EnterRefused(r)
      PROVE  Tended(p)'
  <2>1. CASE p = p_of[r]
    BY <1>a, <1>13, <2>1, TimersUntouched DEF EnterRefused, LetGo
  <2>2. CASE p # p_of[r]
    BY <1>0, <1>13, <2>2, TimersUntouched
       DEF EnterRefused, LetGo, NextMessage, At
  <2> QED  BY <2>1, <2>2
<1>14. ASSUME NEW r \in Request, EnterFindsPlayer(r)
      PROVE  Tended(p)'
  <2>1. /\ UNCHANGED <<timerVars, flagVars, gm>>
        /\ pc' = [pc EXCEPT ![r] = IF uid2players[uid[r]] = NoPlayer
                                    THEN "create" ELSE "login"]
        /\ p_of' = [p_of EXCEPT ![r] = uid2players[uid[r]]]
    BY <1>14 DEF EnterFindsPlayer, NextMessage, At
  <2>2. IF p_of[r] = uid2players[uid[r]] THEN UNCHANGED abandoned ELSE LetGo(p_of[r])
    BY <1>14 DEF EnterFindsPlayer
  <2>3. CASE p = p_of'[r]
    BY <2>1, <2>3
  <2>4. CASE p # p_of'[r] /\ p = p_of[r]
    BY <1>a, <2>1, <2>2, <2>4, TimersUntouched DEF LetGo
  <2>5. CASE p # p_of[r]
    BY <1>0, <2>1, <2>2, <2>5, TimersUntouched DEF LetGo
  <2> QED  BY <2>3, <2>4, <2>5
<1>15. ASSUME NEW r \in Request, CreatePlayer(r)
      PROVE  Tended(p)'
  BY <1>0, <1>a, <1>15, TimersUntouched
     DEF CreatePlayer, At, PlayersKnown
<1>16. ASSUME NEW r \in Request, Add2UidMap(r)
      PROVE  Tended(p)'
  BY <1>0, <1>16, TimersUntouched
     DEF Add2UidMap, At
<1>17. ASSUME NEW r \in Request, OnLogin(r)
      PROVE  Tended(p)'
  BY <1>0, <1>17, TimersUntouched
     DEF OnLogin, At
<1>18. ASSUME NEW r \in Request, EnterDone(r)
      PROVE  Tended(p)'
  BY <1>0, <1>18, TimersUntouched
     DEF EnterDone, At
<1>19. ASSUME NEW r \in Request, Panic(r)
      PROVE  Tended(p)'
  BY <1>0, <1>19, TimersUntouched
     DEF Panic, At
<1>20. ASSUME NEW r \in Request, EnterPanic(r)
      PROVE  Tended(p)'
  <2>1. CASE p = p_of[r]
    BY <1>a, <1>20, <2>1, TimersUntouched DEF EnterPanic, LetGo
  <2>2. CASE p # p_of[r]
    BY <1>0, <1>20, <2>2, TimersUntouched DEF EnterPanic, LetGo, Finish
  <2> QED  BY <2>1, <2>2
<1>21. ASSUME WheelServes
      PROVE  Tended(p)'
  BY <1>0, <1>21, ServeKeepsTimers
     DEF WheelServes
<1>22. ASSUME WheelPasses
      PROVE  Tended(p)'
  BY <1>0, <1>22, TimersUntouched
     DEF WheelPasses
<1>23. ASSUME WheelLogsOut
      PROVE  Tended(p)'
  BY <1>0, <1>23, TimersUntouched
     DEF WheelLogsOut, Logout
<1>24. ASSUME WheelSleeps
      PROVE  Tended(p)'
  BY <1>0, <1>24, TimersUntouched
     DEF WheelSleeps
<1>25. ASSUME NEW q \in PlayerId, WheelFinds(q)
      PROVE  Tended(p)'
  BY <1>0, <1>25
     DEF WheelFinds, HasTimer
<1>26. ASSUME NEW u \in Uid, SyncAccountToken(u)
      PROVE  Tended(p)'
  BY <1>0, <1>26, TimersUntouched
     DEF SyncAccountToken
<1>27. ASSUME NEW u \in Uid, BanBegins(u)
      PROVE  Tended(p)'
  BY <1>0, <1>27, TimersUntouched
     DEF BanBegins
<1>28. ASSUME BanRemovesTimer
      PROVE  Tended(p)'
  <2>1. gm.p \in id2players
    BY <1>28 DEF BanRemovesTimer, PlayersKnown
  <2>2. HasTimer(p) /\ p # gm.p => HasTimer(p)'
    BY <1>28, <2>1, RemoveKeepsOthers DEF BanRemovesTimer, PlayersKnown
  <2> QED  BY <1>0, <1>28, <2>2 DEF BanRemovesTimer
<1>29. ASSUME BanLogsOut
      PROVE  Tended(p)'
  BY <1>0, <1>29, TimersUntouched
     DEF BanLogsOut, Logout
<1>30. ASSUME BanWrites
      PROVE  Tended(p)'
  BY <1>0, <1>30, TimersUntouched
     DEF BanWrites
<1>31. ASSUME WheelPanics
      PROVE  Tended(p)'
  BY <1>0, <1>31, TimersUntouched
     DEF WheelPanics, Logout
<1> QED  BY <1>1, <1>2, <1>3, <1>4, <1>5, <1>6, <1>7, <1>8, <1>9, <1>10, <1>11, <1>12,
            <1>13, <1>14, <1>15, <1>16, <1>17, <1>18, <1>19, <1>20, <1>21, <1>22, <1>23,
            <1>24, <1>25, <1>26, <1>27, <1>28, <1>29, <1>30, <1>31
         DEF Next, RequestStep, WheelStep, BanStep

\* Every player who is online has a timer, or is seen to by a request, by the timer
\* goroutine or by a ban, or has been let go of by a request that ended early.
THEOREM OnlineIsTended == Spec => []OnlineHasTimer
<1>1. Init => OnlineHasTimer
  BY DEF Init, OnlineHasTimer
<1>2. TypeOK /\ PlayersKnown /\ OnlineHasTimer /\ [Next]_vars => OnlineHasTimer'
  <2>1. ASSUME TypeOK, PlayersKnown, OnlineHasTimer, Next
        PROVE  OnlineHasTimer'
    <3>1. \A p \in PlayerId : is_login'[p] = 1 => Tended(p)'
      BY <2>1, OnlineStep
    <3> QED  BY <3>1 DEF OnlineHasTimer, Tended
  <2>2. ASSUME OnlineHasTimer, UNCHANGED vars
        PROVE  OnlineHasTimer'
    BY <2>2 DEF vars, OnlineHasTimer, HasTimer
  <2> QED  BY <2>1, <2>2
<1>3. Spec => [](TypeOK /\ PlayersKnown)
  BY InitTyped, TypedStep, PTL DEF Spec
<1> QED  BY <1>1, <1>2, <1>3, PTL DEF Spec

=============================================================================
