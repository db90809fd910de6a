---------------------------- MODULE PlayerSession ----------------------------
(***************************************************************************)
(* How a player of the hall server comes online, is served and goes        *)
(* offline.  Every HTTP request is a goroutine of its own; beside the      *)
(* requests run the goroutine of the connection timers and a GM's ban      *)
(* command, and the login server replaces tokens.  They share, for every   *)
(* player, the flags is_lock and is_login, the two maps of player_mgr, the *)
(* token table and the channel of the connection timers.                   *)
(*                                                                         *)
(* The timers are those of module ConnTimer, with the seconds left out: a  *)
(* pass may find any timer over.  A client enters the game with an account *)
(* of its own uid.  What a handler does to the player's other data is left *)
(* to the modules of that data.  Any handler may panic; the recover that   *)
(* is deferred around it is modelled.                                      *)
(***************************************************************************)
EXTENDS Integers, Sequences, FiniteSets

CONSTANTS
  Request,               \* goroutines serving client requests
  Uid,                   \* unique ids of the accounts
  MaxClientConnections,  \* capacity of conn_timer_wheel.op_chan
  MaxPlayerId,           \* bound: players created
  MaxMsgs,               \* bound: messages in one request
  MaxLogins              \* bound: logins of one uid at the login server

ASSUME PlayerSessionAssumption ==
  /\ MaxClientConnections \in Nat \ {0}
  /\ MaxPlayerId \in Nat \ {0}
  /\ MaxMsgs \in Nat \ {0}
  /\ MaxLogins \in Nat \ {0}

VARIABLES
  (* login_token_mgr and dbc.BanPlayers *)
  token,      \* uid -> the login its current token descends from, 0 for no token
  logins,     \* uid -> how often the login server has synced a token (history)
  banned,     \* uids with a ban in force
  (* player_mgr *)
  curr_player_id,  \* Global.CurrentPlayerId
  id2players,      \* the players in the id map
  uid2players,     \* uid -> its player, NoPlayer if it has none
  (* players *)
  is_lock, is_login,
  (* requests *)
  pc,         \* where the goroutine is
  uid,        \* the uid of the request's token
  carried,    \* the login the request's token descends from
  p_of,       \* the variable p of _process_client_msgs
  msgs,       \* messages of the request begun so far
  (* conn_timer_wheel *)
  op_chan,    \* requests to the timers
  timers,     \* players with a running timer
  wheel,      \* [pc, p]: the timer goroutine
  (* G2H_Proc.BanPlayer *)
  gm,         \* [pc, p, uid]: the GM's command
  (* history *)
  reentered,  \* players logged in anew while a message of theirs was processed
  abandoned   \* players a request has let go of without restarting their timer

tokenVars == <<token, logins, banned>>
mgrVars == <<curr_player_id, id2players, uid2players>>
flagVars == <<is_lock, is_login>>
reqVars == <<pc, uid, carried, p_of, msgs>>
timerVars == <<op_chan, timers, wheel>>
histVars == <<reentered, abandoned>>
vars == <<token, logins, banned, curr_player_id, id2players, uid2players,
          is_lock, is_login, pc, uid, carried, p_of, msgs,
          op_chan, timers, wheel, gm, reentered, abandoned>>

-----------------------------------------------------------------------------
(* Types *)

PlayerId == 1..MaxPlayerId
NoPlayer == 0
Op == [op : {"insert", "remove"}, player_id : PlayerId]
InsertOp(p) == [op |-> "insert", player_id |-> p]
RemoveOp(p) == [op |-> "remove", player_id |-> p]

\* Places inside the handling of a player message, where the request has p's lock.
\* At "finish" only PopCurMsgData and the release of the lock are left.
MessagePc == {"finish", "leave", "logout", "retoken", "restart", "online"}

RequestPc == {"idle", "next", "create", "adduid", "login", "entered", "insert"}
             \cup MessagePc

TypeOK ==
  /\ token \in [Uid -> 0..MaxLogins]
  /\ logins \in [Uid -> 0..MaxLogins]
  /\ banned \in SUBSET Uid
  /\ curr_player_id \in 0..MaxPlayerId
  /\ id2players \in SUBSET PlayerId
  /\ uid2players \in [Uid -> PlayerId \cup {NoPlayer}]
  /\ is_lock \in [PlayerId -> {0, 1}]
  /\ is_login \in [PlayerId -> {0, 1}]
  /\ pc \in [Request -> RequestPc]
  /\ uid \in [Request -> Uid]
  /\ carried \in [Request -> 0..MaxLogins]
  /\ p_of \in [Request -> PlayerId \cup {NoPlayer}]
  /\ msgs \in [Request -> 0..MaxMsgs]
  /\ op_chan \in Seq(Op)
  /\ timers \in SUBSET PlayerId
  /\ wheel \in [pc : {"drain", "pass", "kick", "ended"}, p : PlayerId \cup {NoPlayer}]
  /\ gm \in [pc : {"idle", "remove", "logout", "row"},
             p : PlayerId \cup {NoPlayer}, uid : Uid]
  /\ reentered \in SUBSET PlayerId
  /\ abandoned \in SUBSET PlayerId

-----------------------------------------------------------------------------
(* State formulae *)

\* The requests inside a message handler of p.
Processing(p) == {r \in Request : pc[r] \in MessagePc /\ p_of[r] = p}

\* Once the requests to the timers are served, p has a timer.
HasTimer(p) ==
  \/ \E i \in 1..Len(op_chan) :
       /\ op_chan[i] = InsertOp(p)
       /\ \A j \in (i + 1)..Len(op_chan) : op_chan[j] # RemoveOp(p)
  \/ /\ p \in timers
     /\ \A j \in 1..Len(op_chan) : op_chan[j] # RemoveOp(p)

-----------------------------------------------------------------------------
(* Helpers of the actions *)

At(r, from, to) == pc[r] = from /\ pc' = [pc EXCEPT ![r] = to]

\* The request is over, and what its goroutine knew is gone.
Finish(r) ==
  /\ pc' = [pc EXCEPT ![r] = "idle"]
  /\ p_of' = [p_of EXCEPT ![r] = NoPlayer]
  /\ carried' = [carried EXCEPT ![r] = 0]
  /\ msgs' = [msgs EXCEPT ![r] = 0]
  /\ UNCHANGED uid

\* The loop of _process_client_msgs takes up another message.
NextMessage(r, to) ==
  /\ msgs[r] < MaxMsgs
  /\ msgs' = [msgs EXCEPT ![r] = @ + 1]
  /\ At(r, "next", to)

\* conn_timer_wheel.Insert and Remove: send on the channel, wait while it is full.
Send(o) ==
  /\ Len(op_chan) < MaxClientConnections
  /\ op_chan' = Append(op_chan, o)

\* OnLogout, after the timer: the compare-and-swap of is_login; the one that wins
\* settles the income and notifies the login servers.
Logout(p) == is_login' = [is_login EXCEPT ![p] = 0]

\* The request loses sight of p: it will not restart the timer.
LetGo(p) ==
  abandoned' = IF p # NoPlayer /\ ~HasTimer(p) THEN abandoned \cup {p} ELSE abandoned

\* The lock history once r has finished a message of p.
LeaveMessage(r, p) ==
  reentered' = IF Processing(p) = {r} THEN reentered \ {p} ELSE reentered

-----------------------------------------------------------------------------
(* client_msg_handler *)

\* The token of the request is the current one of its uid; GetPlayerByUid follows.
\* A request with any other token is refused and changes nothing.
Admit(r, u) ==
  /\ token[u] # 0
  /\ At(r, "idle", "next")
  /\ uid' = [uid EXCEPT ![r] = u]
  /\ carried' = [carried EXCEPT ![r] = token[u]]
  /\ p_of' = [p_of EXCEPT ![r] = uid2players[u]]
  /\ UNCHANGED <<tokenVars, mgrVars, flagVars, msgs, timerVars, gm, histVars>>

\* A player message without a player ends the request; nothing restarts a timer.
NextWithoutPlayer(r) ==
  /\ pc[r] = "next"
  /\ msgs[r] < MaxMsgs
  /\ p_of[r] = NoPlayer
  /\ Finish(r)
  /\ UNCHANGED <<tokenVars, mgrVars, flagVars, timerVars, gm, histVars>>

\* The end of the loop: without a player that is all.
EndOfMessages(r) ==
  /\ pc[r] = "next"
  /\ IF p_of[r] = NoPlayer THEN Finish(r)
     ELSE At(r, "next", "insert") /\ UNCHANGED <<uid, carried, p_of, msgs>>
  /\ UNCHANGED <<tokenVars, mgrVars, flagVars, timerVars, gm, histVars>>

\* A slip: the timer is restarted only when the channel has room for it.
RestartTimerIfRoom(r) ==
  /\ pc[r] = "insert"
  /\ Finish(r)
  /\ op_chan' = IF Len(op_chan) < MaxClientConnections
                THEN Append(op_chan, InsertOp(p_of[r])) ELSE op_chan
  /\ abandoned' = abandoned \ {p_of[r]}
  /\ UNCHANGED <<tokenVars, mgrVars, flagVars, timers, wheel, gm, reentered>>

\* Otherwise conn_timer_wheel.Insert, and the answer is sent.
RestartTimer(r) ==
  /\ pc[r] = "insert"
  /\ Finish(r)
  /\ Send(InsertOp(p_of[r]))
  /\ abandoned' = abandoned \ {p_of[r]}
  /\ UNCHANGED <<tokenVars, mgrVars, flagVars, timers, wheel, gm, reentered>>

-----------------------------------------------------------------------------
(* _process_one_client_msg *)

FirstStep == [message |-> "finish", leave |-> "leave", reconnect |-> "retoken"]

\* The lock is taken.  A player who is offline may only reconnect; any other
\* message is refused, with the lock held for as long as that takes.
TakeLock(r, kind) ==
  /\ p_of[r] # NoPlayer
  /\ is_lock[p_of[r]] = 0
  /\ is_lock' = [is_lock EXCEPT ![p_of[r]] = 1]
  /\ NextMessage(r, IF is_login[p_of[r]] = 1 \/ kind = "reconnect"
                    THEN FirstStep[kind] ELSE "finish")
  /\ UNCHANGED <<tokenVars, mgrVars, is_login, uid, carried, p_of, timerVars, gm, histVars>>

\* A slip: the refused message frees the lock.
TooFrequentFreesLock(r) ==
  /\ p_of[r] # NoPlayer
  /\ is_lock[p_of[r]] = 1
  /\ is_lock' = [is_lock EXCEPT ![p_of[r]] = 0]
  /\ NextMessage(r, "next")
  /\ UNCHANGED <<tokenVars, mgrVars, is_login, uid, carried, p_of, timerVars, gm, histVars>>

\* The lock is taken already: E_ERR_PLAYER_SEND_TOO_FREQUENTLY.
TooFrequent(r) ==
  /\ p_of[r] # NoPlayer
  /\ is_lock[p_of[r]] = 1
  /\ NextMessage(r, "next")
  /\ UNCHANGED <<tokenVars, mgrVars, flagVars, uid, carried, p_of, timerVars, gm, histVars>>

\* PopCurMsgData, then the compare-and-swap of is_lock from 1 to 0.
Unlock(r) ==
  /\ At(r, "finish", "next")
  /\ is_lock' = [is_lock EXCEPT ![p_of[r]] = 0]
  /\ LeaveMessage(r, p_of[r])
  /\ UNCHANGED <<tokenVars, mgrVars, is_login, uid, carried, p_of, msgs, timerVars, gm, abandoned>>

\* A slip: the recover leaves the lock as it is.
PanicKeepingLock(r) ==
  /\ At(r, "finish", "next")
  /\ LeaveMessage(r, p_of[r])
  /\ UNCHANGED <<tokenVars, mgrVars, flagVars, uid, carried, p_of, msgs, timerVars, gm, abandoned>>

\* The handler, or PopCurMsgData, panics: the recover stores 0 in the lock and the
\* loop goes on with the next message.
Panic(r) ==
  /\ At(r, "finish", "next")
  /\ is_lock' = [is_lock EXCEPT ![p_of[r]] = 0]
  /\ LeaveMessage(r, p_of[r])
  /\ UNCHANGED <<tokenVars, mgrVars, is_login, uid, carried, p_of, msgs, timerVars, gm, abandoned>>

(* C2SLeaveGameRequestHandler: OnLogout(true) *)

LeaveRemovesTimer(r) ==
  /\ At(r, "leave", "logout")
  /\ Send(RemoveOp(p_of[r]))
  /\ UNCHANGED <<tokenVars, mgrVars, flagVars, uid, carried, p_of, msgs, timers, wheel, gm, histVars>>

LeaveLogsOut(r) ==
  /\ At(r, "logout", "finish")
  /\ Logout(p_of[r])
  /\ UNCHANGED <<tokenVars, mgrVars, is_lock, uid, carried, p_of, msgs, timerVars, gm, histVars>>

(* C2SReconnectHandler: reconnect *)

\* A banned player is refused; otherwise the uid gets a new token, which descends
\* from the login of the token the request came with.
ReconnectToken(r) ==
  /\ IF uid[r] \in banned
     THEN At(r, "retoken", "finish") /\ UNCHANGED token
     ELSE /\ At(r, "retoken", "restart")
          /\ token' = [token EXCEPT ![uid[r]] = carried[r]]
  /\ UNCHANGED <<logins, banned, mgrVars, flagVars, uid, carried, p_of, msgs, timerVars, gm, histVars>>

ReconnectRemovesTimer(r) ==
  /\ At(r, "restart", "online")
  /\ Send(RemoveOp(p_of[r]))
  /\ UNCHANGED <<tokenVars, mgrVars, flagVars, uid, carried, p_of, msgs, timers, wheel, gm, histVars>>

ReconnectOnline(r) ==
  /\ At(r, "online", "finish")
  /\ is_login' = [is_login EXCEPT ![p_of[r]] = 1]
  /\ UNCHANGED <<tokenVars, mgrVars, is_lock, uid, carried, p_of, msgs, timerVars, gm, histVars>>

-----------------------------------------------------------------------------
(* C2SEnterGameRequestHandler.  It does not take is_lock. *)

\* The account is unknown to acc2uid (it has been bound to a new one) or banned, or
\* there is no row to be had: the handler returns no player, and the request goes on
\* without one.
EnterRefused(r) ==
  /\ NextMessage(r, "next")
  /\ LetGo(p_of[r])
  /\ p_of' = [p_of EXCEPT ![r] = NoPlayer]
  /\ UNCHANGED <<tokenVars, mgrVars, flagVars, uid, carried, timerVars, gm, reentered>>

\* The account's player, if it has one.  The player the request was working for
\* is another only when two were created for the uid.  A new account is only let in
\* while there are ids left below the bound.
EnterFindsPlayer(r) ==
  LET p == uid2players[uid[r]]
      creating == {q \in Request : pc[q] = "create"} IN
  /\ uid[r] \notin banned
  /\ p = NoPlayer => curr_player_id + Cardinality(creating) < MaxPlayerId
  /\ NextMessage(r, IF p = NoPlayer THEN "create" ELSE "login")
  /\ IF p_of[r] = p THEN UNCHANGED abandoned ELSE LetGo(p_of[r])
  /\ p_of' = [p_of EXCEPT ![r] = p]
  /\ UNCHANGED <<tokenVars, mgrVars, flagVars, uid, carried, timerVars, gm, reentered>>

\* A slip: the id is read before the counter is stepped.
CreatePlayerWithOldId(r) ==
  /\ curr_player_id < MaxPlayerId
  /\ At(r, "create", "adduid")
  /\ curr_player_id' = curr_player_id + 1
  /\ p_of' = [p_of EXCEPT ![r] = curr_player_id]
  /\ id2players' = id2players \cup {curr_player_id}
  /\ UNCHANGED <<tokenVars, uid2players, flagVars, uid, carried, msgs, timerVars, gm, histVars>>

\* GetNextPlayerId, AddRow, new_player, OnCreate and Add2IdMap, all about a player
\* nobody else knows of yet.
CreatePlayer(r) ==
  /\ curr_player_id < MaxPlayerId
  /\ At(r, "create", "adduid")
  /\ curr_player_id' = curr_player_id + 1
  /\ p_of' = [p_of EXCEPT ![r] = curr_player_id + 1]
  /\ id2players' = id2players \cup {curr_player_id + 1}
  /\ UNCHANGED <<tokenVars, uid2players, flagVars, uid, carried, msgs, timerVars, gm, histVars>>

\* A slip: the later of two players takes the place of the first.
Add2UidMapOverwriting(r) ==
  /\ At(r, "adduid", "login")
  /\ uid2players' = [uid2players EXCEPT ![uid[r]] = p_of[r]]
  /\ UNCHANGED <<tokenVars, curr_player_id, id2players, flagVars, uid, carried, p_of, msgs,
                 timerVars, gm, histVars>>

\* The first player of a uid stays in the map.
Add2UidMap(r) ==
  /\ At(r, "adduid", "login")
  /\ uid2players' = IF uid2players[uid[r]] # NoPlayer THEN uid2players
                    ELSE [uid2players EXCEPT ![uid[r]] = p_of[r]]
  /\ UNCHANGED <<tokenVars, curr_player_id, id2players, flagVars, uid, carried, p_of, msgs,
                 timerVars, gm, histVars>>

\* OnLogin: is_lock = 0, is_login = 1.
OnLogin(r) ==
  /\ At(r, "login", "entered")
  /\ is_lock' = [is_lock EXCEPT ![p_of[r]] = 0]
  /\ is_login' = [is_login EXCEPT ![p_of[r]] = 1]
  /\ reentered' = IF Processing(p_of[r]) = {} THEN reentered
                  ELSE reentered \cup {p_of[r]}
  /\ UNCHANGED <<tokenVars, mgrVars, uid, carried, p_of, msgs, timerVars, gm, abandoned>>

\* The answer to the client is put together.
EnterDone(r) ==
  /\ At(r, "entered", "next")
  /\ UNCHANGED <<tokenVars, mgrVars, flagVars, uid, carried, p_of, msgs, timerVars, gm, histVars>>

\* A panic on the way is caught only by client_msg_handler: the request ends there
\* and then, without the timer.
EnterPanic(r) ==
  /\ pc[r] \in {"create", "adduid", "login", "entered"}
  /\ Finish(r)
  /\ LetGo(p_of[r])
  /\ UNCHANGED <<tokenVars, mgrVars, flagVars, timerVars, gm, reentered>>

-----------------------------------------------------------------------------
(* conn_timer_wheel.Run, with the wheel itself left to ConnTimerWheel *)

WheelServes ==
  /\ wheel.pc = "drain"
  /\ op_chan # <<>>
  /\ LET o == Head(op_chan) IN
       timers' = IF o.op = "insert" THEN timers \cup {o.player_id}
                 ELSE timers \ {o.player_id}
  /\ op_chan' = Tail(op_chan)
  /\ UNCHANGED <<tokenVars, mgrVars, flagVars, reqVars, wheel, gm, histVars>>

WheelPasses ==
  /\ wheel.pc = "drain"
  /\ op_chan = <<>>
  /\ wheel' = [wheel EXCEPT !.pc = "pass"]
  /\ UNCHANGED <<tokenVars, mgrVars, flagVars, reqVars, op_chan, timers, gm, histVars>>

\* A slip: no player is looked up, the timer is dropped and nobody logged out.
WheelForgets(p) ==
  /\ wheel.pc = "pass"
  /\ p \in timers \cap id2players
  /\ timers' = timers \ {p}
  /\ UNCHANGED <<tokenVars, mgrVars, flagVars, reqVars, op_chan, wheel, gm, histVars>>

\* A timer is over; its player is found in the id map and the timer removed.
WheelFinds(p) ==
  /\ wheel.pc = "pass"
  /\ p \in timers \cap id2players
  /\ timers' = timers \ {p}
  /\ wheel' = [pc |-> "kick", p |-> p]
  /\ UNCHANGED <<tokenVars, mgrVars, flagVars, reqVars, op_chan, gm, histVars>>

\* A slip: OnLogout(true), whose request is for the goroutine itself to serve.
WheelAsksItself ==
  /\ wheel.pc = "kick"
  /\ wheel' = [pc |-> "pass", p |-> NoPlayer]
  /\ Send(RemoveOp(wheel.p))
  /\ Logout(wheel.p)
  /\ UNCHANGED <<tokenVars, mgrVars, is_lock, reqVars, timers, gm, histVars>>

\* OnLogout(false).
WheelLogsOut ==
  /\ wheel.pc = "kick"
  /\ wheel' = [pc |-> "pass", p |-> NoPlayer]
  /\ Logout(wheel.p)
  /\ UNCHANGED <<tokenVars, mgrVars, is_lock, reqVars, op_chan, timers, gm, histVars>>

\* The settlement that follows a won compare-and-swap panics.  The recover of Run is
\* outside of its loop: nobody serves op_chan or looks at a timer any more.
WheelPanics ==
  /\ wheel.pc = "kick"
  /\ is_login[wheel.p] = 1
  /\ wheel' = [pc |-> "ended", p |-> NoPlayer]
  /\ Logout(wheel.p)
  /\ UNCHANGED <<tokenVars, mgrVars, is_lock, reqVars, op_chan, timers, gm, histVars>>

WheelSleeps ==
  /\ wheel.pc = "pass"
  /\ wheel' = [wheel EXCEPT !.pc = "drain"]
  /\ UNCHANGED <<tokenVars, mgrVars, flagVars, reqVars, op_chan, timers, gm, histVars>>

-----------------------------------------------------------------------------
(* L2HSyncAccountTokenHandler: a login at the login server replaces the token *)

SyncAccountToken(u) ==
  /\ logins[u] < MaxLogins
  /\ logins' = [logins EXCEPT ![u] = @ + 1]
  /\ token' = [token EXCEPT ![u] = logins[u] + 1]
  /\ UNCHANGED <<banned, mgrVars, flagVars, reqVars, timerVars, gm, histVars>>

(* G2H_Proc.BanPlayer: first OnLogout(true), then the row of BanPlayers *)

BanBegins(u) ==
  /\ gm.pc = "idle"
  /\ uid2players[u] # NoPlayer
  /\ gm' = [pc |-> "remove", p |-> uid2players[u], uid |-> u]
  /\ UNCHANGED <<tokenVars, mgrVars, flagVars, reqVars, timerVars, histVars>>

BanRemovesTimer ==
  /\ gm.pc = "remove"
  /\ Send(RemoveOp(gm.p))
  /\ gm' = [gm EXCEPT !.pc = "logout"]
  /\ UNCHANGED <<tokenVars, mgrVars, flagVars, reqVars, timers, wheel, histVars>>

BanLogsOut ==
  /\ gm.pc = "logout"
  /\ Logout(gm.p)
  /\ gm' = [gm EXCEPT !.pc = "row"]
  /\ UNCHANGED <<tokenVars, mgrVars, is_lock, reqVars, timerVars, histVars>>

\* The command bans the uid or frees it; nothing before this step depends on which.
BanWrites ==
  /\ gm.pc = "row"
  /\ banned' \in {banned \cup {gm.uid}, banned \ {gm.uid}}
  /\ gm' = [gm EXCEPT !.pc = "idle", !.p = NoPlayer]
  /\ UNCHANGED <<token, logins, mgrVars, flagVars, reqVars, timerVars, histVars>>

-----------------------------------------------------------------------------
Init ==
  /\ token = [u \in Uid |-> 0]
  /\ logins = [u \in Uid |-> 0]
  /\ banned = {}
  /\ curr_player_id = 0
  /\ id2players = {}
  /\ uid2players = [u \in Uid |-> NoPlayer]
  /\ is_lock = [p \in PlayerId |-> 0]
  /\ is_login = [p \in PlayerId |-> 0]
  /\ pc = [r \in Request |-> "idle"]
  /\ uid \in [Request -> Uid]
  /\ carried = [r \in Request |-> 0]
  /\ p_of = [r \in Request |-> NoPlayer]
  /\ msgs = [r \in Request |-> 0]
  /\ op_chan = <<>>
  /\ timers = {}
  /\ wheel = [pc |-> "drain", p |-> NoPlayer]
  /\ gm \in [pc : {"idle"}, p : {NoPlayer}, uid : Uid]
  /\ reentered = {}
  /\ abandoned = {}

\* What a request does once it is admitted, panics aside.
RequestStep(r) ==
  \/ NextWithoutPlayer(r) \/ EndOfMessages(r) \/ RestartTimer(r)
  \/ \E kind \in DOMAIN FirstStep : TakeLock(r, kind)
  \/ TooFrequent(r) \/ Unlock(r)
  \/ LeaveRemovesTimer(r) \/ LeaveLogsOut(r)
  \/ ReconnectToken(r) \/ ReconnectRemovesTimer(r) \/ ReconnectOnline(r)
  \/ EnterRefused(r) \/ EnterFindsPlayer(r)
  \/ CreatePlayer(r) \/ Add2UidMap(r) \/ OnLogin(r) \/ EnterDone(r)

WheelStep == WheelServes \/ WheelPasses \/ WheelLogsOut \/ WheelSleeps

BanStep == BanRemovesTimer \/ BanLogsOut \/ BanWrites

Next ==
  \/ \E r \in Request : \/ \E u \in Uid : Admit(r, u)
                        \/ RequestStep(r)
                        \/ Panic(r) \/ EnterPanic(r)
  \/ WheelStep \/ WheelPanics
  \/ \E p \in PlayerId : WheelFinds(p)
  \/ \E u \in Uid : SyncAccountToken(u)
  \/ \E u \in Uid : BanBegins(u)
  \/ BanStep

\* The goroutines run, and a send on the channel that is again and again possible
\* is made.  A timer that is not restarted is some time found over.  Clients, the
\* login server and the GM do as they like, and a panic need not come.
Fairness ==
  /\ \A r \in Request : SF_vars(RequestStep(r))
  /\ WF_vars(WheelStep)
  /\ \A p \in PlayerId : SF_vars(WheelFinds(p))
  /\ SF_vars(BanStep)

Spec == Init /\ [][Next]_vars

FairSpec == Spec /\ Fairness

-----------------------------------------------------------------------------
(* Properties *)

\* Whoever is online will be put offline when he falls silent: he has a timer, or
\* the request that will restart it is under way, or somebody is logging him out.
\* The one way out (conn_timer_wheel.Insert is the last thing a request does) is a
\* request that lets go of the player before it gets there.
OnlineHasTimer ==
  \A p \in PlayerId : is_login[p] = 1 =>
    \/ HasTimer(p)
    \/ \E r \in Request : pc[r] # "idle" /\ p_of[r] = p
    \/ wheel.pc = "kick" /\ wheel.p = p
    \/ gm.pc = "logout" /\ gm.p = p
    \/ p \in abandoned

\* is_lock lets one message of a player at a time be processed, unless the player
\* enters the game while a message is: only OnLogin's reset of is_lock breaks it.
LockHolds ==
  \A p \in PlayerId :
    \/ p \in reentered
    \/ /\ Cardinality(Processing(p)) <= 1
       /\ Processing(p) # {} => is_lock[p] = 1

\* No lock is left behind: is_lock is 1 only while a message is being processed,
\* panics included.  A lock left behind would refuse every further message.
NoLockLeftBehind ==
  \A p \in PlayerId : is_lock[p] = 1 => Processing(p) # {}

\* The timer goroutine finds every player it has a timer for in the id map; a timer
\* of a player who is not there would be dropped without logging him out.
TimersAreKnown ==
  /\ timers \subseteq id2players
  /\ \A i \in 1..Len(op_chan) : op_chan[i].player_id \in id2players

\* A uid keeps its player: when two requests of a new account create a player each,
\* the one in the uid map stays, and no later request is given another.
UidKeepsPlayer ==
  [][\A u \in Uid : uid2players[u] # NoPlayer => uid2players'[u] = uid2players[u]]_vars

\* The request waits for room in the channel of a timer goroutine that has ended.
Stuck(r) ==
  /\ wheel.pc = "ended"
  /\ Len(op_chan) = MaxClientConnections
  /\ pc[r] \in {"insert", "leave", "restart"}

\* Every request is answered, however full the channel of the timers, as long as the
\* timer goroutine runs; once a panic has ended it, only those requests are not that
\* have a timer to set or to remove, and only when the channel has filled up.
Answered ==
  \A r \in Request : pc[r] # "idle" ~> (pc[r] = "idle" \/ Stuck(r))

\* When the clients fall silent for good, every player goes offline for good, but
\* for those a request has let go of, and unless the timer goroutine has ended.
SilenceEndsSessions ==
  <>[](\A r \in Request : pc[r] = "idle")
    => \A p \in PlayerId :
         <>[](is_login[p] = 0 \/ p \in abandoned \/ wheel.pc = "ended")

\* One message of a player at a time, as the log line of _process_one_client_msg has
\* it ("cant process, because prev msg is processing").
OneMessageAtATime == \A p \in PlayerId : Cardinality(Processing(p)) <= 1

\* The token of a uid descends from its newest login: whoever logged in before is
\* told that he has logged in at another place (PLAYER_OTHER_PLACE_LOGIN).
NewestLoginHolds == \A u \in Uid : token[u] = logins[u]
=============================================================================
