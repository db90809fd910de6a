------------------------------ MODULE HallLinks ------------------------------
(***************************************************************************)
(* The connections of a hall to the login servers, at both ends: the       *)
(* hall's LoginConnection objects and LoginConnectionMgr, driven by the    *)
(* center's messages (center_conn.go), and the HallAgentManager of each    *)
(* login server. The center is left open here: any message may come (see   *)
(* LoginRegistry for what it sends).                                       *)
(*                                                                         *)
(* Goroutines of the hall: the one that reads the center and runs its      *)
(* handlers one after another; per LoginConnection the one of Start and,   *)
(* once CONNECTED, the main_loop whose last act is OnDisconnect. A login   *)
(* server has one main_loop per hall connection.                           *)
(***************************************************************************)
EXTENDS Naturals, FiniteSets

CONSTANTS
  LoginServer,  \* server ids of login servers
  Link,         \* bound: LoginConnection objects ever made
  NoLink        \* no object

ASSUME HallLinksAssumption == NoLink \notin Link \cup LoginServer

VARIABLES
  serverid,     \* serverid[o], NoLink before o is made
  state,        \* state[o]: LOGIN_CONN_STATE_*
  net,          \* net[o]: how far the node's connection is
  id2loginconn, \* the hall's map
  handler,      \* where the handler of a message of the center is
  late,         \* history: login servers one of whose closes timed out
  ends,         \* ends[o]: the login server's end of the connection
  id2agents,    \* per login server the connection it has under the hall's id
  doubled       \* history: ends registered beside another registered one

linksVars == <<serverid, state, net, id2loginconn, handler, late, ends,
               id2agents, doubled>>

LinkStates == {"disconnect", "connected", "force_close"}

\* "dial": the client is nil; "open": dialled, before the CompareAndSwap;
\* "stuck": dialled in vain, its loops never run; "leaving": in OnDisconnect.
NetStates == {"unused", "dial", "open", "stuck", "run", "leaving", "closed"}

Handlers == [pc : {"idle", "close", "wait"}, todo : SUBSET Link,
             at : Link \cup {NoLink}, add : SUBSET LoginServer, drop : SUBSET LoginServer]

NoHandler == [pc |-> "idle", todo |-> {}, at |-> NoLink, add |-> {}, drop |-> {}]

LinksInit ==
  /\ serverid = [o \in Link |-> NoLink]
  /\ state = [o \in Link |-> "disconnect"]
  /\ net = [o \in Link |-> "unused"]
  /\ id2loginconn = [s \in LoginServer |-> NoLink]
  /\ handler = NoHandler
  /\ late = {}
  /\ ends = [o \in Link |-> "none"]
  /\ id2agents = [s \in LoginServer |-> NoLink]
  /\ doubled = {}

Entries == {id2loginconn[s] : s \in LoginServer} \ {NoLink}

linkVars  == <<serverid, state, net>>
agentVars == <<ends, id2agents, doubled>>

-----------------------------------------------------------------------------
(* The handlers of the center's messages.                                  *)

\* C2HLoginServerListHandler: DisconnectAll empties the map and closes what was
\* in it, one by one; then each server of the list is added.
ListComes ==
  /\ handler.pc = "idle"
  /\ \E ids \in SUBSET LoginServer \ {{}} :
       handler' = [NoHandler EXCEPT !.pc = "close", !.todo = Entries, !.add = ids]
  /\ id2loginconn' = [s \in LoginServer |-> NoLink]
  /\ UNCHANGED <<linkVars, late, agentVars>>

\* C2HNewLoginServerAddHandler: the object with that id is closed first.
AddComes ==
  /\ handler.pc = "idle"
  /\ \E s \in LoginServer :
       handler' = [NoHandler EXCEPT !.pc = "close", !.add = {s},
                                    !.todo = {id2loginconn[s]} \ {NoLink}]
  /\ UNCHANGED <<linkVars, id2loginconn, late, agentVars>>

\* C2HLoginServerRemoveHandler, for an id that has an object.
RemoveComes ==
  /\ handler.pc = "idle"
  /\ \E s \in LoginServer :
       /\ id2loginconn[s] # NoLink
       /\ handler' = [NoHandler EXCEPT !.pc = "close", !.drop = {s},
                                       !.todo = {id2loginconn[s]}]
  /\ UNCHANGED <<linkVars, id2loginconn, late, agentVars>>

\* A slip: the close of a running connection is not waited for.
ForceCloseAndGo(o) ==
  /\ handler.pc = "close"
  /\ o \in handler.todo
  /\ state' = [state EXCEPT ![o] = "force_close"]
  /\ handler' = [handler EXCEPT !.todo = @ \ {o}, !.at = o]
  /\ UNCHANGED <<serverid, net, id2loginconn, late, agentVars>>

\* ForceClose(true): the state, and ClientDisconnect when there is a client.
ForceClose(o) ==
  /\ handler.pc = "close"
  /\ o \in handler.todo
  /\ state' = [state EXCEPT ![o] = "force_close"]
  /\ handler' = [handler EXCEPT
                   !.pc = IF net[o] \in {"dial", "closed"} THEN "close" ELSE "wait",
                   !.todo = @ \ {o}, !.at = o]
  /\ UNCHANGED <<serverid, net, id2loginconn, late, agentVars>>

\* ServerConn.Close returns when the connection is closed, or after seconds.
CloseReturns ==
  /\ handler.pc = "wait"
  /\ handler' = [handler EXCEPT !.pc = "close"]
  /\ late' = IF net[handler.at] \in {"run", "leaving"}
             THEN late \cup {serverid[handler.at]} ELSE late
  /\ UNCHANGED <<linkVars, id2loginconn, agentVars>>

\* AddLogin: a new object takes the place of an old one; Start begins to dial.
AddLogin(s, o) ==
  /\ handler.pc = "close"
  /\ handler.todo = {}
  /\ s \in handler.add
  /\ net[o] = "unused"
  /\ serverid' = [serverid EXCEPT ![o] = s]
  /\ net' = [net EXCEPT ![o] = "dial"]
  /\ id2loginconn' = [id2loginconn EXCEPT ![s] = o]
  /\ handler' = [handler EXCEPT !.add = @ \ {s}]
  /\ UNCHANGED <<state, late, agentVars>>

HandlerEnds ==
  /\ handler.pc = "close"
  /\ handler.todo = {}
  /\ handler.add = {}
  /\ id2loginconn' = [s \in LoginServer |-> IF s \in handler.drop THEN NoLink
                                        ELSE id2loginconn[s]]
  /\ handler' = NoHandler
  /\ UNCHANGED <<linkVars, late, agentVars>>

-----------------------------------------------------------------------------
(* A LoginConnection.                                                      *)

\* ClientConnect succeeds: OnConnect puts the register message in the channel,
\* the login server accepts (OnAccept: an agent with id 0). The dialling does
\* not look at the state.
Dial(o) ==
  /\ net[o] = "dial"
  /\ net' = [net EXCEPT ![o] = "open"]
  /\ ends' = [ends EXCEPT ![o] = "accepted"]
  /\ UNCHANGED <<serverid, state, id2loginconn, handler, late, id2agents, doubled>>

\* CompareAndSwap DISCONNECT -> CONNECTED and ClientRun. When it fails, Start
\* ends; its ClientDisconnect closes nothing, for no loop runs that could.
Swap(o) ==
  /\ net[o] = "open"
  /\ IF state[o] = "disconnect"
     THEN /\ state' = [state EXCEPT ![o] = "connected"]
          /\ net' = [net EXCEPT ![o] = "run"]
     ELSE /\ net' = [net EXCEPT ![o] = "stuck"]
          /\ UNCHANGED state
  /\ UNCHANGED <<serverid, id2loginconn, handler, late, agentVars>>

\* The connection is lost or closed: OnDisconnect sets the state whatever the
\* reason, so that nobody dials again ...
Disconnect(o) ==
  /\ net[o] = "run"
  /\ net' = [net EXCEPT ![o] = "leaving"]
  /\ state' = [state EXCEPT ![o] = "force_close"]
  /\ UNCHANGED <<serverid, id2loginconn, handler, late, agentVars>>

\* A slip: the entry stays.
RemoveLoginForgotten(o) ==
  /\ net[o] = "leaving"
  /\ net' = [net EXCEPT ![o] = "closed"]
  /\ UNCHANGED <<serverid, state, id2loginconn, handler, late, agentVars>>

\* ... and RemoveLogin takes the entry of the id, whichever object it holds.
RemoveLogin(o) ==
  /\ net[o] = "leaving"
  /\ net' = [net EXCEPT ![o] = "closed"]
  /\ id2loginconn' = [id2loginconn EXCEPT ![serverid[o]] = NoLink]
  /\ UNCHANGED <<serverid, state, handler, late, agentVars>>

-----------------------------------------------------------------------------
(* The login server's end of a connection.                                 *)

Registered(s) == {o \in Link : serverid[o] = s /\ ends[o] = "registered"}

\* H2LHallServerRegisterHandler: SetAgentByID overwrites.
RegisterAgent(o) ==
  LET s == serverid[o] IN
  /\ ends[o] = "accepted"
  /\ net[o] \in {"run", "leaving", "closed"}
  /\ ends' = [ends EXCEPT ![o] = "registered"]
  /\ id2agents' = [id2agents EXCEPT ![s] = o]
  /\ doubled' = IF Registered(s) = {} THEN doubled
                ELSE doubled \cup Registered(s) \cup {o}
  /\ UNCHANGED <<linkVars, id2loginconn, handler, late>>

\* A slip: the entry under the id stays.
RemoveAgentByConn(o) ==
  /\ ends[o] \in {"accepted", "registered"}
  /\ ends' = [ends EXCEPT ![o] = "gone"]
  /\ UNCHANGED <<id2agents, doubled, linkVars, id2loginconn, handler, late>>

\* A slip: an end that has not registered takes the entry with it.
RemoveAgentAnyway(o) ==
  /\ ends[o] \in {"accepted", "registered"}
  /\ ends' = [ends EXCEPT ![o] = "gone"]
  /\ id2agents' = [id2agents EXCEPT ![serverid[o]] = NoLink]
  /\ UNCHANGED <<doubled, linkVars, id2loginconn, handler, late>>

\* OnDisconnect: RemoveAgent deletes the entry under the agent's id, which is 0
\* until it registers, whoever holds it.
RemoveAgent(o) ==
  /\ ends[o] \in {"accepted", "registered"}
  /\ ends' = [ends EXCEPT ![o] = "gone"]
  /\ id2agents' = IF ends[o] = "registered"
                  THEN [id2agents EXCEPT ![serverid[o]] = NoLink] ELSE id2agents
  /\ UNCHANGED <<doubled, linkVars, id2loginconn, handler, late>>

CenterStep ==
  \/ ListComes \/ AddComes \/ RemoveComes
  \/ \E o \in Link : ForceClose(o)
  \/ CloseReturns
  \/ \E s \in LoginServer, o \in Link : AddLogin(s, o)
  \/ HandlerEnds

LinkStep(o) ==
  Dial(o) \/ Swap(o) \/ Disconnect(o) \/ RemoveLogin(o) \/ RegisterAgent(o) \/ RemoveAgent(o)

LinksNext == CenterStep \/ \E o \in Link : LinkStep(o)

LinksSpec == LinksInit /\ [][LinksNext]_linksVars

-----------------------------------------------------------------------------
(* Properties                                                              *)

\* Every variable of the hall's connections (login_conn.go, login_conn_mgr.go)
\* and of the login servers' agents has its type.
LinksTypeOK ==
  /\ serverid \in [Link -> LoginServer \cup {NoLink}]
  /\ state \in [Link -> LinkStates]
  /\ net \in [Link -> NetStates]
  /\ \A o \in Link : serverid[o] = NoLink <=> net[o] = "unused"
  /\ id2loginconn \in [LoginServer -> Link \cup {NoLink}]
  /\ handler \in Handlers
  /\ handler.pc = "wait" => handler.at \in Link
  /\ late \subseteq LoginServer
  /\ ends \in [Link -> {"none", "accepted", "registered", "gone"}]
  /\ id2agents \in [LoginServer -> Link \cup {NoLink}]
  /\ doubled \subseteq Link

\* No connection is beyond reach: whatever still dials or is CONNECTED is in the
\* map under its id or about to be closed. RemoveLogin by id would break this if
\* the handlers did not wait for the old object's OnDisconnect; it does not hold
\* for a login server for which that wait has timed out (late).
LiveLinksAreKnown ==
  \A o \in Link :
    net[o] # "unused" /\ state[o] # "force_close" /\ serverid[o] \notin late =>
      id2loginconn[serverid[o]] = o \/ o \in handler.todo

\* The map holds no dead object, to which Send would send in vain: an entry in
\* state FORCE_CLOSE is about to be taken out by its OnDisconnect or by the
\* handler that closed it.
EntriesAreAlive ==
  \A s \in LoginServer : LET o == id2loginconn[s] IN
    o # NoLink /\ state[o] = "force_close" =>
      net[o] = "leaving" \/ (handler.pc # "idle" /\ handler.at = o)

\* The map of LoginConnectionMgr and the objects that are of use are the same,
\* but for what is being changed just then.
LinksAreKnown == LiveLinksAreKnown /\ EntriesAreAlive

\* A login server that has the hall's agent under its id (select_server and the
\* syncs of tokens use it) has its connection: the entry is of an end that
\* registered and has not been disconnected.
AgentsAreConnected ==
  \A s \in LoginServer : id2agents[s] # NoLink =>
    ends[id2agents[s]] = "registered" /\ serverid[id2agents[s]] = s

\* The login server reaches a hall that has registered, unless two registered
\* connections of the hall stood side by side: then RemoveAgent of the one may
\* have taken the entry of the other.
HallIsReachable ==
  \A o \in Link \ doubled :
    ends[o] = "registered" => id2agents[serverid[o]] = o

\* The map of the login server's HallAgentManager leads to the hall exactly when
\* the hall is registered.
AgentsReachHalls == AgentsAreConnected /\ HallIsReachable
=============================================================================
