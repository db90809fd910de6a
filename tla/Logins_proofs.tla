---------------------------- MODULE Logins_proofs ----------------------------
(***************************************************************************)
(* What surrounds a login, for any number of servers, connections,         *)
(* accounts and requests: the links of a hall to the login servers (types, *)
(* the map of a login server's HallAgentManager, the map of the hall's     *)
(* LoginConnectionMgr); the center's list of login servers (types, that it *)
(* lists those that are connected, what a hall knows of it); the accounts  *)
(* of the login server (types, unique ids that stay, bindings).            *)
(***************************************************************************)
EXTENDS HallLinks, LoginRegistry, Accounts, FiniteSetTheorems, TLAPS

(* The links of a hall to the login servers (HallLinks).                   *)

(***************************************************************************)
(* Types.                                                                  *)
(***************************************************************************)

LEMMA LinksTypeInit == LinksInit => LinksTypeOK
BY HallLinksAssumption DEF LinksInit, LinksTypeOK, LinkStates, NetStates, Handlers,
   NoHandler

LEMMA CenterTypeStep == ASSUME LinksTypeOK, CenterStep PROVE LinksTypeOK'
<1> USE HallLinksAssumption DEF LinksTypeOK, LinkStates, NetStates, linkVars, agentVars
<1>0. \A s \in LoginServer : id2loginconn[s] \in Link \cup {NoLink}
  OBVIOUS
<1>a. Entries \subseteq Link
  BY <1>0 DEF Entries
<1>1. CASE ListComes
  <2>1. PICK ids \in SUBSET LoginServer :
          handler' = [NoHandler EXCEPT !.pc = "close", !.todo = Entries, !.add = ids]
    BY <1>1 DEF ListComes
  <2>2. handler' = [pc |-> "close", todo |-> Entries, at |-> NoLink, add |-> ids,
                    drop |-> {}]
    BY <2>1 DEF NoHandler
  <2>3. handler' \in Handlers /\ handler'.pc = "close"
    BY <2>2, <1>a DEF Handlers
  <2> QED  BY <1>1, <2>3 DEF ListComes
<1>2. CASE AddComes
  <2>1. PICK s \in LoginServer :
          handler' = [NoHandler EXCEPT !.pc = "close", !.add = {s},
                                       !.todo = {id2loginconn[s]} \ {NoLink}]
    BY <1>2 DEF AddComes
  <2>2. handler' = [pc |-> "close", todo |-> {id2loginconn[s]} \ {NoLink},
                    at |-> NoLink, add |-> {s}, drop |-> {}]
    BY <2>1 DEF NoHandler
  <2>3. handler' \in Handlers /\ handler'.pc = "close"
    BY <2>2, <1>0 DEF Handlers
  <2> QED  BY <1>2, <2>3 DEF AddComes
<1>3. CASE RemoveComes
  <2>1. PICK s \in LoginServer :
          /\ id2loginconn[s] # NoLink
          /\ handler' = [NoHandler EXCEPT !.pc = "close", !.drop = {s},
                                          !.todo = {id2loginconn[s]}]
    BY <1>3 DEF RemoveComes
  <2>2. handler' = [pc |-> "close", todo |-> {id2loginconn[s]},
                    at |-> NoLink, add |-> {}, drop |-> {s}]
    BY <2>1 DEF NoHandler
  <2>3. handler' \in Handlers /\ handler'.pc = "close"
    BY <2>1, <2>2, <1>0 DEF Handlers
  <2> QED  BY <1>3, <2>3 DEF RemoveComes
<1>4. ASSUME NEW o \in Link, ForceClose(o) PROVE LinksTypeOK'
  <2>1. handler' \in Handlers /\ handler'.at = o
    BY <1>4 DEF ForceClose, Handlers
  <2> QED  BY <1>4, <2>1 DEF ForceClose
<1>5. CASE CloseReturns
  <2>1. handler.at \in Link
    BY <1>5 DEF CloseReturns
  <2>2. net[handler.at] \in {"run", "leaving"} => serverid[handler.at] \in LoginServer
    BY <2>1
  <2>3. handler' \in Handlers /\ handler'.pc = "close"
    BY <1>5 DEF CloseReturns, Handlers
  <2>4. late' \subseteq LoginServer
    BY <1>5, <2>2 DEF CloseReturns
  <2> QED  BY <1>5, <2>3, <2>4 DEF CloseReturns
<1>6. ASSUME NEW s \in LoginServer, NEW o \in Link, AddLogin(s, o) PROVE LinksTypeOK'
  <2>1. handler' \in Handlers /\ handler'.pc = "close"
    BY <1>6 DEF AddLogin, Handlers
  <2> QED  BY <1>6, <2>1 DEF AddLogin
<1>7. CASE HandlerEnds
  BY <1>7 DEF HandlerEnds, Handlers, NoHandler
<1> QED  BY <1>1, <1>2, <1>3, <1>4, <1>5, <1>6, <1>7 DEF CenterStep

LEMMA LinkTypeStep ==
  ASSUME LinksTypeOK, NEW o \in Link, LinkStep(o) PROVE LinksTypeOK'
<1> USE HallLinksAssumption DEF LinksTypeOK, LinkStates, NetStates, linkVars, agentVars
<1>1. CASE Dial(o)
  BY <1>1 DEF Dial
<1>2. CASE Swap(o)
  BY <1>2 DEF Swap
<1>3. CASE Disconnect(o)
  BY <1>3 DEF Disconnect
<1>4. CASE RemoveLogin(o)
  BY <1>4 DEF RemoveLogin
<1>5. CASE RegisterAgent(o)
  BY <1>5 DEF RegisterAgent, Registered
<1>6. CASE RemoveAgent(o)
  BY <1>6 DEF RemoveAgent
<1> QED  BY <1>1, <1>2, <1>3, <1>4, <1>5, <1>6 DEF LinkStep

LEMMA LinksTypeStep == LinksTypeOK /\ [LinksNext]_linksVars => LinksTypeOK'
<1> SUFFICES ASSUME LinksTypeOK, [LinksNext]_linksVars PROVE LinksTypeOK'
  OBVIOUS
<1>1. CASE UNCHANGED linksVars
  BY <1>1 DEF linksVars, LinksTypeOK
<1> QED  BY <1>1, CenterTypeStep, LinkTypeStep DEF LinksNext

\* Every variable of the connections has its type (login_conn.go,
\* login_conn_mgr.go, hall_agent_manager.go).
THEOREM LinksTypeCorrect == LinksSpec => []LinksTypeOK
BY LinksTypeInit, LinksTypeStep, PTL DEF LinksSpec

(***************************************************************************)
(* The agents of a login server. RemoveAgent deletes by id, so what holds  *)
(* an entry has to be known, and two ends of one id registered at a time   *)
(* are both doubled.                                                       *)
(***************************************************************************)

\* Before it has dialled, an object has no end at the login server.
NoEndBefore == \A o \in Link : net[o] \in {"unused", "dial"} => ends[o] = "none"

DoubledKnown ==
  \A o, p \in Link :
    o # p /\ ends[o] = "registered" /\ ends[p] = "registered" /\ serverid[o] = serverid[p]
      => o \in doubled

AgentsInv == LinksTypeOK /\ NoEndBefore /\ DoubledKnown /\ AgentsReachHalls

LEMMA AgentsInit == LinksInit => AgentsInv
BY LinksTypeInit DEF LinksInit, AgentsInv, NoEndBefore, DoubledKnown, AgentsReachHalls,
   AgentsAreConnected, HallIsReachable

\* The messages of the center leave the agents alone: a new object has no end.
LEMMA CenterAgentsStep ==
  ASSUME AgentsInv, CenterStep PROVE NoEndBefore' /\ DoubledKnown' /\ AgentsReachHalls'
<1> USE DEF AgentsInv, NoEndBefore, DoubledKnown, AgentsReachHalls, AgentsAreConnected,
            HallIsReachable, linkVars, agentVars, LinksTypeOK
<1>1. ASSUME UNCHANGED <<serverid, net, ends, id2agents, doubled>>
      PROVE  NoEndBefore' /\ DoubledKnown' /\ AgentsReachHalls'
  BY <1>1
<1>2. ASSUME NEW s \in LoginServer, NEW o \in Link, AddLogin(s, o)
      PROVE  NoEndBefore' /\ DoubledKnown' /\ AgentsReachHalls'
  <2>1. ends[o] = "none" /\ ends' = ends /\ id2agents' = id2agents /\ doubled' = doubled
    BY <1>2 DEF AddLogin
  <2>2. \A p \in Link : p # o => serverid'[p] = serverid[p] /\ net'[p] = net[p]
    BY <1>2 DEF AddLogin
  <2>3. NoEndBefore'
    BY <2>1, <2>2
  <2>4. DoubledKnown'
    BY <2>1, <2>2
  <2>5. AgentsAreConnected'
    BY <2>1, <2>2, HallLinksAssumption
  <2>6. HallIsReachable'
    BY <2>1, <2>2
  <2> QED  BY <2>3, <2>4, <2>5, <2>6
<1> QED
  BY <1>1, <1>2 DEF CenterStep, ListComes, AddComes, RemoveComes, ForceClose,
     CloseReturns, HandlerEnds

LEMMA LinkAgentsStep ==
  ASSUME AgentsInv, NEW o \in Link, LinkStep(o)
  PROVE  NoEndBefore' /\ DoubledKnown' /\ AgentsReachHalls'
<1> USE HallLinksAssumption DEF AgentsInv, NoEndBefore, DoubledKnown, AgentsReachHalls,
        AgentsAreConnected, HallIsReachable, linkVars, agentVars, LinksTypeOK
<1>1. CASE Dial(o)
  <2>1. ends[o] = "none" /\ \A p \in Link : p # o => ends'[p] = ends[p] /\ net'[p] = net[p]
    BY <1>1 DEF Dial
  <2>2. ends'[o] = "accepted" /\ net'[o] = "open"
    BY <1>1 DEF Dial
  <2>3. serverid' = serverid /\ id2agents' = id2agents /\ doubled' = doubled
    BY <1>1 DEF Dial
  <2> QED  BY <2>1, <2>2, <2>3
<1>2. CASE Swap(o)
  BY <1>2 DEF Swap
<1>3. CASE Disconnect(o)
  BY <1>3 DEF Disconnect
<1>4. CASE RemoveLogin(o)
  BY <1>4 DEF RemoveLogin
<1>5. CASE RegisterAgent(o)
  <2>1. /\ ends[o] = "accepted" /\ net[o] \notin {"unused", "dial"}
        /\ serverid[o] \in LoginServer
        /\ ends' = [ends EXCEPT ![o] = "registered"]
        /\ id2agents' = [id2agents EXCEPT ![serverid[o]] = o]
        /\ UNCHANGED <<serverid, net>>
    BY <1>5 DEF RegisterAgent
  <2>2. /\ \A p \in doubled : p \in doubled'
        /\ \A p \in Link : p # o /\ ends[p] = "registered" /\ serverid[p] = serverid[o]
             => p \in doubled' /\ o \in doubled'
    BY <1>5 DEF RegisterAgent, Registered
  <2>3. NoEndBefore'
    BY <2>1
  <2>4. DoubledKnown'
    BY <2>1, <2>2
  <2>5. AgentsAreConnected'
    BY <2>1
  <2>6. HallIsReachable'
    BY <2>1, <2>2
  <2> QED  BY <2>3, <2>4, <2>5, <2>6
<1>6. CASE RemoveAgent(o)
  <2>1. /\ ends' = [ends EXCEPT ![o] = "gone"]
        /\ UNCHANGED <<serverid, net, doubled>>
        /\ ends[o] \in {"accepted", "registered"}
    BY <1>6 DEF RemoveAgent
  <2>2. NoEndBefore' /\ DoubledKnown'
    BY <2>1
  <2>3. CASE ends[o] = "accepted"
    <3>1. id2agents' = id2agents
      BY <1>6, <2>3 DEF RemoveAgent
    <3> QED  BY <2>1, <2>2, <2>3, <3>1
  <2>4. CASE ends[o] = "registered"
    <3>1. id2agents' = [id2agents EXCEPT ![serverid[o]] = NoLink]
      BY <1>6, <2>4 DEF RemoveAgent
    <3>2. AgentsAreConnected'
      BY <2>1, <3>1, <2>4
    <3>3. HallIsReachable'
      BY <2>1, <3>1, <2>4
    <3> QED  BY <2>2, <3>2, <3>3
  <2> QED  BY <2>1, <2>3, <2>4
<1> QED  BY <1>1, <1>2, <1>3, <1>4, <1>5, <1>6 DEF LinkStep

LEMMA AgentsStep == AgentsInv /\ [LinksNext]_linksVars => AgentsInv'
<1> SUFFICES ASSUME AgentsInv, [LinksNext]_linksVars PROVE AgentsInv'
  OBVIOUS
<1>1. LinksTypeOK'
  BY LinksTypeStep DEF AgentsInv
<1>2. CASE UNCHANGED linksVars
  BY <1>1, <1>2 DEF linksVars, AgentsInv, NoEndBefore, DoubledKnown, AgentsReachHalls,
     AgentsAreConnected, HallIsReachable
<1>3. CASE LinksNext
  BY <1>1, <1>3, CenterAgentsStep, LinkAgentsStep DEF LinksNext, AgentsInv
<1> QED  BY <1>2, <1>3

\* The map id2agents of a login server leads to the hall exactly when the hall
\* is registered and no two of its connections have been at a time (SetAgentByID,
\* RemoveAgent).
THEOREM AgentsCorrect == LinksSpec => []AgentsReachHalls
<1>1. AgentsInv => AgentsReachHalls
  BY DEF AgentsInv
<1> QED  BY AgentsInit, AgentsStep, <1>1, PTL DEF LinksSpec

(***************************************************************************)
(* The map of the hall. A message of the center closes first what it will  *)
(* replace or drop, and waits for it: so long as no wait has timed out     *)
(* (late), no object that is of use, or whose OnDisconnect is to come, is  *)
(* under an id whose entry a handler is about to set.                      *)
(***************************************************************************)

\* The object dials, is of use, or will yet run OnDisconnect.
Active(o) == net[o] # "unused" /\ (state[o] # "force_close" \/ net[o] \in {"run", "leaving"})

\* It is about to be closed, or its close is being waited for.
Held(o) == o \in handler.todo \/ (handler.pc = "wait" /\ handler.at = o)

StatesFit ==
  \A o \in Link :
    /\ net[o] = "unused" => state[o] = "disconnect"
    /\ net[o] \in {"dial", "open"} => state[o] # "connected"
    /\ net[o] \in {"stuck", "leaving", "closed"} => state[o] = "force_close"

EntriesOwn ==
  \A s \in LoginServer :
    id2loginconn[s] # NoLink => serverid[id2loginconn[s]] = s

HandlerFits ==
  /\ handler.pc = "idle" =>
       /\ handler.todo = {} /\ handler.at = NoLink
       /\ handler.add = {} /\ handler.drop = {}
  /\ handler.add = {} \/ handler.drop = {}
  /\ \A o \in handler.todo : net[o] # "unused"
  /\ handler.at # NoLink => net[handler.at] # "unused" /\ state[handler.at] = "force_close"

\* When several are to be closed the map is empty (DisconnectAll).
ManyEmptyMap ==
  (\/ \E o, p \in handler.todo : o # p
   \/ handler.at # NoLink /\ handler.todo # {})
    => \A s \in LoginServer : id2loginconn[s] = NoLink

ActiveKnown ==
  \A o \in Link : Active(o) /\ serverid[o] \notin late =>
    id2loginconn[serverid[o]] = o \/ Held(o)

ActiveHeld ==
  \A o \in Link :
    Active(o) /\ serverid[o] \notin late /\ serverid[o] \in handler.add \cup handler.drop
      => Held(o)

HeldOwn ==
  \A o \in Link : Held(o) => id2loginconn[serverid[o]] \in {o, NoLink}

ClosedGo ==
  \A o \in Link : o \in handler.todo \/ handler.at = o =>
    (id2loginconn[serverid[o]] = o => serverid[o] \in handler.add \cup handler.drop)

LinksInv ==
  /\ LinksTypeOK
  /\ StatesFit
  /\ EntriesOwn
  /\ HandlerFits
  /\ ManyEmptyMap
  /\ ActiveKnown
  /\ ActiveHeld
  /\ HeldOwn
  /\ ClosedGo
  /\ EntriesAreAlive

LEMMA LinksInvInit == LinksInit => LinksInv
<1> SUFFICES ASSUME LinksInit PROVE LinksInv
  OBVIOUS
<1>1. LinksTypeOK
  BY LinksTypeInit
<1>2. /\ handler.pc = "idle" /\ handler.todo = {} /\ handler.at = NoLink
      /\ handler.add = {} /\ handler.drop = {}
  BY DEF LinksInit, NoHandler
<1>3. /\ \A o \in Link : net[o] = "unused" /\ state[o] = "disconnect"
      /\ \A s \in LoginServer : id2loginconn[s] = NoLink
  BY DEF LinksInit
<1>4. StatesFit /\ EntriesOwn /\ HandlerFits /\ ManyEmptyMap /\ EntriesAreAlive
  BY <1>2, <1>3 DEF StatesFit, EntriesOwn, HandlerFits, ManyEmptyMap, EntriesAreAlive
<1>5. ActiveKnown /\ ActiveHeld
  BY <1>3 DEF ActiveKnown, ActiveHeld, Active
<1>6. HeldOwn /\ ClosedGo
  BY <1>2, HallLinksAssumption DEF HeldOwn, ClosedGo, Held
<1> QED  BY <1>1, <1>4, <1>5, <1>6 DEF LinksInv

\* What the object of an entry is, and what the handler holds.
LEMMA LinksFacts ==
  ASSUME LinksInv
  PROVE  /\ \A s \in LoginServer : id2loginconn[s] # NoLink =>
              /\ id2loginconn[s] \in Link
              /\ serverid[id2loginconn[s]] = s
              /\ net[id2loginconn[s]] # "unused"
         /\ \A o \in Link : net[o] # "unused" => serverid[o] \in LoginServer
         /\ handler.todo \subseteq Link
         /\ handler.at \in Link \cup {NoLink}
         /\ handler.add \subseteq LoginServer /\ handler.drop \subseteq LoginServer
         /\ handler.pc = "wait" => handler.at \in Link
         /\ handler.pc \in {"idle", "close", "wait"}
         /\ NoLink \notin Link /\ NoLink \notin LoginServer
BY HallLinksAssumption DEF LinksInv, LinksTypeOK, EntriesOwn, Handlers

\* A step of one object leaves the handler, and the other objects, alone.
LEMMA DialKeeps == ASSUME LinksInv, NEW o \in Link, Dial(o) PROVE LinksInv'
<1> USE LinksFacts
<1>1. /\ net[o] = "dial" /\ net' = [net EXCEPT ![o] = "open"]
      /\ UNCHANGED <<serverid, state, id2loginconn, handler, late>>
  BY DEF Dial
<1>2. net \in [Link -> NetStates]
  BY DEF LinksInv, LinksTypeOK
<1>3. LinksTypeOK'
  BY LinksTypeStep DEF LinksInv, LinksNext, LinkStep
<1>4. \A p \in Link : Active(p)' <=> Active(p)
  BY <1>1, <1>2 DEF Active
<1>5. \A p \in Link : Held(p)' <=> Held(p)
  BY <1>1 DEF Held
<1>6. StatesFit' /\ EntriesOwn' /\ HandlerFits' /\ ManyEmptyMap' /\ EntriesAreAlive'
  BY <1>1, <1>2 DEF LinksInv, StatesFit, EntriesOwn, HandlerFits, ManyEmptyMap, EntriesAreAlive
<1>7. ActiveKnown' /\ ActiveHeld' /\ HeldOwn' /\ ClosedGo'
  BY <1>1, <1>4, <1>5 DEF LinksInv, ActiveKnown, ActiveHeld, HeldOwn, ClosedGo
<1> QED  BY <1>3, <1>6, <1>7 DEF LinksInv

LEMMA SwapKeeps == ASSUME LinksInv, NEW o \in Link, Swap(o) PROVE LinksInv'
<1> USE LinksFacts
<1>1. /\ net[o] = "open" /\ UNCHANGED <<serverid, id2loginconn, handler, late>>
      /\ \/ /\ state[o] = "disconnect"
            /\ state' = [state EXCEPT ![o] = "connected"]
            /\ net' = [net EXCEPT ![o] = "run"]
         \/ /\ state[o] = "force_close" /\ state' = state
            /\ net' = [net EXCEPT ![o] = "stuck"]
  BY DEF Swap, LinksInv, LinksTypeOK, LinkStates, StatesFit, linkVars, agentVars
<1>2. net \in [Link -> NetStates] /\ state \in [Link -> LinkStates]
  BY DEF LinksInv, LinksTypeOK
<1>3. LinksTypeOK'
  BY LinksTypeStep DEF LinksInv, LinksNext, LinkStep
<1>4. \A p \in Link : Active(p)' <=> Active(p)
  BY <1>1, <1>2 DEF Active
<1>5. \A p \in Link : Held(p)' <=> Held(p)
  BY <1>1 DEF Held
<1>6. \A p \in Link : /\ (state'[p] = "force_close") = (state[p] = "force_close")
                      /\ (net'[p] = "leaving") = (net[p] = "leaving")
                      /\ (net'[p] = "unused") = (net[p] = "unused")
  <2>1. CASE state' = state
    BY <1>1, <1>2, <2>1
  <2>2. CASE state[o] = "disconnect"
    BY <1>1, <1>2, <2>2
  <2> QED  BY <1>1, <2>1, <2>2
<1>7. StatesFit'
  BY <1>1, <1>2 DEF LinksInv, StatesFit
<1>8. EntriesOwn' /\ HandlerFits' /\ ManyEmptyMap' /\ EntriesAreAlive'
  <2>1. EntriesOwn' /\ ManyEmptyMap'
    BY <1>1 DEF LinksInv, EntriesOwn, ManyEmptyMap
  <2>2. HandlerFits'
    BY <1>1, <1>6 DEF LinksInv, HandlerFits
  <2>3. EntriesAreAlive'
    BY <1>1, <1>6 DEF LinksInv, EntriesAreAlive
  <2> QED  BY <2>1, <2>2, <2>3
<1>9. ActiveKnown' /\ ActiveHeld' /\ HeldOwn' /\ ClosedGo'
  BY <1>1, <1>4, <1>5 DEF LinksInv, ActiveKnown, ActiveHeld, HeldOwn, ClosedGo
<1> QED  BY <1>3, <1>7, <1>8, <1>9 DEF LinksInv

LEMMA DisconnectKeeps == ASSUME LinksInv, NEW o \in Link, Disconnect(o) PROVE LinksInv'
<1> USE LinksFacts
<1>1. /\ net[o] = "run" /\ UNCHANGED <<serverid, id2loginconn, handler, late>>
      /\ state' = [state EXCEPT ![o] = "force_close"]
      /\ net' = [net EXCEPT ![o] = "leaving"]
  BY DEF Disconnect, agentVars
<1>2. net \in [Link -> NetStates] /\ state \in [Link -> LinkStates]
  BY DEF LinksInv, LinksTypeOK
<1>3. LinksTypeOK'
  BY LinksTypeStep DEF LinksInv, LinksNext, LinkStep
<1>4. \A p \in Link : Active(p)' <=> Active(p)
  BY <1>1, <1>2 DEF Active
<1>5. \A p \in Link : Held(p)' <=> Held(p)
  BY <1>1 DEF Held
<1>6. StatesFit' /\ EntriesOwn' /\ HandlerFits' /\ ManyEmptyMap'
  BY <1>1, <1>2 DEF LinksInv, StatesFit, EntriesOwn, HandlerFits, ManyEmptyMap
<1>7. EntriesAreAlive'
  BY <1>1, <1>2 DEF LinksInv, EntriesAreAlive
<1>8. ActiveKnown' /\ ActiveHeld' /\ HeldOwn' /\ ClosedGo'
  BY <1>1, <1>4, <1>5 DEF LinksInv, ActiveKnown, ActiveHeld, HeldOwn, ClosedGo
<1> QED  BY <1>3, <1>6, <1>7, <1>8 DEF LinksInv

\* The removal by id takes no other object's entry: the object was in the map
\* itself or is being closed, and then nothing else is under its id.
LEMMA RemoveLoginKeeps == ASSUME LinksInv, NEW o \in Link, RemoveLogin(o) PROVE LinksInv'
<1> USE LinksFacts
<1>1. /\ net[o] = "leaving" /\ UNCHANGED <<serverid, state, handler, late>>
      /\ id2loginconn' = [id2loginconn EXCEPT ![serverid[o]] = NoLink]
      /\ net' = [net EXCEPT ![o] = "closed"]
      /\ serverid[o] \in LoginServer
  BY DEF RemoveLogin, agentVars
<1>2. /\ net \in [Link -> NetStates]
      /\ id2loginconn \in [LoginServer -> Link \cup {NoLink}]
  BY DEF LinksInv, LinksTypeOK
<1>3. LinksTypeOK'
  BY LinksTypeStep DEF LinksInv, LinksNext, LinkStep
<1>4. \A p \in Link : Active(p)' => Active(p) /\ p # o /\ serverid[p] \in LoginServer
  BY <1>1, <1>2 DEF LinksInv, StatesFit, Active
<1>5. \A p \in Link : Held(p)' <=> Held(p)
  BY <1>1 DEF Held
<1>6. StatesFit' /\ EntriesOwn' /\ HandlerFits' /\ ManyEmptyMap'
  BY <1>1, <1>2 DEF LinksInv, StatesFit, EntriesOwn, HandlerFits, ManyEmptyMap
<1>7. EntriesAreAlive'
  BY <1>1, <1>2 DEF LinksInv, EntriesAreAlive, EntriesOwn
<1>8. ActiveKnown'
  <2>1. serverid[o] \notin late => id2loginconn[serverid[o]] \in {o, NoLink}
    BY <1>1 DEF LinksInv, ActiveKnown, HeldOwn, Active
  <2> QED  BY <1>1, <1>2, <1>4, <1>5, <2>1 DEF LinksInv, ActiveKnown
<1>9. ActiveHeld'
  BY <1>1, <1>4, <1>5 DEF LinksInv, ActiveHeld
<1>10. HeldOwn'
  BY <1>1, <1>2, <1>5 DEF LinksInv, HeldOwn
<1>11. ClosedGo'
  BY <1>1, <1>2 DEF LinksInv, ClosedGo
<1> QED  BY <1>3, <1>6, <1>7, <1>8, <1>9, <1>10, <1>11 DEF LinksInv

LEMMA EndsKeep ==
  ASSUME LinksInv, NEW o \in Link, RegisterAgent(o) \/ RemoveAgent(o) PROVE LinksInv'
<1>1. UNCHANGED <<serverid, state, net, id2loginconn, handler, late>>
  BY DEF RegisterAgent, RemoveAgent, linkVars
<1>2. LinksTypeOK'
  BY LinksTypeStep DEF LinksInv, LinksNext, LinkStep
<1> QED
  BY <1>1, <1>2 DEF LinksInv, StatesFit, EntriesOwn, HandlerFits, ManyEmptyMap, ActiveKnown,
     ActiveHeld, HeldOwn, ClosedGo, EntriesAreAlive, Active, Held

\* A message that comes finds nothing held: what is active is in the map.
LEMMA ListComesKeeps == ASSUME LinksInv, ListComes PROVE LinksInv'
<1> USE LinksFacts
<1>1. PICK ids \in SUBSET LoginServer :
        handler' = [pc |-> "close", todo |-> Entries, at |-> NoLink, add |-> ids,
                    drop |-> {}]
  BY DEF ListComes, NoHandler
<1>2. /\ UNCHANGED <<serverid, state, net, late>>
      /\ \A s \in LoginServer : id2loginconn'[s] = NoLink
      /\ handler.pc = "idle"
  BY DEF ListComes, linkVars, agentVars
<1>3. LinksTypeOK'
  BY LinksTypeStep DEF LinksInv, LinksNext, CenterStep
<1>4. \A p \in Link : Active(p)' <=> Active(p)
  BY <1>2 DEF Active
<1>5. \A p \in Link : ~ Held(p)
  BY <1>2 DEF LinksInv, HandlerFits, Held
<1>6. \A s \in LoginServer : id2loginconn[s] # NoLink => id2loginconn[s] \in Entries
  BY DEF Entries
<1>7. \A p \in Entries : p \in Link /\ net[p] # "unused"
  BY DEF Entries
<1>8. StatesFit' /\ EntriesOwn' /\ ManyEmptyMap' /\ EntriesAreAlive'
  BY <1>2 DEF LinksInv, StatesFit, EntriesOwn, ManyEmptyMap, EntriesAreAlive
<1>9. HandlerFits'
  BY <1>1, <1>2, <1>7 DEF HandlerFits
<1>10. \A p \in Link : Active(p) /\ serverid[p] \notin late => p \in Entries
  BY <1>5, <1>6 DEF LinksInv, ActiveKnown, Active
<1>11. \A p \in Entries : Held(p)'
  BY <1>1 DEF Held
<1>12. ActiveKnown' /\ ActiveHeld'
  BY <1>2, <1>4, <1>10, <1>11 DEF ActiveKnown, ActiveHeld
<1>13. \A p \in Link : Held(p)' => p \in Entries
  BY <1>1 DEF Held
<1>14. HeldOwn' /\ ClosedGo'
  BY <1>1, <1>2, <1>7, <1>13 DEF HeldOwn, ClosedGo
<1> QED  BY <1>3, <1>8, <1>9, <1>12, <1>14 DEF LinksInv

\* The messages about one login server hold the object of its id.
LEMMA OneComesKeeps ==
  ASSUME LinksInv, AddComes \/ RemoveComes PROVE LinksInv'
<1> USE LinksFacts
<1>1. PICK s \in LoginServer :
        \/ handler' = [pc |-> "close", todo |-> {id2loginconn[s]} \ {NoLink},
                       at |-> NoLink, add |-> {s}, drop |-> {}]
        \/ /\ id2loginconn[s] # NoLink
           /\ handler' = [pc |-> "close", todo |-> {id2loginconn[s]} \ {NoLink},
                          at |-> NoLink, add |-> {}, drop |-> {s}]
  <2>1. CASE AddComes
    BY <2>1 DEF AddComes, NoHandler
  <2>2. CASE RemoveComes
    <3>1. PICK s \in LoginServer :
            /\ id2loginconn[s] # NoLink
            /\ handler' = [pc |-> "close", todo |-> {id2loginconn[s]},
                           at |-> NoLink, add |-> {}, drop |-> {s}]
      BY <2>2 DEF RemoveComes, NoHandler
    <3>2. {id2loginconn[s]} = {id2loginconn[s]} \ {NoLink}
      BY <3>1
    <3> QED  BY <3>1, <3>2
  <2> QED  BY <2>1, <2>2
<1>2. /\ UNCHANGED <<serverid, state, net, id2loginconn, late>>
      /\ handler.pc = "idle"
  BY DEF AddComes, RemoveComes, linkVars, agentVars
<1>3. LinksTypeOK'
  BY LinksTypeStep DEF LinksInv, LinksNext, CenterStep
<1>4. /\ handler'.todo = {id2loginconn[s]} \ {NoLink}
      /\ handler'.at = NoLink
      /\ handler'.pc = "close"
      /\ handler'.add \cup handler'.drop = {s}
      /\ handler'.add = {} \/ handler'.drop = {}
  BY <1>1
<1>5. \A p \in Link : /\ Active(p)' <=> Active(p)
                      /\ ~ Held(p)
                      /\ Held(p)' <=> id2loginconn[s] = p
  BY <1>2, <1>4 DEF Active, Held, LinksInv, HandlerFits
<1>6. StatesFit' /\ EntriesOwn'
  BY <1>2 DEF LinksInv, StatesFit, EntriesOwn
<1>7. HandlerFits'
  BY <1>2, <1>4 DEF HandlerFits
<1>8. ManyEmptyMap'
  BY <1>4 DEF ManyEmptyMap
<1>9. EntriesAreAlive'
  BY <1>2, <1>4 DEF LinksInv, EntriesAreAlive
<1>10. \A p \in Link : Active(p) /\ serverid[p] \notin late => id2loginconn[serverid[p]] = p
  BY <1>5 DEF LinksInv, ActiveKnown
<1>11. ActiveKnown'
  BY <1>2, <1>5, <1>10 DEF ActiveKnown
<1>12. ActiveHeld'
  <2> SUFFICES ASSUME NEW p \in Link, Active(p)', serverid[p] \notin late, serverid[p] = s
               PROVE  Held(p)'
    BY <1>2, <1>4 DEF ActiveHeld
  <2> QED  BY <1>5, <1>10
<1>13. HeldOwn'
  <2>1. \A p \in Link : id2loginconn[s] = p => serverid[p] = s
    BY DEF LinksInv, EntriesOwn
  <2> QED  BY <1>2, <1>5, <2>1 DEF HeldOwn
<1>14. ClosedGo'
  <2> SUFFICES ASSUME NEW p \in Link, p = id2loginconn[s]
               PROVE  serverid[p] = s
    BY <1>2, <1>4 DEF ClosedGo
  <2> QED  BY DEF LinksInv, EntriesOwn
<1> QED
  BY <1>3, <1>6, <1>7, <1>8, <1>9, <1>11, <1>12, <1>13, <1>14 DEF LinksInv

\* What is closed stays held while its loops run; if they do not, nothing is to
\* come from it, for its state is FORCE_CLOSE.
LEMMA ForceCloseKeeps == ASSUME LinksInv, NEW o \in Link, ForceClose(o) PROVE LinksInv'
<1> USE LinksFacts
<1>1. /\ handler.pc = "close" /\ o \in handler.todo
      /\ UNCHANGED <<serverid, net, id2loginconn, late>>
      /\ state' = [state EXCEPT ![o] = "force_close"]
      /\ handler'.todo = handler.todo \ {o}
      /\ handler'.at = o
      /\ handler'.add = handler.add
      /\ handler'.drop = handler.drop
      /\ handler'.pc = IF net[o] \in {"dial", "closed"} THEN "close" ELSE "wait"
  <2>1. handler \in Handlers
    BY DEF LinksInv, LinksTypeOK
  <2> QED  BY <2>1 DEF ForceClose, Handlers, agentVars
<1>2. state \in [Link -> LinkStates] /\ net[o] # "unused"
  BY <1>1 DEF LinksInv, LinksTypeOK, HandlerFits
<1>3. LinksTypeOK'
  BY LinksTypeStep DEF LinksInv, LinksNext, CenterStep
<1>4. /\ \A p \in Link : Active(p)' => Active(p)
      /\ Active(o)' => net[o] \in {"run", "leaving"}
  BY <1>1, <1>2 DEF Active
<1>5. /\ \A p \in Link : Held(p)' => Held(p)
      /\ \A p \in Link : Held(p) /\ p # o => Held(p)'
      /\ net[o] \in {"run", "leaving"} => Held(o)'
  BY <1>1 DEF Held
<1>6. StatesFit'
  BY <1>1, <1>2 DEF LinksInv, StatesFit
<1>7. EntriesOwn' /\ ManyEmptyMap'
  BY <1>1 DEF LinksInv, EntriesOwn, ManyEmptyMap
<1>8. HandlerFits'
  BY <1>1, <1>2 DEF LinksInv, HandlerFits
<1>9. ActiveKnown' /\ ActiveHeld'
  BY <1>1, <1>4, <1>5 DEF LinksInv, ActiveKnown, ActiveHeld
<1>10. HeldOwn' /\ ClosedGo'
  BY <1>1, <1>5 DEF LinksInv, HeldOwn, ClosedGo
<1>11. EntriesAreAlive'
  <2>1. \A s \in LoginServer : id2loginconn[s] # NoLink => handler.at = NoLink
    BY <1>1 DEF LinksInv, ManyEmptyMap
  <2>2. \A s \in LoginServer :
          id2loginconn[s] # NoLink /\ state[id2loginconn[s]] = "force_close" =>
            net[id2loginconn[s]] = "leaving"
    BY <2>1 DEF LinksInv, EntriesAreAlive
  <2>3. \A p \in Link : state'[p] = "force_close" => p = o \/ state[p] = "force_close"
    BY <1>1, <1>2
  <2>4. handler'.pc # "idle"
    BY <1>1
  <2> QED  BY <1>1, <2>2, <2>3, <2>4 DEF EntriesAreAlive
<1> QED  BY <1>3, <1>6, <1>7, <1>8, <1>9, <1>10, <1>11 DEF LinksInv

\* A wait that ends too early makes the login server late.
LEMMA CloseReturnsKeeps == ASSUME LinksInv, CloseReturns PROVE LinksInv'
<1> USE LinksFacts
<1>1. /\ handler.pc = "wait" /\ UNCHANGED <<serverid, net, state, id2loginconn>>
      /\ handler'.todo = handler.todo
      /\ handler'.at = handler.at
      /\ handler'.add = handler.add
      /\ handler'.drop = handler.drop
      /\ handler'.pc = "close"
      /\ late' = IF net[handler.at] \in {"run", "leaving"}
                 THEN late \cup {serverid[handler.at]} ELSE late
  <2>1. handler \in Handlers
    BY DEF LinksInv, LinksTypeOK
  <2> QED  BY <2>1 DEF CloseReturns, Handlers, linkVars, agentVars
<1>2. LinksTypeOK'
  BY LinksTypeStep DEF LinksInv, LinksNext, CenterStep
<1>3. /\ handler.at \in Link /\ state[handler.at] = "force_close"
      /\ late \subseteq late'
      /\ Active(handler.at) => serverid[handler.at] \in late'
  BY <1>1 DEF LinksInv, HandlerFits, Active
<1>4. \A p \in Link : Active(p)' <=> Active(p)
  BY <1>1 DEF Active
<1>5. /\ \A p \in Link : Held(p)' => Held(p)
      /\ \A p \in Link : Held(p) /\ p # handler.at => Held(p)'
  BY <1>1 DEF Held
<1>6. StatesFit' /\ EntriesOwn' /\ ManyEmptyMap' /\ HandlerFits'
  BY <1>1 DEF LinksInv, StatesFit, EntriesOwn, ManyEmptyMap, HandlerFits
<1>7. EntriesAreAlive' /\ ClosedGo'
  BY <1>1 DEF LinksInv, EntriesAreAlive, ClosedGo
<1>8. ActiveKnown' /\ ActiveHeld'
  BY <1>1, <1>3, <1>4, <1>5 DEF LinksInv, ActiveKnown, ActiveHeld
<1>9. HeldOwn'
  BY <1>1, <1>5 DEF LinksInv, HeldOwn
<1> QED  BY <1>2, <1>6, <1>7, <1>8, <1>9 DEF LinksInv

\* When nothing is left to close, nothing active is under the ids of the message.
LEMMA AddLoginKeeps ==
  ASSUME LinksInv, NEW s \in LoginServer, NEW o \in Link, AddLogin(s, o) PROVE LinksInv'
<1> USE LinksFacts
<1>1. /\ handler.pc = "close" /\ handler.todo = {} /\ s \in handler.add
      /\ net[o] = "unused"
      /\ UNCHANGED <<state, late>>
      /\ serverid' = [serverid EXCEPT ![o] = s]
      /\ net' = [net EXCEPT ![o] = "dial"]
      /\ id2loginconn' = [id2loginconn EXCEPT ![s] = o]
      /\ handler'.todo = {}
      /\ handler'.at = handler.at
      /\ handler'.add = handler.add \ {s}
      /\ handler'.drop = handler.drop
      /\ handler'.pc = "close"
  <2>1. handler \in Handlers
    BY DEF LinksInv, LinksTypeOK
  <2> QED  BY <2>1 DEF AddLogin, Handlers, agentVars
<1>2. /\ state \in [Link -> LinkStates] /\ net \in [Link -> NetStates]
      /\ serverid \in [Link -> LoginServer \cup {NoLink}]
      /\ id2loginconn \in [LoginServer -> Link \cup {NoLink}]
      /\ state[o] = "disconnect"
  BY <1>1 DEF LinksInv, LinksTypeOK, StatesFit
<1>3. LinksTypeOK'
  BY LinksTypeStep DEF LinksInv, LinksNext, CenterStep
<1>4. /\ \A p \in Link : p # o => (Active(p)' <=> Active(p))
      /\ \A p \in Link : ~ Held(p) /\ ~ Held(p)'
      /\ \A p \in Link : p # o => serverid'[p] = serverid[p]
      /\ \A t \in LoginServer : t # s => id2loginconn'[t] = id2loginconn[t]
      /\ \A t \in LoginServer : id2loginconn[t] # o
  BY <1>1, <1>2 DEF Active, Held
<1>5. StatesFit'
  BY <1>1, <1>2 DEF LinksInv, StatesFit
<1>6. EntriesOwn'
  BY <1>1, <1>2, <1>4 DEF LinksInv, EntriesOwn
<1>7. HandlerFits' /\ ManyEmptyMap'
  BY <1>1, <1>2 DEF LinksInv, HandlerFits, ManyEmptyMap
<1>8. EntriesAreAlive'
  BY <1>1, <1>2, <1>4 DEF LinksInv, EntriesAreAlive
<1>9. ActiveKnown'
  <2>1. \A p \in Link : Active(p) /\ serverid[p] \notin late =>
          id2loginconn[serverid[p]] = p /\ serverid[p] # s
    BY <1>1, <1>4 DEF LinksInv, ActiveKnown, ActiveHeld
  <2> QED  BY <1>1, <1>2, <1>4, <2>1 DEF ActiveKnown, Active
<1>10. ActiveHeld'
  BY <1>1, <1>2, <1>4 DEF LinksInv, ActiveHeld, HandlerFits
<1>11. HeldOwn'
  BY <1>4 DEF HeldOwn
<1>12. ClosedGo'
  BY <1>1, <1>2, <1>4 DEF LinksInv, ClosedGo, HandlerFits
<1> QED
  BY <1>3, <1>5, <1>6, <1>7, <1>8, <1>9, <1>10, <1>11, <1>12 DEF LinksInv

\* ... nor under the id that goes; and the object that was closed has left its
\* entry, or its entry goes.
LEMMA HandlerEndsKeeps == ASSUME LinksInv, HandlerEnds PROVE LinksInv'
<1> USE LinksFacts
<1>1. /\ handler.pc = "close" /\ handler.todo = {} /\ handler.add = {}
      /\ UNCHANGED <<serverid, net, state, late>>
      /\ \A s \in LoginServer : id2loginconn'[s] = IF s \in handler.drop THEN NoLink
                                                   ELSE id2loginconn[s]
      /\ handler'.pc = "idle" /\ handler'.todo = {} /\ handler'.at = NoLink
      /\ handler'.add = {} /\ handler'.drop = {}
  BY DEF HandlerEnds, NoHandler, linkVars, agentVars
<1>2. LinksTypeOK'
  BY LinksTypeStep DEF LinksInv, LinksNext, CenterStep
<1>3. \A p \in Link : (Active(p)' <=> Active(p)) /\ ~ Held(p) /\ ~ Held(p)'
  BY <1>1 DEF Active, Held
<1>4. StatesFit' /\ EntriesOwn' /\ HandlerFits' /\ ManyEmptyMap'
  BY <1>1 DEF LinksInv, StatesFit, EntriesOwn, HandlerFits, ManyEmptyMap
<1>5. EntriesAreAlive'
  <2>1. \A s \in LoginServer :
          s \notin handler.drop /\ id2loginconn[s] # NoLink => handler.at # id2loginconn[s]
    BY <1>1 DEF LinksInv, ClosedGo
  <2> QED  BY <1>1, <2>1 DEF LinksInv, EntriesAreAlive
<1>6. ActiveKnown'
  <2>1. \A p \in Link : Active(p) /\ serverid[p] \notin late =>
          id2loginconn[serverid[p]] = p /\ serverid[p] \notin handler.drop
    BY <1>3 DEF LinksInv, ActiveKnown, ActiveHeld
  <2> QED  BY <1>1, <1>3, <2>1 DEF ActiveKnown, Active
<1>7. ActiveHeld' /\ HeldOwn'
  BY <1>1, <1>3 DEF ActiveHeld, HeldOwn
<1>8. ClosedGo'
  BY <1>1 DEF ClosedGo
<1> QED  BY <1>2, <1>4, <1>5, <1>6, <1>7, <1>8 DEF LinksInv

LEMMA LinksInvStep == LinksInv /\ [LinksNext]_linksVars => LinksInv'
<1> SUFFICES ASSUME LinksInv, [LinksNext]_linksVars PROVE LinksInv'
  OBVIOUS
<1>1. CASE UNCHANGED linksVars
  BY <1>1 DEF linksVars, LinksInv, LinksTypeOK, StatesFit, EntriesOwn, HandlerFits,
     ManyEmptyMap, ActiveKnown, ActiveHeld, HeldOwn, ClosedGo, EntriesAreAlive, Active, Held
<1>2. CASE CenterStep
  BY <1>2, ListComesKeeps, OneComesKeeps, ForceCloseKeeps, CloseReturnsKeeps,
     AddLoginKeeps, HandlerEndsKeeps DEF CenterStep
<1>3. ASSUME NEW o \in Link, LinkStep(o) PROVE LinksInv'
  BY <1>3, DialKeeps, SwapKeeps, DisconnectKeeps, RemoveLoginKeeps, EndsKeep DEF LinkStep
<1> QED  BY <1>1, <1>2, <1>3 DEF LinksNext

\* The map of LoginConnectionMgr holds the objects that are of use, and no dead
\* one, whatever messages of the center come while they dial, run and are lost,
\* unless a ServerConn.Close has timed out.
THEOREM LinksCorrect == LinksSpec => []LinksAreKnown
<1>1. LinksInv => LinksAreKnown
  <2> SUFFICES ASSUME LinksInv PROVE LinksAreKnown
    OBVIOUS
  <2>1. \A o \in Link : net[o] # "unused" /\ state[o] # "force_close" =>
          Active(o) /\ (Held(o) => o \in handler.todo)
    BY HallLinksAssumption DEF LinksInv, Active, Held, HandlerFits
  <2>2. LiveLinksAreKnown
    BY <2>1 DEF LinksInv, ActiveKnown, LiveLinksAreKnown
  <2> QED  BY <2>2 DEF LinksInv, LinksAreKnown
<1> QED  BY LinksInvInit, LinksInvStep, <1>1, PTL DEF LinksSpec

-----------------------------------------------------------------------------
(* The center's list of login servers (LoginRegistry).                     *)

(***************************************************************************)
(* Types.                                                                  *)
(***************************************************************************)

LoginsOK ==
  /\ lc \in [LoginConn -> [pc : LoginPlaces, id : LoginId]]
  /\ logins \in [LoginId -> LoginConn \cup {NoConn}]
  /\ overlap \subseteq LoginConn

HallsOK ==
  /\ hc \in [HallConn -> [pc : HallPlaces, ids : SUBSET LoginId]]
  /\ id2agent \in HallConn \cup {NoConn}
  /\ current \in HallConn \cup {NoConn}
  /\ known \subseteq LoginId /\ lost \subseteq LoginId

ChannelOK == toHall \in Seq(Message)

RacedOK == raced \in BOOLEAN /\ untold \in BOOLEAN

LEMMA RegistryParts == RegistryTypeOK <=> LoginsOK /\ HallsOK /\ ChannelOK /\ RacedOK
BY Zenon DEF RegistryTypeOK, LoginsOK, HallsOK, ChannelOK, RacedOK

LEMMA AnyIdType == AnyId \in LoginId
BY LoginRegistryAssumption DEF AnyId

LEMMA RegistryTypeInit == RegistryInit => RegistryTypeOK
<1> SUFFICES ASSUME RegistryInit PROVE LoginsOK /\ HallsOK /\ ChannelOK /\ RacedOK
  BY RegistryParts
<1>1. LoginsOK
  BY AnyIdType DEF RegistryInit, LoginsOK, LoginPlaces, Of
<1>2. HallsOK /\ ChannelOK
  BY DEF RegistryInit, HallsOK, ChannelOK, HallPlaces
<1>3. RacedOK
  BY Zenon DEF RegistryInit, RacedOK
<1> QED  BY <1>1, <1>2, <1>3

\* What a step of a login server's connection does to it.
OnlyConn(c, place, s) ==
  /\ lc'[c].pc = place /\ lc'[c].id = s
  /\ \A d \in LoginConn \ {c} : lc'[d] = lc[d]
  /\ lc' \in [LoginConn -> [pc : LoginPlaces, id : LoginId]]

LEMMA ConnReplaced ==
  ASSUME LoginsOK, NEW c \in LoginConn, NEW place \in LoginPlaces, NEW s \in LoginId,
         lc' = [lc EXCEPT ![c] = Of(place, s)]
  PROVE  OnlyConn(c, place, s)
BY DEF LoginsOK, OnlyConn, Of

LEMMA LoginGoesDoes ==
  ASSUME LoginsOK, NEW c \in LoginConn, NEW place \in LoginPlaces, LoginGoes(c, place)
  PROVE  OnlyConn(c, place, lc[c].id)
<1>1. lc[c].id \in LoginId
  BY DEF LoginsOK
<1>2. lc' = [lc EXCEPT ![c] = Of(place, lc[c].id)]
  BY DEF LoginGoes, LoginsOK
<1> QED  BY <1>1, <1>2, ConnReplaced

LEMMA LoginEndsDoes ==
  ASSUME LoginsOK, NEW c \in LoginConn, lc' = [lc EXCEPT ![c] = Ended]
  PROVE  OnlyConn(c, "gone", AnyId)
BY AnyIdType, ConnReplaced DEF Ended, LoginPlaces

LEMMA LoginConnTypes ==
  ASSUME LoginsOK, NEW c \in LoginConn, LoginConnStep(c) PROVE LoginsOK'
<1> USE DEF LoginsOK, Registering, Disconnecting, LoginPlaces
<1>1. CASE LoginConnects(c)
  BY <1>1 DEF LoginConnects, Of
<1>2. CASE RegisterLogin(c)
  BY <1>2, LoginGoesDoes DEF RegisterLogin, OnlyConn
<1>3. CASE RemoveOld(c)
  BY <1>3, LoginGoesDoes DEF RemoveOld, OnlyConn
<1>4. CASE CastRemoved(c)
  BY <1>4, LoginGoesDoes DEF CastRemoved, OnlyConn
<1>5. CASE CastAdded(c)
  BY <1>5, LoginGoesDoes DEF CastAdded, OnlyConn
<1>6. CASE AddLoginInfo(c)
  BY <1>6, LoginGoesDoes DEF AddLoginInfo, OnlyConn
<1>7. CASE LoginDisconnects(c)
  BY <1>7, LoginGoesDoes, LoginEndsDoes DEF LoginDisconnects, OnlyConn
<1>8. CASE RemoveById(c)
  BY <1>8, LoginGoesDoes DEF RemoveById, OnlyConn
<1>9. CASE CastGone(c)
  BY <1>9, LoginEndsDoes DEF CastGone, OnlyConn
<1> QED  BY <1>1, <1>2, <1>3, <1>4, <1>5, <1>6, <1>7, <1>8, <1>9 DEF LoginConnStep

LEMMA ListMessage == ASSUME NEW ids \in SUBSET LoginId PROVE [kind |-> "list", ids |-> ids] \in Message
BY DEF Message

LEMMA HallConnTypes ==
  ASSUME LoginsOK, HallsOK, NEW h \in HallConn, HallConnStep(h) PROVE HallsOK'
<1> USE DEF HallsOK, HallPlaces
<1>1. CASE HallConnects(h)
  BY <1>1 DEF HallConnects
<1>2. CASE RegisterHall(h)
  BY <1>2 DEF RegisterHall
<1>3. CASE AddHallAgent(h)
  BY <1>3 DEF AddHallAgent
<1>4. CASE TakeList(h)
  BY <1>4 DEF TakeList, Listed
<1>5. CASE SendList(h)
  BY <1>5 DEF SendList
<1>6. CASE HallDisconnects(h)
  BY <1>6 DEF HallDisconnects
<1> QED  BY <1>1, <1>2, <1>3, <1>4, <1>5, <1>6 DEF HallConnStep

LEMMA BroadcastTypes ==
  ASSUME ChannelOK, NEW s \in LoginId, NEW k \in {"add", "remove"},
         Broadcast([kind |-> k, id |-> s])
  PROVE  ChannelOK'
<1>1. [kind |-> k, id |-> s] \in Message
  BY DEF Message
<1> QED  BY <1>1 DEF Broadcast, ChannelOK

LEMMA ChannelStep == ASSUME LoginsOK, HallsOK, ChannelOK, RegistryNext PROVE ChannelOK'
<1>1. ASSUME NEW c \in LoginConn, LoginConnStep(c) PROVE ChannelOK'
  <2>1. lc[c].id \in LoginId
    BY DEF LoginsOK
  <2>2. CASE UNCHANGED toHall
    BY <2>2 DEF ChannelOK
  <2>3. CASE CastRemoved(c) \/ CastAdded(c) \/ CastGone(c)
    BY <2>1, <2>3, BroadcastTypes DEF CastRemoved, CastAdded, CastGone
  <2> QED  BY <1>1, <2>2, <2>3 DEF LoginConnStep, LoginConnects, RegisterLogin, RemoveOld,
              AddLoginInfo, LoginDisconnects, RemoveById
<1>2. ASSUME NEW h \in HallConn, SendList(h) PROVE ChannelOK'
  <2>1. hc[h].ids \in SUBSET LoginId
    BY DEF HallsOK
  <2> QED  BY <1>2, <2>1, ListMessage DEF SendList, ChannelOK
<1>3. ASSUME NEW h \in HallConn, HallDisconnects(h) PROVE ChannelOK'
  BY <1>3 DEF HallDisconnects, ChannelOK
<1>4. CASE HallLosesCenter
  BY <1>4 DEF HallLosesCenter, ChannelOK
<1>5. CASE HallReceives
  BY <1>5 DEF HallReceives, ChannelOK
<1>6. CASE UNCHANGED toHall
  BY <1>6 DEF ChannelOK
<1> QED  BY <1>1, <1>2, <1>3, <1>4, <1>5, <1>6
         DEF RegistryNext, HallLosesLogin, HallConnStep, HallConnects, RegisterHall, AddHallAgent, TakeList

LEMMA KnownStep ==
  ASSUME HallsOK, ChannelOK, HallReceives
  PROVE  known' \subseteq LoginId /\ lost' \subseteq LoginId
<1>1. Head(toHall) \in Message
  BY DEF ChannelOK, HallReceives
<1>2. Added(Head(toHall)) \subseteq LoginId
  BY <1>1 DEF Added, Message
<1> QED  BY <1>2 DEF HallReceives, HallsOK

LEMMA RegistryTypeStep == RegistryTypeOK /\ [RegistryNext]_registryVars => RegistryTypeOK'
<1> SUFFICES ASSUME RegistryTypeOK, [RegistryNext]_registryVars
             PROVE  LoginsOK' /\ HallsOK' /\ ChannelOK' /\ RacedOK'
  BY RegistryParts DEF RegistryTypeOK, LoginsOK, HallsOK, ChannelOK, RacedOK
<1>0. LoginsOK /\ HallsOK /\ ChannelOK /\ RacedOK
  BY RegistryParts
<1>1. CASE RegistryNext
  <2>1. ChannelOK'
    BY <1>0, <1>1, ChannelStep
  <2>2. RacedOK'
    <3>1. untold' \in BOOLEAN
      BY <1>0, <1>1, Zenon DEF RacedOK, RegistryNext, LoginConnStep, LoginConnects,
         RegisterLogin, RemoveOld, CastRemoved, CastAdded, AddLoginInfo, LoginDisconnects,
         RemoveById, CastGone, HallConnStep, HallConnects, RegisterHall, AddHallAgent,
         TakeList, SendList, HallDisconnects, HallLosesCenter, HallReceives, HallLosesLogin,
         hallSide
    <3>2. raced' \in BOOLEAN
      BY <1>1, Zenon DEF RegistryNext
    <3> QED  BY <3>1, <3>2 DEF RacedOK
  <2>3. ASSUME NEW c \in LoginConn, LoginConnStep(c) PROVE LoginsOK' /\ HallsOK'
    BY <1>0, <2>3, LoginConnTypes
       DEF HallsOK, hallSide, LoginConnStep, LoginConnects, RegisterLogin, RemoveOld,
           CastRemoved, CastAdded, AddLoginInfo, LoginDisconnects, RemoveById, CastGone
  <2>4. ASSUME NEW h \in HallConn, HallConnStep(h) PROVE LoginsOK' /\ HallsOK'
    BY <1>0, <2>4, HallConnTypes
       DEF LoginsOK, loginSide, HallConnStep, HallConnects, RegisterHall, AddHallAgent,
           TakeList, SendList, HallDisconnects
  <2>5. ASSUME HallLosesCenter PROVE LoginsOK' /\ HallsOK'
    BY <1>0, <2>5 DEF HallLosesCenter, LoginsOK, HallsOK, loginSide
  <2>6. ASSUME HallReceives PROVE LoginsOK' /\ HallsOK'
    BY <1>0, <2>6, KnownStep DEF HallReceives, LoginsOK, HallsOK, loginSide
  <2>7. ASSUME NEW s \in LoginId, HallLosesLogin(s) PROVE LoginsOK' /\ HallsOK'
    BY <1>0, <2>7 DEF HallLosesLogin, LoginsOK, HallsOK, loginSide
  <2> QED  BY <1>1, <2>1, <2>2, <2>3, <2>4, <2>5, <2>6, <2>7 DEF RegistryNext
<1>2. CASE UNCHANGED registryVars
  <2>1. LoginsOK' /\ HallsOK' /\ ChannelOK'
    BY <1>0, <1>2 DEF registryVars, LoginsOK, HallsOK, ChannelOK
  <2>2. RacedOK'
    BY <1>0, <1>2, Zenon DEF registryVars, RacedOK
  <2> QED  BY <2>1, <2>2
<1> QED  BY <1>1, <1>2

\* Every variable of the center's managers and of the hall's view has its type
\* (login_info_manager.go, hall_agent_manager.go, login_conn_mgr.go).
THEOREM RegistryTypeCorrect == RegistrySpec => []RegistryTypeOK
BY RegistryTypeInit, RegistryTypeStep, PTL DEF RegistrySpec

(***************************************************************************)
(* The list. An entry is of the connection that added it; a handler or an  *)
(* OnDisconnect removes by id what it may not have added, but then the two *)
(* connections stand side by side.                                         *)
(***************************************************************************)

OverlapKnown ==
  \A c, d \in LoginConn :
    /\ c # d
    /\ lc[c].pc \notin {"free", "gone"}
    /\ lc[d].pc \notin {"free", "gone"}
    /\ lc[c].id = lc[d].id
    => c \in overlap

ListInv == OverlapKnown /\ ListIsOfTheConnected

LEMMA NoConnIsNone == NoConn \notin LoginConn
BY DEF NoConn, LoginConn

LEMMA ListInvInit == RegistryInit => ListInv
BY DEF RegistryInit, ListInv, OverlapKnown, ListIsOfTheConnected, ListedLoginsAreConnected,
   ConnectedLoginsAreListed, Of

LEMMA OverlapStep ==
  ASSUME LoginsOK, OverlapKnown, NEW c \in LoginConn, LoginConnStep(c)
  PROVE  OverlapKnown'
<1>1. CASE LoginConnects(c)
  <2>1. PICK s \in LoginId :
          LET others == {d \in LoginConn : lc[d].pc \notin {"free", "gone"} /\ lc[d].id = s} IN
          /\ lc' = [lc EXCEPT ![c] = Of("accepted", s)]
          /\ overlap' = IF others = {} THEN overlap ELSE overlap \cup others \cup {c}
    BY <1>1 DEF LoginConnects
  <2>2. OnlyConn(c, "accepted", s)
    BY <2>1, ConnReplaced DEF LoginPlaces
  <2> QED  BY <2>1, <2>2 DEF OnlyConn, OverlapKnown
<1>2. ASSUME NEW place \in LoginPlaces \ {"free", "gone"}, LoginGoes(c, place),
             lc[c].pc \notin {"free", "gone"}, overlap' = overlap
      PROVE  OverlapKnown'
  <2>1. OnlyConn(c, place, lc[c].id)
    BY <1>2, LoginGoesDoes
  <2> QED  BY <1>2, <2>1 DEF OnlyConn, OverlapKnown
<1>3. ASSUME lc' = [lc EXCEPT ![c] = Ended], overlap' = overlap \ {c} PROVE OverlapKnown'
  <2>1. OnlyConn(c, "gone", AnyId)
    BY <1>3, LoginEndsDoes
  <2> QED  BY <1>3, <2>1 DEF OnlyConn, OverlapKnown
<1>4. CASE LoginDisconnects(c)
  BY <1>2, <1>3, <1>4 DEF LoginDisconnects, LoginAt, LoginPlaces, Disconnecting
<1>5. CASE CastGone(c)
  BY <1>3, <1>5 DEF CastGone
<1>6. CASE \/ RegisterLogin(c) \/ RemoveOld(c) \/ CastRemoved(c) \/ CastAdded(c)
           \/ AddLoginInfo(c) \/ RemoveById(c)
  BY <1>2, <1>6 DEF RegisterLogin, RemoveOld, CastRemoved, CastAdded, AddLoginInfo, RemoveById,
     LoginAt, LoginPlaces, Registering, Disconnecting
<1> QED  BY <1>1, <1>4, <1>5, <1>6 DEF LoginConnStep

\* The entries, field by field.
EntriesUp == \A s \in LoginId : logins[s] # NoConn => lc[logins[s]].pc = "up" /\ lc[logins[s]].id = s

LEMMA EntriesAreUp == ASSUME LoginsOK PROVE ListedLoginsAreConnected <=> EntriesUp
<1>1. ASSUME NEW s \in LoginId, logins[s] # NoConn
      PROVE  lc[logins[s]] = Of("up", s) <=> lc[logins[s]].pc = "up" /\ lc[logins[s]].id = s
  BY <1>1 DEF LoginsOK, Of
<1> QED  BY <1>1 DEF ListedLoginsAreConnected, EntriesUp

\* Whoever is alive beside another connection of its server is excused.
LEMMA Excused ==
  ASSUME OverlapKnown, NEW c \in LoginConn, NEW d \in LoginConn, c # d,
         lc[c].pc \notin {"free", "gone"}, lc[d].pc \notin {"free", "gone"},
         lc[c].id = lc[d].id
  PROVE  c \in overlap
BY DEF OverlapKnown

\* c goes from a place where it is in no entry to a place where it need not be.
LEMMA MovesBeside ==
  ASSUME LoginsOK, EntriesUp, ConnectedLoginsAreListed,
         NEW c \in LoginConn, NEW place, NEW s,
         OnlyConn(c, place, s), lc[c].pc # "up", place \notin {"up", "extra"},
         logins' = logins, overlap \ {c} \subseteq overlap'
  PROVE  EntriesUp' /\ ConnectedLoginsAreListed'
<1>1. EntriesUp'
  BY DEF EntriesUp, OnlyConn, LoginsOK
<1>2. ASSUME NEW d \in LoginConn \ overlap', lc'[d].pc \in {"up", "extra"}
      PROVE  logins'[lc'[d].id] = d
  BY <1>2 DEF OnlyConn, ConnectedLoginsAreListed
<1> QED  BY <1>1, <1>2 DEF ConnectedLoginsAreListed

\* c removes the entry of its id, whoever has added it, and goes on.
LEMMA RemovesTheId ==
  ASSUME LoginsOK, OverlapKnown, EntriesUp, ConnectedLoginsAreListed,
         NEW c \in LoginConn, NEW place,
         OnlyConn(c, place, lc[c].id), lc[c].pc \notin {"free", "gone", "up", "extra"},
         place \notin {"up", "extra"},
         logins' = [logins EXCEPT ![lc[c].id] = NoConn], overlap' = overlap
  PROVE  EntriesUp' /\ ConnectedLoginsAreListed'
<1>1. EntriesUp'
  BY DEF EntriesUp, OnlyConn, LoginsOK
<1>2. ASSUME NEW d \in LoginConn \ overlap', lc'[d].pc \in {"up", "extra"}
      PROVE  logins'[lc'[d].id] = d
  <2>1. d # c /\ lc'[d] = lc[d]
    BY <1>2 DEF OnlyConn
  <2>2. lc[d].id # lc[c].id
    BY <1>2, <2>1, Excused
  <2>3. logins[lc[d].id] = d
    BY <1>2, <2>1 DEF ConnectedLoginsAreListed
  <2> QED  BY <2>1, <2>2, <2>3 DEF LoginsOK
<1> QED  BY <1>1, <1>2 DEF ConnectedLoginsAreListed

LEMMA AddKeepsTheList ==
  ASSUME LoginsOK, OverlapKnown, EntriesUp, ConnectedLoginsAreListed,
         NEW c \in LoginConn, AddLoginInfo(c)
  PROVE  EntriesUp' /\ ConnectedLoginsAreListed'
<1>1. lc[c].pc = "add" /\ overlap' = overlap
  BY DEF AddLoginInfo, LoginAt
<1>2. lc[c].id \in LoginId
  BY DEF LoginsOK
<1>3. CASE logins[lc[c].id] = NoConn
  <2>1. OnlyConn(c, "up", lc[c].id)
    BY <1>3, LoginGoesDoes DEF AddLoginInfo, LoginPlaces
  <2>2. logins' = [logins EXCEPT ![lc[c].id] = c]
    BY <1>3 DEF AddLoginInfo, LoginsOK
  <2>3. EntriesUp'
    BY <1>2, <2>1, <2>2 DEF EntriesUp, OnlyConn, LoginsOK
  <2>4. ASSUME NEW d \in LoginConn \ overlap', lc'[d].pc \in {"up", "extra"}
        PROVE  logins'[lc'[d].id] = d
    <3>1. CASE d = c
      BY <3>1, <1>2, <2>1, <2>2 DEF OnlyConn, LoginsOK
    <3>2. CASE d # c
      <4>1. lc'[d] = lc[d]
        BY <3>2, <2>1 DEF OnlyConn
      <4>2. lc[d].id # lc[c].id
        BY <1>1, <2>4, <3>2, <4>1, Excused
      <4>3. logins[lc[d].id] = d
        BY <1>1, <2>4, <4>1 DEF ConnectedLoginsAreListed
      <4> QED  BY <2>2, <4>1, <4>2, <4>3 DEF LoginsOK
    <3> QED  BY <3>1, <3>2
  <2> QED  BY <2>3, <2>4 DEF ConnectedLoginsAreListed
<1>4. CASE logins[lc[c].id] # NoConn
  <2>1. OnlyConn(c, "extra", lc[c].id)
    BY <1>4, LoginGoesDoes DEF AddLoginInfo, LoginPlaces
  <2>2. logins' = logins
    BY <1>4 DEF AddLoginInfo, LoginsOK
  <2>3. EntriesUp'
    BY <1>1, <2>1, <2>2 DEF EntriesUp, OnlyConn, LoginsOK
  <2>4. c \in overlap
    <3>1. logins[lc[c].id] \in LoginConn
      BY <1>2, <1>4 DEF LoginsOK
    <3>2. lc[logins[lc[c].id]].pc = "up" /\ lc[logins[lc[c].id]].id = lc[c].id
      BY <1>2, <1>4 DEF EntriesUp
    <3> QED  BY <1>1, <3>1, <3>2, Excused
  <2>5. ASSUME NEW d \in LoginConn \ overlap', lc'[d].pc \in {"up", "extra"}
        PROVE  logins'[lc'[d].id] = d
    BY <1>1, <2>1, <2>2, <2>4, <2>5 DEF OnlyConn, ConnectedLoginsAreListed
  <2> QED  BY <2>3, <2>5 DEF ConnectedLoginsAreListed
<1> QED  BY <1>3, <1>4

LEMMA DisconnectKeepsTheList ==
  ASSUME LoginsOK, EntriesUp, ConnectedLoginsAreListed,
         NEW c \in LoginConn, LoginDisconnects(c)
  PROVE  EntriesUp' /\ ConnectedLoginsAreListed'
<1>1. PICK place \in {"remove_id", "gone"}, s \in LoginId : OnlyConn(c, place, s)
  <2>1. lc[c].id \in LoginId
    BY DEF LoginsOK
  <2> QED  BY <2>1, AnyIdType, LoginGoesDoes, LoginEndsDoes
           DEF LoginDisconnects, LoginPlaces, Disconnecting
<1>2. /\ logins' = [t \in LoginId |-> IF logins[t] = c THEN NoConn ELSE logins[t]]
      /\ overlap \ {c} \subseteq overlap'
  BY DEF LoginDisconnects
<1>3. EntriesUp'
  BY <1>1, <1>2 DEF EntriesUp, OnlyConn, LoginsOK
<1>4. ASSUME NEW d \in LoginConn \ overlap', lc'[d].pc \in {"up", "extra"}
      PROVE  logins'[lc'[d].id] = d
  <2>1. d # c /\ lc'[d] = lc[d] /\ d \notin overlap
    BY <1>1, <1>2, <1>4 DEF OnlyConn
  <2>2. logins[lc[d].id] = d /\ lc[d].id \in LoginId
    BY <1>4, <2>1 DEF ConnectedLoginsAreListed, LoginsOK
  <2> QED  BY <1>2, <2>1, <2>2
<1> QED  BY <1>3, <1>4 DEF ConnectedLoginsAreListed

LEMMA LoginConnKeepsTheList ==
  ASSUME LoginsOK, OverlapKnown, EntriesUp, ConnectedLoginsAreListed,
         NEW c \in LoginConn, LoginConnStep(c)
  PROVE  EntriesUp' /\ ConnectedLoginsAreListed'
<1>1. CASE LoginConnects(c)
  <2>1. PICK s \in LoginId :
          LET others == {d \in LoginConn : lc[d].pc \notin {"free", "gone"} /\ lc[d].id = s} IN
          /\ lc' = [lc EXCEPT ![c] = Of("accepted", s)]
          /\ overlap' = IF others = {} THEN overlap ELSE overlap \cup others \cup {c}
    BY <1>1 DEF LoginConnects
  <2>2. OnlyConn(c, "accepted", s)
    BY <2>1, ConnReplaced DEF LoginPlaces
  <2>3. lc[c].pc # "up" /\ logins' = logins /\ overlap \ {c} \subseteq overlap'
    BY <1>1, <2>1 DEF LoginConnects, LoginAt
  <2> QED  BY <2>2, <2>3, MovesBeside
<1>2. ASSUME NEW place \in Registering, LoginGoes(c, place),
             lc[c].pc # "up", logins' = logins, overlap' = overlap
      PROVE  EntriesUp' /\ ConnectedLoginsAreListed'
  <2>1. OnlyConn(c, place, lc[c].id)
    BY <1>2, LoginGoesDoes DEF LoginPlaces
  <2> QED  BY <1>2, <2>1, MovesBeside DEF Registering
<1>3. CASE RegisterLogin(c) \/ CastRemoved(c) \/ CastAdded(c)
  BY <1>2, <1>3 DEF RegisterLogin, CastRemoved, CastAdded, LoginAt, Registering
<1>4. ASSUME NEW place \in {"remove_cast", "gone_cast"}, LoginGoes(c, place),
             lc[c].pc \in {"remove", "remove_id"},
             logins' = [logins EXCEPT ![lc[c].id] = NoConn], overlap' = overlap
      PROVE  EntriesUp' /\ ConnectedLoginsAreListed'
  <2>1. OnlyConn(c, place, lc[c].id)
    BY <1>4, LoginGoesDoes DEF LoginPlaces, Registering, Disconnecting
  <2> QED  BY <1>4, <2>1, RemovesTheId
<1>5. CASE RemoveOld(c) \/ RemoveById(c)
  BY <1>4, <1>5 DEF RemoveOld, RemoveById, LoginAt
<1>6. CASE CastGone(c)
  <2>1. OnlyConn(c, "gone", AnyId)
    BY <1>6, LoginEndsDoes DEF CastGone
  <2>2. lc[c].pc # "up" /\ logins' = logins /\ overlap \ {c} \subseteq overlap'
    BY <1>6 DEF CastGone, LoginAt
  <2> QED  BY <2>1, <2>2, MovesBeside
<1> QED  BY <1>1, <1>3, <1>5, <1>6, AddKeepsTheList, DisconnectKeepsTheList DEF LoginConnStep

LEMMA ListInvStep == RegistryTypeOK /\ ListInv /\ [RegistryNext]_registryVars => ListInv'
<1> SUFFICES ASSUME RegistryTypeOK, ListInv, [RegistryNext]_registryVars PROVE ListInv'
  OBVIOUS
<1>0. LoginsOK /\ LoginsOK'
  <2>1. RegistryTypeOK'
    BY RegistryTypeStep
  <2> QED  BY <2>1, Zenon DEF RegistryTypeOK, LoginsOK
<1>1. ASSUME NEW c \in LoginConn, LoginConnStep(c) PROVE ListInv'
  <2>1. OverlapKnown'
    BY <1>0, <1>1, OverlapStep DEF ListInv
  <2>2. EntriesUp
    BY <1>0, EntriesAreUp DEF ListInv, ListIsOfTheConnected
  <2>3. EntriesUp' /\ ConnectedLoginsAreListed'
    BY <1>0, <1>1, <2>2, LoginConnKeepsTheList DEF ListInv, ListIsOfTheConnected
  <2>4. ListedLoginsAreConnected'
    <3>1. ASSUME NEW s \in LoginId, logins'[s] # NoConn PROVE lc'[logins'[s]] = Of("up", s)
      BY <1>0, <2>3, <3>1 DEF EntriesUp, LoginsOK, Of
    <3> QED  BY <3>1 DEF ListedLoginsAreConnected
  <2> QED  BY <2>1, <2>3, <2>4 DEF ListInv, ListIsOfTheConnected
<1>2. CASE UNCHANGED loginSide
  BY <1>2 DEF loginSide, ListInv, OverlapKnown, ListIsOfTheConnected, ListedLoginsAreConnected,
     ConnectedLoginsAreListed
<1>3. CASE UNCHANGED registryVars
  BY <1>2, <1>3 DEF registryVars, loginSide
<1>4. RegistryNext => UNCHANGED loginSide \/ \E c \in LoginConn : LoginConnStep(c)
  BY Zenon DEF RegistryNext, HallConnStep, HallConnects, RegisterHall, AddHallAgent, TakeList,
     SendList, HallDisconnects, HallLosesCenter, HallReceives, HallLosesLogin
<1> QED  BY <1>1, <1>2, <1>3, <1>4

\* The center's list is of the login servers that are connected and registered:
\* no entry outlives its connection (Add, Remove, RemoveByConn), and none is
\* missing but for a server of which two connections stood side by side.
THEOREM ListCorrect == RegistrySpec => []ListIsOfTheConnected
<1>1. RegistryTypeOK /\ ListInv /\ [RegistryNext]_registryVars => RegistryTypeOK' /\ ListInv'
  BY RegistryTypeStep, ListInvStep
<1>2. ListInv => ListIsOfTheConnected
  BY DEF ListInv
<1> QED  BY <1>1, <1>2, RegistryTypeInit, ListInvInit, PTL DEF RegistrySpec

(***************************************************************************)
(* What the hall knows. A hall is told all that happens after its list was *)
(* taken; once the messages on the way have arrived, it was last told that *)
(* an id is listed exactly when it is, unless a login server of that id    *)
(* has just begun to come or to go. It knows what it was told, but for     *)
(* the login servers it has lost itself.                                   *)
(***************************************************************************)

\* m decides whether the hall holds s as listed; it says that s is.
Decides(m, s) == m.kind = "list" \/ m.id = s
Lists(m, s)   == IF m.kind = "list" THEN s \in m.ids ELSE m.kind = "add" /\ m.id = s

\* What the hall was last told is listed, whether it has lost the link since or not.
Told == known \cup lost
KeysApart == known \cap lost = {}

\* The last message on the way that decides about s, if there is one, lists it;
\* otherwise the hall holds it as listed already.
WillKnow(s) ==
  \/ \E i \in 1 .. Len(toHall) :
       /\ Decides(toHall[i], s) /\ Lists(toHall[i], s)
       /\ \A j \in i + 1 .. Len(toHall) : ~ Decides(toHall[j], s)
  \/ s \in Told /\ \A i \in 1 .. Len(toHall) : ~ Decides(toHall[i], s)

Settled(s) == \A c \in LoginConn : Mid(c) => lc[c].id # s

Informed == current # NoConn /\ HallAt(current, "up") /\ ~ raced /\ ~ untold

RacesAreSeen == Racing => raced

ListIsFresh ==
  current # NoConn /\ HallAt(current, "send") /\ ~ raced => hc[current].ids = Listed

SettledIsKnown ==
  Informed => \A s \in LoginId : Settled(s) => (WillKnow(s) <=> logins[s] # NoConn)

AddedIsKnown ==
  Informed => \A c \in LoginConn, s \in LoginId : lc[c] = Of("add", s) => WillKnow(s)

GoneIsUnlisted ==
  Informed => \A c \in LoginConn, s \in LoginId : lc[c] = Of("gone_cast", s) => logins[s] = NoConn

KnowInv ==
  RacesAreSeen /\ ListIsFresh /\ SettledIsKnown /\ AddedIsKnown /\ GoneIsUnlisted


LEMMA KnowInvInit == RegistryInit => KnowInv
<1> SUFFICES ASSUME RegistryInit PROVE KnowInv
  OBVIOUS
<1>1. ~ Racing /\ current = NoConn
  BY DEF RegistryInit, Racing, HallAt, Mid, Of, Registering, Disconnecting
<1> QED  BY <1>1 DEF KnowInv, RacesAreSeen, ListIsFresh, SettledIsKnown, AddedIsKnown,
         GoneIsUnlisted, Informed

LEMMA UnchangedTells ==
  ASSUME UNCHANGED <<toHall, known, lost>> PROVE \A s \in LoginId : WillKnow(s)' <=> WillKnow(s)
BY DEF WillKnow, Told

\* A message behind the others has the last word on what it decides.
LEMMA AppendTells ==
  ASSUME ChannelOK, NEW m, m \in Message, toHall' = Append(toHall, m), UNCHANGED <<known, lost>>
  PROVE  \A s \in LoginId : WillKnow(s)' <=> IF Decides(m, s) THEN Lists(m, s) ELSE WillKnow(s)
<1> DEFINE n == Len(toHall)
<1>1. /\ n \in Nat /\ Len(toHall') = n + 1 /\ toHall'[n + 1] = m
      /\ \A i \in 1 .. n : toHall'[i] = toHall[i]
  BY DEF ChannelOK
<1> HIDE DEF n
<1> SUFFICES ASSUME NEW s \in LoginId
             PROVE  WillKnow(s)' <=> IF Decides(m, s) THEN Lists(m, s) ELSE WillKnow(s)
  OBVIOUS
<1>2. WillKnow(s)' <=>
        \/ \E i \in 1 .. n + 1 :
             /\ Decides(toHall'[i], s) /\ Lists(toHall'[i], s)
             /\ \A j \in i + 1 .. n + 1 : ~ Decides(toHall'[j], s)
        \/ s \in Told /\ \A i \in 1 .. n + 1 : ~ Decides(toHall'[i], s)
  BY <1>1 DEF WillKnow, Told
<1>3. WillKnow(s) <=>
        \/ \E i \in 1 .. n :
             /\ Decides(toHall[i], s) /\ Lists(toHall[i], s)
             /\ \A j \in i + 1 .. n : ~ Decides(toHall[j], s)
        \/ s \in Told /\ \A i \in 1 .. n : ~ Decides(toHall[i], s)
  BY Zenon DEF WillKnow, n
<1>4. CASE Decides(m, s)
  <2>1. \A i \in 1 .. n + 1 : (\A j \in i + 1 .. n + 1 : ~ Decides(toHall'[j], s)) => i = n + 1
    BY <1>1, <1>4
  <2>2. n + 1 \in 1 .. n + 1 /\ \A j \in n + 1 + 1 .. n + 1 : FALSE
    BY <1>1
  <2> QED  BY <1>1, <1>2, <1>4, <2>1, <2>2
<1>5. CASE ~ Decides(m, s)
  BY <1>1, <1>2, <1>3, <1>5
<1> QED  BY <1>4, <1>5

\* What arrives leaves what the hall will know as it is.
LEMMA ReceiveTells ==
  ASSUME ChannelOK, HallReceives PROVE \A s \in LoginId : WillKnow(s)' <=> WillKnow(s)
<1> DEFINE n == Len(toHall)
           m == Head(toHall)
<1>1. /\ n \in Nat \ {0} /\ Len(toHall') = n - 1 /\ toHall[1] = m
      /\ \A i \in 1 .. n - 1 : toHall'[i] = toHall[i + 1]
  BY DEF ChannelOK, HallReceives
<1>2. m \in Message
  BY <1>1 DEF ChannelOK
<1>3. Told' = (Told \ About(m)) \cup Added(m)
  BY DEF HallReceives, Told
<1> SUFFICES ASSUME NEW s \in LoginId PROVE WillKnow(s)' <=> WillKnow(s)
  OBVIOUS
<1>7. WillKnow(s) <=>
        \/ \E i \in 1 .. n :
             /\ Decides(toHall[i], s) /\ Lists(toHall[i], s)
             /\ \A j \in i + 1 .. n : ~ Decides(toHall[j], s)
        \/ s \in Told /\ \A i \in 1 .. n : ~ Decides(toHall[i], s)
  BY Zenon DEF WillKnow
<1> HIDE DEF n, m
<1>4. m.kind \in {"list", "add", "remove"}
  BY <1>2 DEF Message
<1>5. s \in Told' <=> IF Decides(m, s) THEN Lists(m, s) ELSE s \in Told
  BY <1>3, <1>4 DEF Decides, Lists, About, Added
<1>6. WillKnow(s)' <=>
        \/ \E i \in 1 .. n - 1 :
             /\ Decides(toHall[i + 1], s) /\ Lists(toHall[i + 1], s)
             /\ \A j \in i + 1 .. n - 1 : ~ Decides(toHall[j + 1], s)
        \/ s \in Told' /\ \A i \in 1 .. n - 1 : ~ Decides(toHall[i + 1], s)
  <2>1. WillKnow(s)' <=>
          \/ \E i \in 1 .. n - 1 :
               /\ Decides(toHall'[i], s) /\ Lists(toHall'[i], s)
               /\ \A j \in i + 1 .. n - 1 : ~ Decides(toHall'[j], s)
          \/ s \in Told' /\ \A i \in 1 .. n - 1 : ~ Decides(toHall'[i], s)
    BY <1>1 DEF WillKnow
  <2>2. \A i \in 1 .. n - 1 : \A j \in i + 1 .. n - 1 : j \in 1 .. n - 1
    BY <1>1
  <2>3. \A i \in 1 .. n - 1 : /\ Decides(toHall'[i], s) <=> Decides(toHall[i + 1], s)
                              /\ Lists(toHall'[i], s) <=> Lists(toHall[i + 1], s)
    BY <1>1
  <2> QED  BY <2>1, <2>2, <2>3
<1> DEFINE Later == \E i \in 2 .. n :
             /\ Decides(toHall[i], s) /\ Lists(toHall[i], s)
             /\ \A j \in i + 1 .. n : ~ Decides(toHall[j], s)
           NoneLater == \A i \in 2 .. n : ~ Decides(toHall[i], s)
<1>8. WillKnow(s)' <=> Later \/ (s \in Told' /\ NoneLater)
  <2>1. \A i \in 1 .. n - 1 : i + 1 \in 2 .. n
    BY <1>1
  <2>2. \A i \in 2 .. n : i - 1 \in 1 .. n - 1 /\ (i - 1) + 1 = i
    BY <1>1
  <2>3. NoneLater <=> \A i \in 1 .. n - 1 : ~ Decides(toHall[i + 1], s)
    BY <2>1, <2>2
  <2>4. \A i \in 1 .. n - 1 :
          (\A j \in i + 1 .. n - 1 : ~ Decides(toHall[j + 1], s))
          <=> (\A j \in (i + 1) + 1 .. n : ~ Decides(toHall[j], s))
    <3> TAKE i \in 1 .. n - 1
    <3>1. \A j \in i + 1 .. n - 1 : j + 1 \in (i + 1) + 1 .. n
      BY <1>1
    <3>2. \A j \in (i + 1) + 1 .. n : j - 1 \in i + 1 .. n - 1 /\ (j - 1) + 1 = j
      BY <1>1
    <3> QED  BY <3>1, <3>2
  <2>5. Later <=> \E i \in 1 .. n - 1 :
             /\ Decides(toHall[i + 1], s) /\ Lists(toHall[i + 1], s)
             /\ \A j \in i + 1 .. n - 1 : ~ Decides(toHall[j + 1], s)
    BY <2>1, <2>2, <2>4
  <2> QED  BY <1>6, <2>3, <2>5
<1>9. WillKnow(s) <=> \/ Later
                      \/ Decides(m, s) /\ Lists(m, s) /\ NoneLater
                      \/ s \in Told /\ ~ Decides(m, s) /\ NoneLater
  BY <1>1, <1>7
<1> QED  BY <1>5, <1>8, <1>9

\* A connection that comes or goes: the id it has is its own affair while it is
\* under way, and right when it is done.
MidPlaces == Registering \cup Disconnecting

OneMid == \A c, d \in LoginConn : c # d /\ Mid(c) /\ Mid(d) => lc[c].id # lc[d].id

LEMMA RegisteringKnows ==
  ASSUME LoginsOK, OneMid, OneMid', SettledIsKnown, AddedIsKnown, GoneIsUnlisted, Informed,
         NEW c \in LoginConn, NEW place, NEW u, NEW s, s = lc[c].id,
         OnlyConn(c, place, u), place \in MidPlaces => u = s,
         \A t \in LoginId : t # s \/ ~ (Mid(c) \/ place \in MidPlaces)
           => (WillKnow(t)' <=> WillKnow(t)) /\ logins'[t] = logins[t],
         place = "add" => WillKnow(s)',
         place = "gone_cast" => logins'[s] = NoConn,
         Mid(c) /\ place \notin MidPlaces => (WillKnow(s)' <=> logins'[s] # NoConn)
  PROVE  SettledIsKnown' /\ AddedIsKnown' /\ GoneIsUnlisted'
<1>0. /\ s \in LoginId /\ Mid(c)' = (place \in MidPlaces) /\ lc'[c].pc = place /\ lc'[c].id = u
      /\ \A d \in LoginConn \ {c} : lc'[d] = lc[d] /\ (Mid(d)' <=> Mid(d))
      /\ \A d \in LoginConn : lc[d].id \in LoginId
  BY DEF LoginsOK, OnlyConn, Mid, MidPlaces
<1>1. ASSUME NEW t \in LoginId, Settled(t)' PROVE WillKnow(t)' <=> logins'[t] # NoConn
  <2>1. CASE t = s /\ (Mid(c) \/ place \in MidPlaces)
    <3>1. place \notin MidPlaces
      BY <1>0, <1>1, <2>1 DEF Settled
    <3> QED  BY <2>1, <3>1
  <2>2. CASE t # s \/ ~ (Mid(c) \/ place \in MidPlaces)
    <3>1. Settled(t)
      BY <1>0, <1>1, <2>2 DEF Settled
    <3> QED  BY <2>2, <3>1 DEF SettledIsKnown
  <2> QED  BY <2>1, <2>2
<1>2. ASSUME NEW d \in LoginConn \ {c}, NEW t \in LoginId, lc[d].id = t, Mid(d)
      PROVE  (WillKnow(t)' <=> WillKnow(t)) /\ logins'[t] = logins[t]
  <2>1. Mid(d)' /\ lc'[d].id = t
    BY <1>0, <1>2
  <2>2. Mid(c) \/ place \in MidPlaces => t # s
    <3>1. Mid(c) => t # s
      BY <1>2 DEF OneMid
    <3>2. place \in MidPlaces => Mid(c)' /\ lc'[c].id = s
      BY <1>0
    <3>3. Mid(c)' => lc'[c].id # t
      BY <1>2, <2>1 DEF OneMid
    <3> QED  BY <3>1, <3>2, <3>3
  <2>3. t # s \/ ~ (Mid(c) \/ place \in MidPlaces)
    BY <2>2, Zenon
  <2> QED  BY <2>3, Zenon
<1>3. ASSUME NEW d \in LoginConn, NEW t \in LoginId, lc'[d] = Of("add", t) PROVE WillKnow(t)'
  <2>0. lc'[d].pc = "add" /\ lc'[d].id = t
    BY <1>3 DEF Of
  <2>1. CASE d = c
    BY <1>0, <2>0, <2>1 DEF MidPlaces, Registering
  <2>2. CASE d # c
    <3>1. lc[d] = Of("add", t) /\ lc[d].id = t /\ Mid(d)
      BY <1>0, <1>3, <2>0, <2>2 DEF Mid, Registering
    <3>2. WillKnow(t)
      BY <3>1 DEF AddedIsKnown
    <3> QED  BY <1>2, <2>2, <3>1, <3>2
  <2> QED  BY <2>1, <2>2
<1>4. ASSUME NEW d \in LoginConn, NEW t \in LoginId, lc'[d] = Of("gone_cast", t)
      PROVE  logins'[t] = NoConn
  <2>0. lc'[d].pc = "gone_cast" /\ lc'[d].id = t
    BY <1>4 DEF Of
  <2>1. CASE d = c
    BY <1>0, <2>0, <2>1 DEF MidPlaces, Disconnecting
  <2>2. CASE d # c
    <3>1. lc[d] = Of("gone_cast", t) /\ lc[d].id = t /\ Mid(d)
      BY <1>0, <1>4, <2>0, <2>2 DEF Mid, Disconnecting
    <3>2. logins[t] = NoConn
      BY <3>1 DEF GoneIsUnlisted
    <3> QED  BY <1>2, <2>2, <3>1, <3>2
  <2> QED  BY <2>1, <2>2
<1>5. SettledIsKnown'
  BY <1>1 DEF SettledIsKnown
<1>6. AddedIsKnown' /\ GoneIsUnlisted'
  BY <1>3, <1>4 DEF AddedIsKnown, GoneIsUnlisted
<1> QED  BY <1>5, <1>6

\* What a message about s makes of what the hall will know.
LEMMA BroadcastTells ==
  ASSUME ChannelOK, Informed, NEW s \in LoginId, NEW k \in {"add", "remove"},
         Broadcast([kind |-> k, id |-> s]), UNCHANGED <<known, lost>>
  PROVE  /\ WillKnow(s)' <=> k = "add"
         /\ \A t \in LoginId \ {s} : WillKnow(t)' <=> WillKnow(t)
<1> DEFINE m == [kind |-> k, id |-> s]
<1>1. m \in Message
  BY DEF Message
<1>2. toHall' = Append(toHall, m)
  BY DEF Broadcast, Informed
<1>3. Decides(m, s) /\ (Lists(m, s) <=> k = "add") /\ \A t \in LoginId \ {s} : ~ Decides(m, t)
  BY DEF Decides, Lists
<1> HIDE DEF m
<1> QED  BY <1>1, <1>2, <1>3, AppendTells

LEMMA LoginConnKeepsKnown ==
  ASSUME LoginsOK, ChannelOK, EntriesUp, OneMid, OneMid', Informed,
         SettledIsKnown, AddedIsKnown, GoneIsUnlisted, NEW c \in LoginConn, LoginConnStep(c)
  PROVE  SettledIsKnown' /\ AddedIsKnown' /\ GoneIsUnlisted'
<1> USE DEF MidPlaces, Registering, Disconnecting
<1>0. PICK s \in LoginId : s = lc[c].id
  BY DEF LoginsOK
<1>d. logins \in [LoginId -> LoginConn \cup {NoConn}]
  BY DEF LoginsOK
<1>a. ASSUME NEW place \in LoginPlaces, NEW u, OnlyConn(c, place, u),
             UNCHANGED <<logins, toHall, known, lost>>,
             \/ lc[c].pc \notin MidPlaces /\ place \notin MidPlaces
             \/ u = s /\ place \in MidPlaces \ {"add", "gone_cast"}
      PROVE  SettledIsKnown' /\ AddedIsKnown' /\ GoneIsUnlisted'
  <2>1. \A t \in LoginId : (WillKnow(t)' <=> WillKnow(t)) /\ logins'[t] = logins[t]
    BY <1>a, UnchangedTells
  <2>2. Mid(c) <=> lc[c].pc \in MidPlaces
    BY DEF Mid
  <2>3. /\ place \in MidPlaces => u = s
        /\ place # "add" /\ place # "gone_cast"
        /\ ~ (Mid(c) /\ place \notin MidPlaces)
    BY <1>a, <2>2
  <2> HIDE DEF MidPlaces
  <2> QED  BY <1>a, <2>1, <2>3, <1>0, RegisteringKnows
<1>b. ASSUME NEW place \in {"add_cast", "add", "gone"}, NEW u, OnlyConn(c, place, u),
             place # "gone" => u = s, Mid(c), logins' = logins,
             \A t \in LoginId \ {s} : WillKnow(t)' <=> WillKnow(t),
             place = "add" => WillKnow(s)',
             place = "gone" => ~ WillKnow(s)' /\ logins[s] = NoConn
      PROVE  SettledIsKnown' /\ AddedIsKnown' /\ GoneIsUnlisted'
  <2>1. place \in MidPlaces => u = s
    BY <1>b
  <2>2. place # "gone_cast" /\ (place \notin MidPlaces => place = "gone")
    BY <1>b
  <2> HIDE DEF MidPlaces
  <2> QED  BY <1>b, <2>1, <2>2, <1>0, RegisteringKnows
<1>c. ASSUME NEW place \in {"remove_cast", "remove_id", "gone_cast"}, OnlyConn(c, place, s),
             UNCHANGED <<toHall, known, lost>>,
             \A t \in LoginId \ {s} : logins'[t] = logins[t],
             place = "gone_cast" => logins'[s] = NoConn
      PROVE  SettledIsKnown' /\ AddedIsKnown' /\ GoneIsUnlisted'
  <2>1. \A t \in LoginId \ {s} : WillKnow(t)' <=> WillKnow(t)
    BY <1>c, UnchangedTells
  <2>2. place \in MidPlaces /\ place # "add"
    BY <1>c
  <2> HIDE DEF MidPlaces
  <2> QED  BY <1>c, <2>1, <2>2, <1>0, RegisteringKnows
<1>1. CASE LoginConnects(c)
  <2>1. PICK u \in LoginId : lc' = [lc EXCEPT ![c] = Of("accepted", u)]
    BY <1>1 DEF LoginConnects
  <2>2. OnlyConn(c, "accepted", u)
    BY <2>1, ConnReplaced DEF LoginPlaces
  <2>3. UNCHANGED <<logins, toHall, known, lost>> /\ lc[c].pc = "free"
    BY <1>1 DEF LoginConnects, hallSide, LoginAt
  <2> QED  BY <1>a, <2>2, <2>3 DEF LoginPlaces
<1>2. CASE RegisterLogin(c)
  <2>1. \E place \in {"remove", "add_cast"} : OnlyConn(c, place, s)
    BY <1>0, <1>2, LoginGoesDoes DEF RegisterLogin, LoginPlaces
  <2>2. UNCHANGED <<logins, toHall, known, lost>>
    BY <1>2 DEF RegisterLogin, hallSide
  <2> QED  BY <1>a, <2>1, <2>2 DEF LoginPlaces
<1>3. CASE RemoveOld(c)
  <2>1. OnlyConn(c, "remove_cast", s)
    BY <1>0, <1>3, LoginGoesDoes DEF RemoveOld, LoginPlaces
  <2>2. UNCHANGED <<toHall, known, lost>> /\ \A t \in LoginId \ {s} : logins'[t] = logins[t]
    BY <1>0, <1>d, <1>3 DEF RemoveOld, hallSide
  <2> QED  BY <1>c, <2>1, <2>2
<1>4. CASE CastRemoved(c)
  <2>1. OnlyConn(c, "add_cast", s)
    BY <1>0, <1>4, LoginGoesDoes DEF CastRemoved, LoginPlaces
  <2>2. logins' = logins /\ UNCHANGED <<known, lost>> /\ Broadcast([kind |-> "remove", id |-> s]) /\ Mid(c)
    BY <1>0, <1>4 DEF CastRemoved, hallSide, LoginAt, Mid
  <2>3. \A t \in LoginId \ {s} : WillKnow(t)' <=> WillKnow(t)
    BY <1>0, <2>2, BroadcastTells
  <2> QED  BY <1>b, <2>1, <2>2, <2>3
<1>5. CASE CastAdded(c)
  <2>1. OnlyConn(c, "add", s)
    BY <1>0, <1>5, LoginGoesDoes DEF CastAdded, LoginPlaces
  <2>2. logins' = logins /\ UNCHANGED <<known, lost>> /\ Broadcast([kind |-> "add", id |-> s]) /\ Mid(c)
    BY <1>0, <1>5 DEF CastAdded, hallSide, LoginAt, Mid
  <2>3. WillKnow(s)' /\ \A t \in LoginId \ {s} : WillKnow(t)' <=> WillKnow(t)
    BY <1>0, <2>2, BroadcastTells
  <2> QED  BY <1>b, <2>1, <2>2, <2>3
<1>6. CASE AddLoginInfo(c)
  <2>1. PICK place \in {"up", "extra"} : OnlyConn(c, place, s)
    BY <1>0, <1>6, LoginGoesDoes DEF AddLoginInfo, LoginPlaces
  <2>2. /\ UNCHANGED <<toHall, known, lost>> /\ lc[c].pc = "add"
        /\ \A t \in LoginId \ {s} : logins'[t] = logins[t]
        /\ logins'[s] # NoConn
    BY <1>0, <1>d, <1>6, NoConnIsNone DEF AddLoginInfo, hallSide, LoginAt
  <2>3. lc[c] = Of("add", s)
    BY <1>0, <2>2 DEF LoginsOK, Of
  <2>4. WillKnow(s)
    BY <1>0, <2>3 DEF AddedIsKnown
  <2>5. \A t \in LoginId : WillKnow(t)' <=> WillKnow(t)
    BY <2>2, UnchangedTells
  <2>6. WillKnow(s)'
    BY <1>0, <2>4, <2>5
  <2>7. place \notin MidPlaces /\ place # "add" /\ place # "gone_cast"
    BY DEF MidPlaces
  <2>8. Mid(c)
    BY <2>2 DEF Mid
  <2> HIDE DEF MidPlaces
  <2> QED  BY <2>1, <2>2, <2>5, <2>6, <2>7, <2>8, <1>0, RegisteringKnows
<1>7. CASE LoginDisconnects(c)
  <2>1. /\ UNCHANGED <<toHall, known, lost>>
        /\ logins' = [t \in LoginId |-> IF logins[t] = c THEN NoConn ELSE logins[t]]
    BY <1>7 DEF LoginDisconnects, hallSide
  <2>2. \A t \in LoginId : logins[t] = c => lc[c].pc = "up" /\ t = s
    BY <1>0, NoConnIsNone DEF EntriesUp
  <2>3. CASE lc[c].pc = "up"
    <3>1. OnlyConn(c, "remove_id", s)
      BY <1>0, <1>7, <2>3, LoginGoesDoes DEF LoginDisconnects, LoginAt, LoginPlaces
    <3>2. \A t \in LoginId \ {s} : logins'[t] = logins[t]
      BY <2>1, <2>2
    <3> QED  BY <1>c, <2>1, <3>1, <3>2
  <2>4. CASE lc[c].pc # "up"
    <3>1. OnlyConn(c, "gone", AnyId) /\ lc[c].pc \notin MidPlaces
      BY <1>7, <2>4, LoginEndsDoes DEF LoginDisconnects, LoginAt
    <3>2. logins' = logins
      BY <1>d, <2>1, <2>2, <2>4
    <3> QED  BY <1>a, <2>1, <3>1, <3>2 DEF LoginPlaces
  <2> QED  BY <2>3, <2>4
<1>8. CASE RemoveById(c)
  <2>1. OnlyConn(c, "gone_cast", s)
    BY <1>0, <1>8, LoginGoesDoes DEF RemoveById, LoginPlaces
  <2>2. /\ UNCHANGED <<toHall, known, lost>> /\ logins'[s] = NoConn
        /\ \A t \in LoginId \ {s} : logins'[t] = logins[t]
    BY <1>0, <1>d, <1>8 DEF RemoveById, hallSide
  <2> QED  BY <1>c, <2>1, <2>2
<1>9. CASE CastGone(c)
  <2>1. OnlyConn(c, "gone", AnyId)
    BY <1>9, LoginEndsDoes DEF CastGone
  <2>2. /\ logins' = logins /\ UNCHANGED <<known, lost>> /\ Broadcast([kind |-> "remove", id |-> s])
        /\ lc[c].pc = "gone_cast" /\ Mid(c)
    BY <1>0, <1>9 DEF CastGone, hallSide, LoginAt, Mid
  <2>3. ~ WillKnow(s)' /\ \A t \in LoginId \ {s} : WillKnow(t)' <=> WillKnow(t)
    BY <1>0, <2>2, BroadcastTells
  <2>4. lc[c] = Of("gone_cast", s)
    BY <1>0, <2>2 DEF LoginsOK, Of
  <2>5. logins[s] = NoConn
    BY <1>0, <2>4 DEF GoneIsUnlisted
  <2> QED  BY <1>b, <2>1, <2>2, <2>3, <2>5
<1> QED  BY <1>1, <1>2, <1>3, <1>4, <1>5, <1>6, <1>7, <1>8, <1>9 DEF LoginConnStep

LEMMA NoRace ==
  ASSUME ~ Racing
  PROVE  /\ OneMid
         /\ \A h \in HallConn : HallAt(h, "send") => \A c \in LoginConn : ~ Mid(c)
BY DEF Racing, OneMid

\* The list changes only with a connection that is under way.
LEMMA QuietLeavesTheList ==
  ASSUME LoginsOK, EntriesUp, NEW c \in LoginConn, LoginConnStep(c), ~ Mid(c), ~ Mid(c)'
  PROVE  logins' = logins
<1>1. logins \in [LoginId -> LoginConn \cup {NoConn}]
  BY DEF LoginsOK
<1>2. CASE LoginDisconnects(c)
  <2>1. lc[c].pc # "up"
    <3>1. ASSUME lc[c].pc = "up" PROVE FALSE
      <4>1. OnlyConn(c, "remove_id", lc[c].id)
        BY <1>2, <3>1, LoginGoesDoes DEF LoginDisconnects, LoginAt, LoginPlaces, Disconnecting
      <4> QED  BY <4>1 DEF OnlyConn, Mid, Disconnecting
    <3> QED  BY <3>1
  <2>2. \A t \in LoginId : logins[t] # c
    BY <2>1, NoConnIsNone DEF EntriesUp
  <2> QED  BY <1>1, <1>2, <2>2 DEF LoginDisconnects
<1>3. CASE LoginConnects(c) \/ RegisterLogin(c) \/ CastRemoved(c) \/ CastAdded(c) \/ CastGone(c)
  BY <1>3 DEF LoginConnects, RegisterLogin, CastRemoved, CastAdded, CastGone
<1>4. CASE RemoveOld(c) \/ AddLoginInfo(c) \/ RemoveById(c)
  BY <1>4 DEF RemoveOld, AddLoginInfo, RemoveById, LoginAt, Mid, Registering, Disconnecting
<1> QED  BY <1>2, <1>3, <1>4 DEF LoginConnStep

LEMMA LoginConnKeepsKnowInv ==
  ASSUME LoginsOK, HallsOK, ChannelOK, EntriesUp, KnowInv, NEW c \in LoginConn, LoginConnStep(c),
         raced => raced', RacesAreSeen'
  PROVE  KnowInv'
<1>1. UNCHANGED <<hc, current, untold, known, lost>>
  BY DEF LoginConnStep, LoginConnects, RegisterLogin, RemoveOld, CastRemoved, CastAdded,
     AddLoginInfo, LoginDisconnects, RemoveById, CastGone, hallSide
<1>2. ListIsFresh'
  <2> SUFFICES ASSUME current # NoConn, HallAt(current, "send"), ~ raced'
               PROVE  hc[current].ids = Listed'
    BY <1>1 DEF ListIsFresh, HallAt
  <2>1. ~ Racing /\ ~ Racing' /\ current \in HallConn /\ HallAt(current, "send")'
    BY <1>1 DEF KnowInv, RacesAreSeen, HallsOK, HallAt
  <2>2. ~ Mid(c)
    BY <2>1, NoRace
  <2>3. ~ Mid(c)'
    BY <1>1, <2>1 DEF Racing, HallAt
  <2>4. logins' = logins
    BY <2>2, <2>3, QuietLeavesTheList
  <2> QED  BY <2>4 DEF KnowInv, ListIsFresh, Listed
<1>3. ASSUME Informed' PROVE SettledIsKnown' /\ AddedIsKnown' /\ GoneIsUnlisted'
  <2>1. Informed /\ ~ Racing /\ ~ Racing'
    BY <1>1, <1>3 DEF Informed, HallAt, KnowInv, RacesAreSeen
  <2>2. OneMid /\ OneMid'
    BY <2>1 DEF Racing, OneMid
  <2> QED  BY <2>1, <2>2, LoginConnKeepsKnown DEF KnowInv
<1>4. SettledIsKnown' /\ AddedIsKnown' /\ GoneIsUnlisted'
  BY <1>3 DEF SettledIsKnown, AddedIsKnown, GoneIsUnlisted
<1> QED  BY <1>2, <1>4 DEF KnowInv

\* A step of the hall's side that leaves the connection in use as it is.
LEMMA HallAside ==
  ASSUME KnowInv, UNCHANGED loginSide, raced => raced', RacesAreSeen',
         current' # NoConn => /\ current' = current /\ hc'[current] = hc[current]
                              /\ untold' = untold,
         \A s \in LoginId : WillKnow(s)' <=> WillKnow(s)
  PROVE  KnowInv'
<1>1. /\ Informed' => Informed
      /\ lc' = lc /\ logins' = logins /\ \A s \in LoginId : Settled(s)' <=> Settled(s)
  BY DEF Informed, HallAt, loginSide, Settled, Mid
<1>2. ListIsFresh'
  BY <1>1 DEF KnowInv, ListIsFresh, HallAt, Listed
<1>3. SettledIsKnown'
  BY <1>1 DEF KnowInv, SettledIsKnown
<1>4. AddedIsKnown' /\ GoneIsUnlisted'
  BY <1>1 DEF KnowInv, AddedIsKnown, GoneIsUnlisted
<1> QED  BY <1>2, <1>3, <1>4 DEF KnowInv

\* The connection in use is at a place where the hall has no list yet.
LEMMA HallUninformed ==
  ASSUME RacesAreSeen',
         \/ current' = NoConn
         \/ hc'[current'].pc \notin {"up", "send"}
         \/ hc'[current'].pc = "up" /\ untold'
  PROVE  KnowInv'
<1>1. ~ Informed' /\ ~ (current' # NoConn /\ HallAt(current, "send")')
  BY DEF Informed, HallAt
<1> QED  BY <1>1 DEF KnowInv, ListIsFresh, SettledIsKnown, AddedIsKnown, GoneIsUnlisted

LEMMA SendingInforms ==
  ASSUME LoginsOK, HallsOK, ChannelOK, KnowInv, NEW h \in HallConn, SendList(h), h = current,
         raced => raced', RacesAreSeen'
  PROVE  KnowInv'
<1> DEFINE m == [kind |-> "list", ids |-> hc[h].ids]
<1>1. /\ HallAt(h, "send") /\ h # NoConn /\ hc'[h].pc = "up"
      /\ UNCHANGED <<lc, logins, current, known, lost>> /\ toHall' = Append(toHall, m)
  BY DEF SendList, HallsOK, loginSide, NoConn, HallConn
<1>2. m \in Message /\ \A s \in LoginId : Decides(m, s) /\ (Lists(m, s) <=> s \in hc[h].ids)
  BY ListMessage DEF HallsOK, Decides, Lists
<1>3. ListIsFresh'
  BY <1>1 DEF ListIsFresh, HallAt
<1>4. ASSUME Informed' PROVE SettledIsKnown' /\ AddedIsKnown' /\ GoneIsUnlisted'
  <2>1. ~ raced /\ ~ Racing
    BY <1>4 DEF Informed, KnowInv, RacesAreSeen
  <2>2. hc[h].ids = Listed
    BY <1>1, <2>1 DEF KnowInv, ListIsFresh
  <2>3. \A c \in LoginConn : ~ Mid(c)
    BY <1>1, <2>1, NoRace
  <2> HIDE DEF m
  <2>4. \A s \in LoginId : WillKnow(s)' <=> s \in hc[h].ids
    BY <1>1, <1>2, AppendTells
  <2>5. SettledIsKnown'
    BY <1>1, <2>2, <2>4 DEF SettledIsKnown, Listed
  <2>6. \A c \in LoginConn, s \in LoginId :
          lc'[c] # Of("add", s) /\ lc'[c] # Of("gone_cast", s)
    BY <1>1, <2>3 DEF Mid, Of, Registering, Disconnecting
  <2> QED  BY <2>5, <2>6 DEF AddedIsKnown, GoneIsUnlisted
<1>5. SettledIsKnown' /\ AddedIsKnown' /\ GoneIsUnlisted'
  BY <1>4 DEF SettledIsKnown, AddedIsKnown, GoneIsUnlisted
<1> QED  BY <1>3, <1>5 DEF KnowInv

LEMMA TakingStartsAfresh ==
  ASSUME HallsOK, NEW h \in HallConn, TakeList(h), h = current, RacesAreSeen'
  PROVE  KnowInv'
<1>1. /\ current' = current /\ logins' = logins /\ untold' = (Listed = {})
      /\ hc' = [hc EXCEPT ![h] = IF Listed = {} THEN [pc |-> "up", ids |-> {}]
                                                ELSE [pc |-> "send", ids |-> Listed]]
  BY DEF TakeList, loginSide
<1>2. CASE Listed = {}
  <2>1. hc'[h].pc = "up" /\ untold'
    BY <1>1, <1>2 DEF HallsOK
  <2> QED  BY <1>1, <2>1, HallUninformed
<1>3. CASE Listed # {}
  <2>1. hc'[h].pc = "send" /\ hc'[h].ids = Listed
    BY <1>1, <1>3 DEF HallsOK
  <2>2. ~ Informed' /\ ListIsFresh'
    BY <1>1, <2>1 DEF Informed, HallAt, ListIsFresh, Listed
  <2> QED  BY <2>2 DEF KnowInv, SettledIsKnown, AddedIsKnown, GoneIsUnlisted
<1> QED  BY <1>2, <1>3

LEMMA HallConnKeepsKnowInv ==
  ASSUME LoginsOK, HallsOK, ChannelOK, KnowInv, NEW h \in HallConn, HallConnStep(h),
         raced /\ ~ (TakeList(h) /\ h = current) => raced', RacesAreSeen'
  PROVE  KnowInv'
<1>0. UNCHANGED loginSide /\ UNCHANGED <<known, lost>> /\ h # NoConn
  BY DEF HallConnStep, HallConnects, RegisterHall, AddHallAgent, TakeList, SendList,
     HallDisconnects, HallConn, NoConn
<1>1. CASE HallConnects(h)
  <2>1. current' = h /\ hc'[h].pc = "accepted"
    BY <1>1 DEF HallConnects, HallsOK
  <2> QED  BY <2>1, HallUninformed
<1>2. CASE RegisterHall(h) \/ AddHallAgent(h)
  <2>1. /\ current' = current /\ untold' = untold /\ toHall' = toHall
        /\ hc'[h].pc \in {"agent", "refused", "list"}
        /\ \A g \in HallConn \ {h} : hc'[g] = hc[g]
        /\ ~ TakeList(h)
    BY <1>2 DEF RegisterHall, AddHallAgent, TakeList, HallAt, HallsOK
  <2>2. CASE current = h
    BY <2>1, <2>2, HallUninformed
  <2>3. CASE current # h
    BY <1>0, <2>1, <2>3, UnchangedTells, HallAside DEF HallsOK
  <2> QED  BY <2>2, <2>3
<1>3. CASE TakeList(h) /\ current # h
  <2>1. /\ current' = current /\ untold' = untold /\ toHall' = toHall
        /\ \A g \in HallConn \ {h} : hc'[g] = hc[g]
    BY <1>3 DEF TakeList, HallsOK
  <2> QED  BY <1>0, <1>3, <2>1, UnchangedTells, HallAside DEF HallsOK
<1>4. CASE SendList(h) /\ current # h
  <2>1. /\ current' = current /\ untold' = untold /\ toHall' = toHall
        /\ \A g \in HallConn \ {h} : hc'[g] = hc[g]
    BY <1>4 DEF SendList, HallsOK
  <2> QED  BY <1>0, <1>4, <2>1, UnchangedTells, HallAside DEF HallsOK
<1>5. CASE HallDisconnects(h)
  <2>1. CASE current = h
    <3>1. current' = NoConn
      BY <1>5, <2>1 DEF HallDisconnects
    <3> QED  BY <3>1, HallUninformed
  <2>2. CASE current # h
    <3>1. /\ current' = current /\ untold' = untold /\ toHall' = toHall
          /\ \A g \in HallConn \ {h} : hc'[g] = hc[g]
          /\ ~ (TakeList(h) /\ h = current)
      BY <1>5, <2>2 DEF HallDisconnects, HallsOK
    <3> QED  BY <1>0, <2>2, <3>1, UnchangedTells, HallAside DEF HallsOK
  <2> QED  BY <2>1, <2>2
<1>6. CASE SendList(h) /\ current = h
  <2>1. ~ TakeList(h)
    BY <1>6 DEF SendList, TakeList, HallAt
  <2> QED  BY <1>6, <2>1, SendingInforms
<1>7. CASE TakeList(h) /\ current = h
  BY <1>7, TakingStartsAfresh
<1> QED  BY <1>1, <1>2, <1>3, <1>4, <1>5, <1>6, <1>7 DEF HallConnStep

LEMMA KnowInvStep ==
  RegistryTypeOK /\ ListInv /\ KnowInv /\ [RegistryNext]_registryVars => KnowInv'
<1> SUFFICES ASSUME RegistryTypeOK, ListInv, KnowInv, [RegistryNext]_registryVars PROVE KnowInv'
  OBVIOUS
<1>0. LoginsOK /\ HallsOK /\ ChannelOK /\ EntriesUp
  <2>1. LoginsOK /\ HallsOK /\ ChannelOK
    BY RegistryParts
  <2> QED  BY <2>1, EntriesAreUp DEF ListInv, ListIsOfTheConnected
<1>1. CASE RegistryNext
  <2>1. RacesAreSeen' /\ (raced /\ ~ (/\ current # NoConn
                                      /\ HallAt(current, "list")
                                      /\ hc'[current].pc = "send") => raced')
    BY <1>1, Zenon DEF RegistryNext, RacesAreSeen
  <2>2. ASSUME NEW c \in LoginConn, LoginConnStep(c) PROVE KnowInv'
    <3>1. hc' = hc
      BY <2>2 DEF LoginConnStep, LoginConnects, RegisterLogin, RemoveOld, CastRemoved, CastAdded,
         AddLoginInfo, LoginDisconnects, RemoveById, CastGone, hallSide
    <3>2. raced => raced'
      BY <2>1, <3>1 DEF HallAt
    <3> QED  BY <1>0, <2>1, <2>2, <3>2, LoginConnKeepsKnowInv
  <2>3. ASSUME NEW h \in HallConn, HallConnStep(h) PROVE KnowInv'
    <3>1. raced /\ ~ (TakeList(h) /\ h = current) => raced'
      <4>1. ASSUME current # NoConn, HallAt(current, "list"), hc'[current].pc = "send"
            PROVE  TakeList(h) /\ h = current
        <5>1. current \in HallConn
          BY <1>0, <4>1 DEF HallsOK
        <5>2. h = current
          BY <1>0, <2>3, <4>1, <5>1
             DEF HallsOK, HallConnStep, HallConnects, RegisterHall, AddHallAgent, TakeList,
                 SendList, HallDisconnects, HallAt
        <5> QED  BY <2>3, <4>1, <5>2
                 DEF HallConnStep, HallConnects, RegisterHall, AddHallAgent, SendList,
                     HallDisconnects, HallAt
      <4> QED  BY <2>1, <4>1
    <3> QED  BY <1>0, <2>1, <2>3, <3>1, HallConnKeepsKnowInv
  <2>4. CASE HallLosesCenter
    <3>1. current' = NoConn
      BY <2>4 DEF HallLosesCenter
    <3> QED  BY <2>1, <3>1, HallUninformed
  <2>5. CASE HallReceives
    <3>1. /\ UNCHANGED loginSide /\ current' = current /\ hc' = hc /\ untold' = untold
          /\ \A s \in LoginId : WillKnow(s)' <=> WillKnow(s)
      BY <1>0, <2>5, ReceiveTells DEF HallReceives
    <3>2. raced => raced'
      BY <2>1, <3>1 DEF HallAt
    <3> QED  BY <2>1, <3>1, <3>2, HallAside
  <2>6. ASSUME NEW s \in LoginId, HallLosesLogin(s) PROVE KnowInv'
    <3>1. /\ UNCHANGED loginSide /\ current' = current /\ hc' = hc /\ untold' = untold
          /\ \A t \in LoginId : WillKnow(t)' <=> WillKnow(t)
      BY <2>6 DEF HallLosesLogin, WillKnow, Told
    <3>2. raced => raced'
      BY <2>1, <3>1 DEF HallAt
    <3> QED  BY <2>1, <3>1, <3>2, HallAside
  <2> QED  BY <1>1, <2>2, <2>3, <2>4, <2>5, <2>6 DEF RegistryNext
<1>2. CASE UNCHANGED registryVars
  <2>1. UNCHANGED <<lc, logins, overlap, hc, id2agent, current, toHall, known, lost, raced, untold>>
    BY <1>2 DEF registryVars
  <2>2. RacesAreSeen'
    BY <2>1, Zenon DEF KnowInv, RacesAreSeen, Racing, HallAt, Mid
  <2>3. \A s \in LoginId : WillKnow(s)' <=> WillKnow(s)
    BY <2>1, UnchangedTells
  <2>4. raced => raced'
    BY <2>1, Zenon
  <2> QED  BY <2>1, <2>2, <2>3, <2>4, HallAside DEF loginSide
<1> QED  BY <1>1, <1>2

LEMMA KeysApartStep ==
  RegistryTypeOK /\ KeysApart /\ [RegistryNext]_registryVars => KeysApart'
<1> SUFFICES ASSUME RegistryTypeOK, KeysApart, [RegistryNext]_registryVars PROVE KeysApart'
  OBVIOUS
<1>1. CASE UNCHANGED <<known, lost>>
  BY <1>1 DEF KeysApart
<1>2. CASE HallReceives
  <2>1. PICK m \in Message : m = Head(toHall)
    BY <1>2 DEF HallReceives, RegistryTypeOK
  <2>2. Added(m) \subseteq About(m)
    BY DEF Message, Added, About
  <2> QED  BY <1>2, <2>1, <2>2 DEF HallReceives, KeysApart
<1>3. ASSUME NEW s \in LoginId, HallLosesLogin(s) PROVE KeysApart'
  BY <1>3 DEF HallLosesLogin, KeysApart
<1>4. RegistryNext => \/ UNCHANGED <<known, lost>> \/ HallReceives
                      \/ \E s \in LoginId : HallLosesLogin(s)
  BY DEF RegistryNext, LoginConnStep, LoginConnects, RegisterLogin, RemoveOld, CastRemoved,
     CastAdded, AddLoginInfo, LoginDisconnects, RemoveById, CastGone, HallConnStep,
     HallConnects, RegisterHall, AddHallAgent, TakeList, SendList, HallDisconnects,
     HallLosesCenter, hallSide
<1> QED  BY <1>1, <1>2, <1>3, <1>4 DEF registryVars

\* When nothing is under way, a registered hall knows exactly the login servers
\* of the center's list (C2HLoginServerListHandler and the broadcasts) less those
\* whose link it has lost itself since it was told of them (OnDisconnect), but after
\* a list and a broadcast that overtook each other, two connections of one id
\* handled at a time, or a registration while the list was empty.
THEOREM KnownCorrect == RegistrySpec => []HallKnowsTheList
<1>1. /\ RegistryTypeOK /\ ListInv /\ KnowInv /\ KeysApart /\ [RegistryNext]_registryVars
      => RegistryTypeOK' /\ ListInv' /\ KnowInv' /\ KeysApart'
  BY RegistryTypeStep, ListInvStep, KnowInvStep, KeysApartStep
<1>2. RegistryTypeOK /\ KnowInv /\ KeysApart => HallKnowsTheList
  <2> SUFFICES ASSUME RegistryTypeOK, KnowInv, KeysApart, current # NoConn, HallAt(current, "up"),
                      toHall = <<>>, \A c \in LoginConn : ~ Mid(c), ~ raced, ~ untold
               PROVE  known = Listed \ lost
    BY Zenon DEF HallKnowsTheList
  <2>1. Informed /\ \A s \in LoginId : Settled(s)
    BY DEF Informed, Settled
  <2>2. \A s \in LoginId : WillKnow(s) <=> s \in Told
    BY DEF WillKnow
  <2>3. Told \subseteq LoginId
    BY DEF RegistryTypeOK, Told
  <2>4. Told = Listed
    BY <2>1, <2>2, <2>3 DEF KnowInv, SettledIsKnown, Listed
  <2> QED  BY <2>4 DEF Told, KeysApart
<1>3. RegistryInit => KeysApart
  BY DEF RegistryInit, KeysApart
<1> QED  BY <1>1, <1>2, <1>3, RegistryTypeInit, ListInvInit, KnowInvInit, PTL DEF RegistrySpec

-----------------------------------------------------------------------------
(* The accounts of the login server (Accounts).                            *)

Working(r) == req[r].pc \notin {"idle", "done"}
Lost(r) == req[r].lost
PcIn(r, places) == req[r].pc \in places

(***************************************************************************)
(* Rows. An account without a row has nothing; whoever goes past AddRow    *)
(* without losing the row has it to himself as far as its making goes.     *)
(***************************************************************************)

RequestsOK ==
  \A r \in Request :
    /\ Working(r) => req[r].acc \in Account
    /\ req[r].op = "bind" => /\ Working(r) /\ req[r].new \in Account
                             /\ req[r].acc # req[r].new
    /\ PcIn(r, {"mark"}) => req[r].op = "bind"
    /\ PcIn(r, {"look"}) => req[r].op = "login"
    /\ PcIn(r, {"tell"}) => req[r].op # "register"
    /\ PcIn(r, {"mark", "add"}) => ~ Lost(r)
    /\ ~ Working(r) => req[r].raw = {}

\* A request that adds the row, or gives the id of one it has added, found the
\* account raw.
RawCovers ==
  \A r \in Request :
    PcIn(r, {"mark", "add"}) \/ req[r].op = "bind" \/ (Working(r) /\ req[r].op = "register")
    => Target(r) \in req[r].raw

RowlessIsBlank ==
  \A a \in Account \ accounts :
    /\ unique_id[a] = NoUid /\ channel[a] = "" /\ old_account[a] = NoAccount
    /\ told[a] = {}

PastAddHasRow == \A r \in Request : PcIn(r, {"look", "give", "tell"}) => Target(r) \in accounts

\* Registrations and bindings that have a row they added.
Adder(r) == PcIn(r, {"give"}) /\ req[r].op # "login" /\ ~ Lost(r)

OneAdder ==
  \A r, q \in Request : Adder(r) /\ Adder(q) /\ Target(r) = Target(q) => r = q

AddedIsOfNoChannel == \A r \in Request : Adder(r) => channel[Target(r)] = ""

\* An account of a channel without an id is being made.
ChannelIsBeingMade ==
  \A a \in accounts :
    channel[a] # "" /\ unique_id[a] = NoUid =>
      \E q \in Request : /\ PcIn(q, {"look", "give"}) /\ req[q].op = "login" /\ ~ Lost(q)
                         /\ req[q].acc = a /\ a \in req[q].raw

RowInv == RequestsOK /\ RawCovers /\ RowlessIsBlank /\ PastAddHasRow
          /\ OneAdder /\ AddedIsOfNoChannel /\ ChannelIsBeingMade

(***************************************************************************)
(* Accounts that are not rushed: one request makes them.                   *)
(***************************************************************************)

OneMaker ==
  \A r, q \in Request : \A a \in Account :
    a \in req[r].raw /\ a \in req[q].raw /\ a \notin rushed => r = q

Alone(r) == LET a == Target(r) IN
  Working(r) /\ a \notin rushed =>
    /\ ~ Lost(r)
    /\ PcIn(r, {"mark", "add"}) => a \notin accounts
    /\ PcIn(r, {"look"}) => (a \in req[r].raw <=> unique_id[a] = NoUid)
    /\ PcIn(r, {"give"}) => a \in req[r].raw /\ unique_id[a] = NoUid
    /\ PcIn(r, {"give"}) /\ req[r].op = "bind" => old_account[a] = NoAccount /\ told[a] = {}
    /\ PcIn(r, {"tell"}) /\ req[r].op = "login" => unique_id[a] # NoUid
    /\ PcIn(r, {"tell"}) /\ req[r].op = "bind" => /\ unique_id[a] = req[r].uid
                                                /\ old_account[a] = req[r].acc

MakerAlone == \A r \in Request : Alone(r)

\* The id a binding reads.
ReadsTheUid ==
  \A r \in Request : LET a == req[r].acc IN
    req[r].op = "bind" /\ a \notin rushed =>
      /\ unique_id[a] # NoUid
      /\ ~ PcIn(r, {"mark"}) => req[r].uid = unique_id[a]

BoundHasUid ==
  \A b \in Account : LET a == old_account[b] IN
    a # NoAccount /\ {a, b} \cap rushed = {} => unique_id[b] = unique_id[a] /\ unique_id[b] # NoUid

MakeInv == OneMaker /\ MakerAlone /\ ReadsTheUid /\ BoundHasUid /\ ToldUidsHold

(***************************************************************************)
(* Bindings.                                                               *)
(***************************************************************************)

BinderHasChannel == \A r \in Request : req[r].op = "bind" => channel[req[r].acc] # ""

BoundHasChannel ==
  \A b \in Account : old_account[b] # NoAccount =>
    channel[old_account[b]] # "" /\ bind_to[old_account[b]] # NoAccount

BinderMarks == \A r \in Request : req[r].op = "bind" /\ ~ PcIn(r, {"mark"}) => bind_to[req[r].acc] # NoAccount

OneBinder ==
  \A r, q \in Request :
    req[r].op = "bind" /\ req[q].op = "bind" /\ req[r].acc = req[q].acc /\ req[r].acc \notin twice
    => r = q

GuestIsFree ==
  \A r \in Request : LET a == req[r].acc IN
    req[r].op = "bind" /\ PcIn(r, {"mark", "add", "give"}) /\ a \notin twice /\ channel[a] = "guest" =>
      \A b \in Account : old_account[b] # a

GuestBindsOne ==
  \A a \in Account \ twice : channel[a] = "guest" =>
    \A b, c \in Account : old_account[b] = a /\ old_account[c] = a => b = c

BindInv == BinderHasChannel /\ BoundHasChannel /\ BinderMarks /\ OneBinder /\ GuestIsFree
           /\ GuestBindsOne /\ BoundAccountsExist

ReqOK == req \in [Request -> Requests]

AccountRowsOK ==
  /\ accounts \subseteq Account
  /\ unique_id \in [Account -> Uids]
  /\ channel \in [Account -> Channels]
  /\ bind_to \in [Account -> Account \cup {NoAccount}]
  /\ old_account \in [Account -> Account \cup {NoAccount}]

ToldOK ==
  /\ told \in [Account -> SUBSET Uids]
  /\ rushed \subseteq Account
  /\ twice \subseteq Account

AccountParts == ReqOK /\ AccountRowsOK /\ ToldOK

LEMMA AccountTypes == AccountsTypeOK <=> AccountParts
BY Zenon DEF AccountsTypeOK, AccountParts, ReqOK, AccountRowsOK, ToldOK

(***************************************************************************)
(* What a step does to its request, field by field.                        *)
(***************************************************************************)

Others(r) == \A q \in Request \ {r} : req'[q] = req[q]

GoesOn(r, place) ==
  /\ req'[r].pc = place
  /\ req'[r].op = req[r].op
  /\ req'[r].acc = req[r].acc
  /\ req'[r].new = req[r].new
  /\ req'[r].ch = req[r].ch
  /\ req'[r].raw = req[r].raw

LEMMA ReqFields ==
  ASSUME ReqOK, NEW r \in Request
  PROVE  /\ req[r].pc \in {"idle", "add", "look", "give", "tell", "mark", "done"}
         /\ req[r].op \in {"register", "login", "bind"}
         /\ req[r].acc \in Account \cup {NoAccount}
         /\ req[r].new \in Account \cup {NoAccount}
         /\ req[r].ch \in Channels
         /\ req[r].raw \in SUBSET Account
         /\ req[r].uid \in Uids
BY DEF ReqOK, Requests

LEMMA NoRequestType ==
  /\ NoRequest \in Requests
  /\ [NoRequest EXCEPT !.pc = "done"] \in Requests
BY DEF NoRequest, Requests, Channels, Uids

LEMMA GoesDoes ==
  ASSUME ReqOK, NEW r \in Request, NEW place \in {"look", "give", "tell"}, Goes(r, place)
  PROVE  /\ ReqOK' /\ Others(r) /\ GoesOn(r, place)
         /\ req'[r].uid = req[r].uid /\ (Lost(r)' <=> Lost(r))
<1>1. req[r] \in Requests /\ req' = [req EXCEPT ![r] = [req[r] EXCEPT !.pc = place]]
  BY DEF Goes, ReqOK
<1>2. [req[r] EXCEPT !.pc = place] \in Requests
  BY <1>1 DEF Requests
<1>3. req'[r] = [req[r] EXCEPT !.pc = place] /\ Others(r) /\ ReqOK'
  BY <1>1, <1>2 DEF ReqOK, Others
<1>4. req'[r].uid = req[r].uid /\ req'[r].lost = req[r].lost
  BY <1>1, <1>3 DEF Requests
<1>5. GoesOn(r, place)
  BY <1>1, <1>3 DEF Requests, GoesOn
<1> QED  BY <1>3, <1>4, <1>5 DEF Lost

LEMMA GetsUidDoes ==
  ASSUME ReqOK, NEW r \in Request, NEW place \in {"add", "tell"}, NEW uid \in Uids,
         req' = [req EXCEPT ![r].pc = place, ![r].uid = uid]
  PROVE  /\ ReqOK' /\ Others(r) /\ GoesOn(r, place)
         /\ req'[r].uid = uid /\ (Lost(r)' <=> Lost(r))
<1>1. req[r] \in Requests /\ req' = [req EXCEPT ![r] = [req[r] EXCEPT !.pc = place, !.uid = uid]]
  BY DEF ReqOK
<1>2. [req[r] EXCEPT !.pc = place, !.uid = uid] \in Requests
  BY <1>1 DEF Requests
<1>3. req'[r] = [req[r] EXCEPT !.pc = place, !.uid = uid] /\ Others(r) /\ ReqOK'
  BY <1>1, <1>2 DEF ReqOK, Others
<1>4. req'[r].uid = uid /\ req'[r].lost = req[r].lost
  BY <1>1, <1>3 DEF Requests
<1>5. GoesOn(r, place)
  BY <1>1, <1>3 DEF Requests, GoesOn
<1> QED  BY <1>3, <1>4, <1>5 DEF Lost

LEMMA LosesDoes ==
  ASSUME ReqOK, NEW r \in Request, NEW place \in {"look", "give"},
         req' = [req EXCEPT ![r].pc = place, ![r].lost = TRUE]
  PROVE  /\ ReqOK' /\ Others(r) /\ GoesOn(r, place) /\ Lost(r)'
         /\ req'[r].uid = req[r].uid
<1>1. req[r] \in Requests /\ req' = [req EXCEPT ![r] = [req[r] EXCEPT !.pc = place, !.lost = TRUE]]
  BY DEF ReqOK
<1>2. [req[r] EXCEPT !.pc = place, !.lost = TRUE] \in Requests
  BY <1>1 DEF Requests
<1>3. req'[r] = [req[r] EXCEPT !.pc = place, !.lost = TRUE] /\ Others(r) /\ ReqOK'
  BY <1>1, <1>2 DEF ReqOK, Others
<1>4. req'[r].uid = req[r].uid /\ req'[r].lost = TRUE
  BY <1>1, <1>3 DEF Requests
<1>5. GoesOn(r, place)
  BY <1>1, <1>3 DEF Requests, GoesOn
<1> QED  BY <1>3, <1>4, <1>5 DEF Lost

LEMMA EndsDoes ==
  ASSUME ReqOK, NEW r \in Request, Ends(r)
  PROVE  /\ ReqOK' /\ Others(r)
         /\ req'[r].pc = "done" /\ req'[r].op = "login" /\ req'[r].raw = {}
<1>1. req'[r] = [NoRequest EXCEPT !.pc = "done"] /\ Others(r) /\ ReqOK'
  BY NoRequestType DEF Ends, ReqOK, Others
<1> QED  BY <1>1 DEF NoRequest

LEMMA BeginsDoes ==
  ASSUME ReqOK, ToldOK, NEW r \in Request, NEW place \in {"add", "look", "mark"},
         NEW op \in {"register", "login", "bind"}, NEW a \in Account,
         NEW new \in Account \cup {NoAccount}, NEW ch \in Channels,
         Begins(r, place, op, a, new, ch)
  PROVE  /\ ReqOK' /\ Others(r) /\ req[r].pc = "idle"
         /\ req'[r].pc = place /\ req'[r].op = op /\ req'[r].acc = a /\ req'[r].new = new
         /\ ~ Lost(r)'
         /\ req'[r].raw = {b \in {a, new} \ {NoAccount} : b \notin accounts \/ unique_id[b] = NoUid}
         /\ rushed \subseteq rushed' /\ rushed' \subseteq Account
         /\ \A q \in Request, b \in Account : b \in req'[r].raw /\ b \in req[q].raw => b \in rushed'
         /\ UNCHANGED <<accounts, unique_id, channel, bind_to, old_account, told>>
<1> DEFINE raw == Raw({a, new} \ {NoAccount})
           b == [NoRequest EXCEPT !.pc = place, !.op = op, !.acc = a, !.new = new,
                                  !.ch = ch, !.raw = raw]
<1>1. /\ req[r].pc = "idle" /\ req' = [req EXCEPT ![r] = b]
      /\ rushed' = rushed \cup (raw \cap UNION {req[q].raw : q \in Request})
      /\ UNCHANGED <<accounts, unique_id, channel, bind_to, old_account, told>>
  BY DEF Begins
<1>2. raw = {c \in {a, new} \ {NoAccount} : c \notin accounts \/ unique_id[c] = NoUid}
  BY DEF Raw
<1>3. raw \subseteq Account
  BY <1>2
<1> HIDE DEF raw
<1>4. b \in Requests
  BY <1>3 DEF NoRequest, Requests, Uids
<1>5. b.pc = place /\ b.op = op /\ b.acc = a /\ b.new = new /\ b.lost = FALSE /\ b.raw = raw
  BY DEF NoRequest
<1> HIDE DEF b
<1>6. req'[r] = b /\ Others(r) /\ ReqOK'
  BY <1>1, <1>4 DEF ReqOK, Others
<1>7. rushed \subseteq rushed' /\ rushed' \subseteq Account
  BY <1>1, <1>3 DEF ToldOK
<1>8. \A q \in Request, c \in Account : c \in raw /\ c \in req[q].raw => c \in rushed'
  BY <1>1
<1>9. ~ Lost(r)'
  BY <1>5, <1>6 DEF Lost
<1> QED  BY <1>1, <1>2, <1>5, <1>6, <1>7, <1>8, <1>9

\* Its request is over; what it was about does not matter any more.
Finished(r) == req'[r].pc = "done" /\ req'[r].op = "login" /\ req'[r].raw = {}

\* The other requests, in the invariants' words.
Frame(r) ==
  \A q \in Request \ {r} :
    req'[q] = req[q] /\ Target(q)' = Target(q) /\ (Lost(q)' <=> Lost(q))

LEMMA OthersFrame == ASSUME NEW r \in Request, Others(r) PROVE Frame(r)
BY DEF Others, Frame, Target, Lost

LEMMA GoesOnTarget ==
  ASSUME NEW r \in Request, NEW place, GoesOn(r, place) PROVE Target(r)' = Target(r)
BY DEF GoesOn, Target

LEMMA TargetType ==
  ASSUME RequestsOK, NEW r \in Request, Working(r)
  PROVE  /\ Target(r) \in Account /\ req[r].acc \in Account
         /\ Target(r) = IF req[r].op = "bind" THEN req[r].new ELSE req[r].acc
BY DEF RequestsOK, Target, Working

\* A request that begins finds its place in the invariants.
Fresh(r) ==
  /\ ReqOK' /\ Frame(r) /\ req[r].pc = "idle" /\ ~ Lost(r)'
  /\ rushed \subseteq rushed' /\ rushed' \subseteq Account
  /\ \A q \in Request, b \in Account : b \in req'[r].raw /\ b \in req[q].raw => b \in rushed'
  /\ UNCHANGED <<accounts, unique_id, channel, bind_to, old_account, told>>
  /\ req'[r].acc \in Account

LEMMA FreshDoes ==
  ASSUME ReqOK, ToldOK, NEW r \in Request, NEW place \in {"add", "look", "mark"},
         NEW op \in {"register", "login", "bind"}, NEW a \in Account,
         NEW new \in Account \cup {NoAccount}, NEW ch \in Channels,
         Begins(r, place, op, a, new, ch)
  PROVE  /\ Fresh(r)
         /\ req'[r].pc = place /\ req'[r].op = op /\ req'[r].acc = a /\ req'[r].new = new
         /\ Target(r)' = IF op = "bind" THEN new ELSE a
         /\ a \in req'[r].raw <=> a \notin accounts \/ unique_id[a] = NoUid
         /\ new # NoAccount /\ new \notin accounts => new \in req'[r].raw
<1>1. /\ ReqOK' /\ Others(r) /\ req[r].pc = "idle"
      /\ req'[r].pc = place /\ req'[r].op = op /\ req'[r].acc = a /\ req'[r].new = new
      /\ ~ Lost(r)'
      /\ req'[r].raw = {b \in {a, new} \ {NoAccount} : b \notin accounts \/ unique_id[b] = NoUid}
      /\ rushed \subseteq rushed' /\ rushed' \subseteq Account
      /\ \A q \in Request, b \in Account : b \in req'[r].raw /\ b \in req[q].raw => b \in rushed'
      /\ UNCHANGED <<accounts, unique_id, channel, bind_to, old_account, told>>
  BY BeginsDoes
<1>2. Fresh(r)
  BY <1>1, OthersFrame DEF Fresh
<1>3. Target(r)' = IF op = "bind" THEN new ELSE a
  BY <1>1 DEF Target
<1>4. a # NoAccount
  BY AccountsAssumption
<1> QED  BY <1>1, <1>2, <1>3, <1>4

LEMMA RegisterDoes ==
  ASSUME ReqOK, ToldOK, NEW r \in Request, Register(r)
  PROVE  /\ Fresh(r) /\ twice' = twice
         /\ req'[r].pc = "add" /\ req'[r].op = "register" /\ Target(r)' = req'[r].acc
         /\ req'[r].acc \notin accounts /\ req'[r].acc \in req'[r].raw
<1>1. PICK a \in Account \ accounts, ch \in {"", "guest"} :
        Begins(r, "add", "register", a, NoAccount, ch)
  BY DEF Register
<1>2. ch \in Channels /\ NoAccount \in Account \cup {NoAccount}
  BY DEF Channels
<1>3. /\ Fresh(r)
      /\ req'[r].pc = "add" /\ req'[r].op = "register" /\ req'[r].acc = a
      /\ Target(r)' = IF "register" = "bind" THEN NoAccount ELSE a
      /\ a \in req'[r].raw <=> a \notin accounts \/ unique_id[a] = NoUid
  BY <1>1, <1>2, FreshDoes
<1>4. twice' = twice
  BY DEF Register
<1> QED  BY <1>3, <1>4

LEMMA LoginDoes ==
  ASSUME ReqOK, ToldOK, AccountRowsOK, NEW r \in Request, Login(r)
  PROVE  /\ Fresh(r) /\ twice' = twice
         /\ req'[r].op = "login" /\ Target(r)' = req'[r].acc
         /\ req'[r].acc \in req'[r].raw
              <=> req'[r].acc \notin accounts \/ unique_id[req'[r].acc] = NoUid
         /\ req'[r].pc = IF req'[r].acc \in accounts THEN "look" ELSE "add"
<1>1. PICK a \in Account, ch \in Channels, place \in {"look", "add"} :
        /\ place = IF a \in accounts THEN "look" ELSE "add"
        /\ Begins(r, place, "login", a, NoAccount, ch)
  <2>1. CASE \E a \in accounts : Begins(r, "look", "login", a, NoAccount, "")
    BY <2>1 DEF Channels, AccountRowsOK
  <2>2. CASE \E a \in Account \ accounts,
               ch \in IF VerifyAccount THEN {"guest", "facebook"} ELSE {""} :
               Begins(r, "add", "login", a, NoAccount, ch)
    BY <2>2 DEF Channels
  <2> QED  BY <2>1, <2>2 DEF Login
<1>2. NoAccount \in Account \cup {NoAccount}
  OBVIOUS
<1>3. /\ Fresh(r)
      /\ req'[r].pc = place /\ req'[r].op = "login" /\ req'[r].acc = a
      /\ Target(r)' = IF "login" = "bind" THEN NoAccount ELSE a
      /\ a \in req'[r].raw <=> a \notin accounts \/ unique_id[a] = NoUid
  BY <1>1, <1>2, FreshDoes
<1>4. twice' = twice
  BY DEF Login
<1> QED  BY <1>1, <1>3, <1>4

LEMMA BindDoes ==
  ASSUME ReqOK, ToldOK, NEW r \in Request, BindNewAccount(r)
  PROVE  /\ Fresh(r)
         /\ req'[r].pc = "mark" /\ req'[r].op = "bind" /\ Target(r)' = req'[r].new
         /\ req'[r].new \in Account \ accounts /\ req'[r].acc # req'[r].new
         /\ req'[r].acc \in accounts
         /\ channel[req'[r].acc] # ""
         /\ channel[req'[r].acc] = "guest" => bind_to[req'[r].acc] = NoAccount
         /\ req'[r].new \in req'[r].raw
         /\ req'[r].acc \in req'[r].raw <=> unique_id[req'[r].acc] = NoUid
         /\ twice \subseteq twice' /\ twice' \subseteq Account
         /\ \A q \in Request : req[q].op = "bind" /\ req[q].acc = req'[r].acc
                                 => req'[r].acc \in twice'
<1>1. PICK a \in Account, b \in Account :
        /\ MayBind(a, b)
        /\ Begins(r, "mark", "bind", a, b, "")
        /\ twice' = IF \E q \in Request : req[q].op = "bind" /\ req[q].acc = a
                    THEN twice \cup {a} ELSE twice
  BY DEF BindNewAccount
<1>2. "" \in Channels /\ b \in Account \cup {NoAccount} /\ b # NoAccount
  BY AccountsAssumption DEF Channels
<1>3. /\ Fresh(r)
      /\ req'[r].pc = "mark" /\ req'[r].op = "bind" /\ req'[r].acc = a /\ req'[r].new = b
      /\ Target(r)' = IF "bind" = "bind" THEN b ELSE a
      /\ a \in req'[r].raw <=> a \notin accounts \/ unique_id[a] = NoUid
      /\ b # NoAccount /\ b \notin accounts => b \in req'[r].raw
  BY <1>1, <1>2, FreshDoes
<1>4. /\ a # b /\ a \in accounts /\ b \notin accounts /\ channel[a] # ""
      /\ channel[a] = "guest" => bind_to[a] = NoAccount
  BY <1>1 DEF MayBind
<1>5. twice \subseteq twice' /\ twice' \subseteq Account
  BY <1>1 DEF ToldOK
<1>6. \A q \in Request : req[q].op = "bind" /\ req[q].acc = a => a \in twice'
  BY <1>1
<1> QED  BY <1>2, <1>3, <1>4, <1>5, <1>6

\* The other steps. Each names the account it is about.
LEMMA MarkDoes ==
  ASSUME ReqOK, AccountRowsOK, RequestsOK, NEW r \in Request, MarkOld(r)
  PROVE  /\ ReqOK' /\ Frame(r) /\ GoesOn(r, "add") /\ Target(r)' = Target(r)
         /\ req[r].pc = "mark" /\ req[r].op = "bind" /\ ~ Lost(r)'
         /\ req'[r].uid = unique_id[req[r].acc]
         /\ bind_to' = [bind_to EXCEPT ![req[r].acc] = req[r].new]
         /\ UNCHANGED <<accounts, unique_id, channel, old_account, told, rushed, twice>>
<1>1. req[r].pc = "mark" /\ req[r].acc \in Account /\ req[r].op = "bind" /\ ~ Lost(r)
  BY DEF MarkOld, RequestsOK, Working, PcIn
<1>2. unique_id[req[r].acc] \in Uids
  BY <1>1 DEF AccountRowsOK
<1>3. /\ ReqOK' /\ Others(r) /\ GoesOn(r, "add")
      /\ req'[r].uid = unique_id[req[r].acc] /\ (Lost(r)' <=> Lost(r))
  BY <1>2, GetsUidDoes DEF MarkOld
<1> QED  BY <1>1, <1>3, OthersFrame, GoesOnTarget DEF MarkOld

LEMMA AddRowDoes ==
  ASSUME ReqOK, RequestsOK, NEW r \in Request, AddRow(r)
  PROVE  /\ ReqOK' /\ Frame(r) /\ req[r].pc = "add"
         /\ UNCHANGED <<unique_id, bind_to, old_account, told, rushed, twice>>
         /\ \/ /\ Target(r) \in accounts
               /\ Finished(r)
               /\ UNCHANGED <<accounts, channel>>
            \/ /\ GoesOn(r, AfterAdd(r)) /\ req'[r].uid = req[r].uid /\ Target(r)' = Target(r)
               /\ \/ /\ Target(r) \in accounts /\ Lost(r)'
                     /\ UNCHANGED <<accounts, channel>>
                  \/ /\ Target(r) \notin accounts /\ ~ Lost(r)'
                     /\ accounts' = accounts \cup {Target(r)}
                     /\ channel' = [channel EXCEPT ![Target(r)] =
                                      IF req[r].op = "login" THEN req[r].ch ELSE @]
<1>1. /\ req[r].pc = "add" /\ ~ Lost(r) /\ AfterAdd(r) \in {"look", "give"}
      /\ UNCHANGED <<unique_id, bind_to, old_account, told, rushed, twice>>
  BY DEF AddRow, RequestsOK, PcIn, AfterAdd
<1>2. CASE Target(r) \notin accounts
  <2>1. /\ accounts' = accounts \cup {Target(r)}
        /\ channel' = [channel EXCEPT ![Target(r)] = IF req[r].op = "login" THEN req[r].ch ELSE @]
        /\ Goes(r, AfterAdd(r))
    BY <1>2, Zenon DEF AddRow
  <2>2. /\ ReqOK' /\ Others(r) /\ GoesOn(r, AfterAdd(r))
        /\ req'[r].uid = req[r].uid /\ (Lost(r)' <=> Lost(r))
    BY <1>1, <2>1, GoesDoes
  <2> QED  BY <1>1, <1>2, <2>1, <2>2, OthersFrame, GoesOnTarget
<1>3. CASE Target(r) \in accounts
  <2>1. /\ UNCHANGED <<accounts, channel>>
        /\ \/ Ends(r)
           \/ req' = [req EXCEPT ![r].pc = AfterAdd(r), ![r].lost = TRUE]
    BY <1>3, Zenon DEF AddRow
  <2>2. CASE Ends(r)
    BY <1>1, <1>3, <2>1, <2>2, EndsDoes, OthersFrame DEF Finished
  <2>3. CASE req' = [req EXCEPT ![r].pc = AfterAdd(r), ![r].lost = TRUE]
    <3>1. /\ ReqOK' /\ Others(r) /\ GoesOn(r, AfterAdd(r)) /\ Lost(r)'
          /\ req'[r].uid = req[r].uid
      BY <1>1, <2>3, LosesDoes
    <3> QED  BY <1>1, <1>3, <2>1, <3>1, OthersFrame, GoesOnTarget
  <2> QED  BY <2>1, <2>2, <2>3
<1> QED  BY <1>2, <1>3

LEMMA LookDoes ==
  ASSUME ReqOK, RequestsOK, NEW r \in Request, LookForUid(r)
  PROVE  /\ ReqOK' /\ Frame(r) /\ Target(r)' = Target(r) /\ (Lost(r)' <=> Lost(r))
         /\ req[r].pc = "look" /\ req[r].op = "login" /\ Target(r) = req[r].acc
         /\ GoesOn(r, IF Lost(r) \/ unique_id[req[r].acc] = NoUid THEN "give" ELSE "tell")
         /\ UNCHANGED <<accounts, unique_id, channel, bind_to, old_account, told, rushed, twice>>
<1> DEFINE place == IF Lost(r) \/ unique_id[req[r].acc] = NoUid THEN "give" ELSE "tell"
<1>1. Goes(r, place) /\ place \in {"look", "give", "tell"}
  BY DEF LookForUid, Lost
<1>2. req[r].pc = "look" /\ req[r].op = "login" /\ Target(r) = req[r].acc
  BY DEF LookForUid, RequestsOK, PcIn, Target
<1> HIDE DEF place
<1>3. /\ ReqOK' /\ Others(r) /\ GoesOn(r, place)
      /\ (Lost(r)' <=> Lost(r))
  BY <1>1, GoesDoes
<1>4. Frame(r) /\ Target(r)' = Target(r)
  BY <1>3, OthersFrame, GoesOnTarget
<1> QED  BY <1>2, <1>3, <1>4 DEF LookForUid, place

LEMMA GiveDoes ==
  ASSUME ReqOK, NEW r \in Request, GiveUid(r)
  PROVE  \E uid \in Uids :
         /\ uid = (IF req[r].op = "bind" THEN req[r].uid ELSE r)
         /\ ReqOK' /\ Frame(r) /\ req[r].pc = "give"
         /\ IF Lost(r) THEN UNCHANGED <<unique_id, old_account, channel>>
            ELSE /\ unique_id' = [unique_id EXCEPT ![Target(r)] = uid]
                 /\ old_account' = [old_account EXCEPT ![Target(r)] =
                                      IF req[r].op = "bind" THEN req[r].acc ELSE @]
                 /\ channel' = [channel EXCEPT ![Target(r)] =
                                  IF req[r].op = "register" THEN req[r].ch ELSE @]
         /\ IF req[r].op = "register" THEN Finished(r)
            ELSE /\ GoesOn(r, "tell") /\ Target(r)' = Target(r) /\ (Lost(r)' <=> Lost(r))
                 /\ req'[r].uid = uid
         /\ UNCHANGED <<accounts, bind_to, told, rushed, twice>>
<1> DEFINE uid == IF req[r].op = "bind" THEN req[r].uid ELSE r
<1>1. uid \in Uids
  BY ReqFields DEF Uids
<1>2. PICK u \in Uids : u = uid
  BY <1>1
<1>3. /\ req[r].pc = "give"
      /\ IF Lost(r) THEN UNCHANGED <<unique_id, old_account, channel>>
         ELSE /\ unique_id' = [unique_id EXCEPT ![Target(r)] = u]
              /\ old_account' = [old_account EXCEPT ![Target(r)] =
                                   IF req[r].op = "bind" THEN req[r].acc ELSE @]
              /\ channel' = [channel EXCEPT ![Target(r)] =
                               IF req[r].op = "register" THEN req[r].ch ELSE @]
      /\ IF req[r].op = "register" THEN Ends(r)
         ELSE req' = [req EXCEPT ![r].pc = "tell", ![r].uid = u]
      /\ UNCHANGED <<accounts, bind_to, told, rushed, twice>>
  BY <1>2 DEF GiveUid, Lost
<1>4. CASE req[r].op = "register"
  <2>1. ReqOK' /\ Frame(r) /\ Finished(r)
    BY <1>3, <1>4, EndsDoes, OthersFrame DEF Finished
  <2> QED  BY <1>2, <1>3, <1>4, <2>1
<1>5. CASE req[r].op # "register"
  <2>1. /\ ReqOK' /\ Others(r) /\ GoesOn(r, "tell")
        /\ req'[r].uid = u /\ (Lost(r)' <=> Lost(r))
    BY <1>3, <1>5, GetsUidDoes
  <2>2. Frame(r) /\ Target(r)' = Target(r)
    BY <2>1, OthersFrame, GoesOnTarget
  <2> QED  BY <1>2, <1>3, <1>5, <2>1, <2>2
<1> QED  BY <1>4, <1>5

LEMMA TellDoes ==
  ASSUME ReqOK, NEW r \in Request, TellHall(r)
  PROVE  \E uid : 
         /\ uid = (IF req[r].op = "bind" \/ Lost(r) THEN req[r].uid ELSE unique_id[Target(r)])
         /\ ReqOK' /\ Frame(r) /\ Finished(r) /\ req[r].pc = "tell"
         /\ told' \in {told, [told EXCEPT ![Target(r)] = @ \cup {uid}]}
         /\ UNCHANGED <<accounts, unique_id, channel, bind_to, old_account, rushed, twice>>
<1> DEFINE uid == IF req[r].op = "bind" \/ Lost(r) THEN req[r].uid ELSE unique_id[Target(r)]
<1>1. PICK u : u = uid
  OBVIOUS
<1>2. /\ req[r].pc = "tell" /\ Ends(r)
      /\ told' \in {told, [told EXCEPT ![Target(r)] = @ \cup {u}]}
      /\ UNCHANGED <<accounts, unique_id, channel, bind_to, old_account, rushed, twice>>
  BY <1>1 DEF TellHall, Lost
<1> QED  BY <1>1, <1>2, EndsDoes, OthersFrame DEF Finished

\* The three ways a request begins.
Begun(r) ==
  /\ Fresh(r)
  /\ \/ /\ req'[r].pc = "add" /\ req'[r].op # "bind" /\ Target(r)' = req'[r].acc
        /\ req'[r].acc \notin accounts /\ req'[r].acc \in req'[r].raw
     \/ /\ req'[r].pc = "look" /\ req'[r].op = "login" /\ Target(r)' = req'[r].acc
        /\ req'[r].acc \in accounts
        /\ req'[r].acc \in req'[r].raw <=> unique_id[req'[r].acc] = NoUid
     \/ /\ req'[r].pc = "mark" /\ req'[r].op = "bind" /\ Target(r)' = req'[r].new
        /\ req'[r].new \in Account \ accounts /\ req'[r].acc # req'[r].new
        /\ req'[r].acc \in accounts /\ req'[r].new \in req'[r].raw
        /\ channel[req'[r].acc] # ""
        /\ unique_id[req'[r].acc] = NoUid => req'[r].acc \in req'[r].raw

LEMMA BegunIs ==
  ASSUME AccountParts, NEW r \in Request, Register(r) \/ Login(r) \/ BindNewAccount(r)
  PROVE  /\ Begun(r)
         /\ \/ twice' = twice /\ req'[r].op # "bind"
            \/ /\ BindNewAccount(r) /\ twice \subseteq twice' /\ twice' \subseteq Account
               /\ channel[req'[r].acc] = "guest" => bind_to[req'[r].acc] = NoAccount
               /\ \A q \in Request : req[q].op = "bind" /\ req[q].acc = req'[r].acc
                                       => req'[r].acc \in twice'
<1> USE DEF AccountParts
<1>1. CASE Register(r)
  BY <1>1, RegisterDoes DEF Begun
<1>2. CASE Login(r)
  BY <1>2, LoginDoes DEF Begun
<1>3. CASE BindNewAccount(r)
  BY <1>3, BindDoes DEF Begun
<1> QED  BY <1>1, <1>2, <1>3

LEMMA AccountPartsInit == AccountsInit => AccountParts /\ RowInv /\ MakeInv /\ BindInv
<1> SUFFICES ASSUME AccountsInit PROVE AccountParts /\ RowInv /\ MakeInv /\ BindInv
  OBVIOUS
<1>1. \A r \in Request : req[r] = NoRequest
  BY DEF AccountsInit
<1>2. \A r \in Request : req[r].pc = "idle" /\ req[r].op = "login" /\ req[r].raw = {}
  <2>1. NoRequest.pc = "idle" /\ NoRequest.op = "login" /\ NoRequest.raw = {}
    BY DEF NoRequest
  <2> QED  BY <1>1, <2>1
<1>3. AccountParts
  <2>1. ReqOK
    BY NoRequestType DEF AccountsInit, ReqOK
  <2>2. AccountRowsOK
    BY DEF AccountsInit, AccountRowsOK, Uids, Channels
  <2>3. ToldOK
    BY DEF AccountsInit, ToldOK
  <2> QED  BY <2>1, <2>2, <2>3 DEF AccountParts
<1>4. RowInv
  BY <1>2 DEF AccountsInit, RowInv, RequestsOK, RawCovers, RowlessIsBlank, PastAddHasRow,
     OneAdder, AddedIsOfNoChannel, ChannelIsBeingMade, Working, PcIn, Adder
<1>5. MakeInv
  BY <1>2 DEF AccountsInit, MakeInv, OneMaker, MakerAlone, Alone, ReadsTheUid, BoundHasUid, ToldUidsHold,
     Working, PcIn
<1>6. BindInv
  BY <1>2 DEF AccountsInit, BindInv, BinderHasChannel, BoundHasChannel, BinderMarks, OneBinder,
     GuestIsFree, GuestBindsOne, BoundAccountsExist, PcIn
<1> QED  BY <1>3, <1>4, <1>5, <1>6

LEMMA AccountPartsStep ==
  ASSUME AccountParts, RequestsOK, NEW r \in Request, RequestStep(r) PROVE AccountParts'
<1>0. ReqOK /\ AccountRowsOK /\ ToldOK
  BY DEF AccountParts
<1>1. CASE Register(r) \/ Login(r) \/ BindNewAccount(r)
  <2>1. Fresh(r) /\ (twice' = twice \/ twice' \subseteq Account)
    BY <1>1, BegunIs DEF Begun
  <2> QED  BY <1>0, <2>1 DEF Fresh, AccountParts, AccountRowsOK, ToldOK
<1>2. CASE MarkOld(r)
  <2>1. req[r].new \in Account \cup {NoAccount}
    BY <1>0, ReqFields
  <2> QED  BY <1>0, <1>2, <2>1, MarkDoes DEF AccountParts, AccountRowsOK, ToldOK
<1>3. CASE AddRow(r)
  <2>1. Target(r) \in Account /\ req[r].ch \in Channels
    BY <1>0, <1>3, AddRowDoes, TargetType, ReqFields DEF Working
  <2>2. ReqOK' /\ ToldOK'
    BY <1>0, <1>3, AddRowDoes DEF ToldOK
  <2>3. AccountRowsOK'
    BY <1>0, <1>3, <2>1, AddRowDoes DEF AccountRowsOK
  <2> QED  BY <2>2, <2>3 DEF AccountParts
<1>4. CASE LookForUid(r)
  BY <1>0, <1>4, LookDoes DEF AccountParts, AccountRowsOK, ToldOK
<1>5. CASE GiveUid(r)
  <2>1. PICK uid \in Uids :
         /\ ReqOK'
         /\ IF Lost(r) THEN UNCHANGED <<unique_id, old_account, channel>>
            ELSE /\ unique_id' = [unique_id EXCEPT ![Target(r)] = uid]
                 /\ old_account' = [old_account EXCEPT ![Target(r)] =
                                      IF req[r].op = "bind" THEN req[r].acc ELSE @]
                 /\ channel' = [channel EXCEPT ![Target(r)] =
                                  IF req[r].op = "register" THEN req[r].ch ELSE @]
         /\ UNCHANGED <<accounts, bind_to, told, rushed, twice>>
    BY <1>0, <1>5, GiveDoes
  <2>2. req[r].acc \in Account \cup {NoAccount} /\ req[r].ch \in Channels
    BY <1>0, ReqFields
  <2>3. AccountRowsOK'
    BY <1>0, <2>1, <2>2 DEF AccountRowsOK
  <2> QED  BY <1>0, <2>1, <2>3 DEF AccountParts, ToldOK
<1>6. CASE TellHall(r)
  <2>1. PICK uid :
         /\ uid = (IF req[r].op = "bind" \/ Lost(r) THEN req[r].uid ELSE unique_id[Target(r)])
         /\ ReqOK' /\ req[r].pc = "tell"
         /\ told' \in {told, [told EXCEPT ![Target(r)] = @ \cup {uid}]}
         /\ UNCHANGED <<accounts, unique_id, channel, bind_to, old_account, rushed, twice>>
    BY <1>0, <1>6, TellDoes
  <2>2. Target(r) \in Account
    BY <2>1, TargetType DEF Working
  <2>3. uid \in Uids
    BY <1>0, <2>1, <2>2, ReqFields DEF AccountRowsOK
  <2>4. ToldOK'
    BY <1>0, <2>1, <2>2, <2>3 DEF ToldOK
  <2> QED  BY <1>0, <2>1, <2>4 DEF AccountParts, AccountRowsOK
<1> QED  BY <1>1, <1>2, <1>3, <1>4, <1>5, <1>6 DEF RequestStep

(***************************************************************************)
(* Rows, step by step.                                                     *)
(***************************************************************************)

\* Who makes an account of a channel is still there, unless it has its id.
LEMMA StillBeingMade ==
  ASSUME RowInv, NEW r \in Request, Frame(r), UNCHANGED <<accounts, unique_id, channel>>,
         PcIn(r, {"look", "give"}) /\ req[r].op = "login" /\ ~ Lost(r)
            /\ unique_id[req[r].acc] = NoUid =>
           /\ req'[r].pc \in {"look", "give"} /\ req'[r].op = "login" /\ ~ Lost(r)'
           /\ req'[r].acc = req[r].acc /\ req'[r].raw = req[r].raw
  PROVE  ChannelIsBeingMade'
<1> SUFFICES ASSUME NEW a \in accounts, channel[a] # "", unique_id[a] = NoUid
             PROVE  \E q \in Request :
                      /\ req'[q].pc \in {"look", "give"} /\ req'[q].op = "login" /\ ~ Lost(q)'
                      /\ req'[q].acc = a /\ a \in req'[q].raw
  BY DEF ChannelIsBeingMade, PcIn
<1>1. PICK q \in Request : /\ PcIn(q, {"look", "give"}) /\ req[q].op = "login" /\ ~ Lost(q)
                           /\ req[q].acc = a /\ a \in req[q].raw
  BY DEF RowInv, ChannelIsBeingMade
<1>2. CASE q = r
  BY <1>1, <1>2
<1>3. CASE q # r
  BY <1>1, <1>3 DEF Frame, PcIn
<1> QED  BY <1>2, <1>3

\* The rows that were added stay as they are, and whose they are.
LEMMA AddersStay ==
  ASSUME RowInv, NEW r \in Request, Frame(r), UNCHANGED channel,
         Adder(r)' => Adder(r) /\ Target(r)' = Target(r)
  PROVE  OneAdder' /\ AddedIsOfNoChannel'
<1>1. \A q \in Request : Adder(q)' => Adder(q) /\ Target(q)' = Target(q)
  <2>1. \A q \in Request \ {r} : Adder(q)' => Adder(q) /\ Target(q)' = Target(q)
    BY DEF Frame, Adder, PcIn
  <2> QED  BY <2>1
<1>2. OneAdder'
  BY <1>1 DEF RowInv, OneAdder
<1>3. AddedIsOfNoChannel'
  BY <1>1 DEF RowInv, AddedIsOfNoChannel
<1> QED  BY <1>2, <1>3

LEMMA BegunKeepsRows ==
  ASSUME RowInv, NEW r \in Request, Begun(r) PROVE RowInv'
<1>0. /\ Fresh(r) /\ Frame(r) /\ ~ Lost(r)' /\ req[r].pc = "idle" /\ req'[r].acc \in Account
      /\ UNCHANGED <<accounts, unique_id, channel, bind_to, old_account, told>>
  BY DEF Begun, Fresh
<1>1. RequestsOK'
  BY <1>0 DEF Begun, RowInv, RequestsOK, Frame, PcIn, Working
<1>2. RawCovers'
  BY <1>0 DEF Begun, RowInv, RawCovers, Frame, PcIn, Working
<1>3. PastAddHasRow'
  BY <1>0 DEF Begun, RowInv, PastAddHasRow, Frame, PcIn
<1>4. RowlessIsBlank'
  BY <1>0 DEF RowInv, RowlessIsBlank
<1>5. req'[r].pc # "give"
  BY DEF Begun
<1>6. OneAdder' /\ AddedIsOfNoChannel'
  BY <1>0, <1>5, AddersStay DEF Adder, PcIn
<1>7. ChannelIsBeingMade'
  BY <1>0, StillBeingMade DEF PcIn
<1> QED  BY <1>1, <1>2, <1>3, <1>4, <1>6, <1>7 DEF RowInv

\* A request that ends leaves the rest as it is, unless it was making a row.
LEMMA FinishedKeepsRows ==
  ASSUME RowInv, NEW r \in Request, Finished(r), Frame(r),
         UNCHANGED <<accounts, unique_id, channel, old_account>>,
         \A a \in Account \ accounts : told'[a] = told[a],
         req[r].pc \notin {"look", "give"} \/ req[r].op # "login"
  PROVE  RowInv'
<1>1. RequestsOK' /\ RawCovers' /\ PastAddHasRow'
  <2>1. RequestsOK'
    BY DEF RowInv, RequestsOK, Frame, Finished, PcIn, Working
  <2>2. RawCovers'
    BY DEF RowInv, RawCovers, Frame, Finished, PcIn, Working
  <2>3. PastAddHasRow'
    BY DEF RowInv, PastAddHasRow, Frame, Finished, PcIn, Working
  <2> QED  BY <2>1, <2>2, <2>3
<1>2. RowlessIsBlank'
  BY DEF RowInv, RowlessIsBlank
<1>3. OneAdder' /\ AddedIsOfNoChannel'
  BY AddersStay DEF Adder, PcIn, Finished
<1>4. ChannelIsBeingMade'
  BY StillBeingMade DEF PcIn
<1> QED  BY <1>1, <1>2, <1>3, <1>4 DEF RowInv

LEMMA MarkKeepsRows ==
  ASSUME AccountParts, RowInv, NEW r \in Request, MarkOld(r) PROVE RowInv'
<1>0. /\ Frame(r) /\ GoesOn(r, "add") /\ Target(r)' = Target(r)
      /\ req[r].pc = "mark" /\ req[r].op = "bind" /\ ~ Lost(r)'
      /\ UNCHANGED <<accounts, unique_id, channel, old_account, told>>
  BY MarkDoes DEF AccountParts, RowInv
<1>1. RequestsOK' /\ RawCovers' /\ PastAddHasRow'
  <2>1. RequestsOK'
    BY <1>0 DEF RowInv, RequestsOK, Frame, GoesOn, PcIn, Working
  <2>2. RawCovers'
    BY <1>0 DEF RowInv, RawCovers, Frame, GoesOn, PcIn, Working
  <2>3. PastAddHasRow'
    BY <1>0 DEF RowInv, PastAddHasRow, Frame, GoesOn, PcIn, Working
  <2> QED  BY <2>1, <2>2, <2>3
<1>2. RowlessIsBlank'
  BY <1>0 DEF RowInv, RowlessIsBlank
<1>3. OneAdder' /\ AddedIsOfNoChannel'
  BY <1>0, AddersStay DEF Adder, PcIn, GoesOn
<1>4. ChannelIsBeingMade'
  BY <1>0, StillBeingMade DEF PcIn
<1> QED  BY <1>1, <1>2, <1>3, <1>4 DEF RowInv

LEMMA AddRowKeepsRows ==
  ASSUME AccountParts, RowInv, NEW r \in Request, AddRow(r) PROVE RowInv'
<1>0. /\ Frame(r) /\ req[r].pc = "add" /\ Target(r) \in Account
      /\ UNCHANGED <<unique_id, bind_to, old_account, told>>
      /\ AfterAdd(r) = IF req[r].op = "login" THEN "look" ELSE "give"
      /\ req[r].op \in {"register", "login", "bind"}
      /\ Target(r) \in req[r].raw
  BY AddRowDoes, TargetType, ReqFields DEF AccountParts, RowInv, Working, AfterAdd, RawCovers, PcIn
<1>1. CASE Finished(r) /\ UNCHANGED <<accounts, channel>>
  BY <1>0, <1>1, FinishedKeepsRows
<1>2. CASE /\ GoesOn(r, AfterAdd(r)) /\ Target(r)' = Target(r)
           /\ Target(r) \in accounts /\ Lost(r)'
           /\ UNCHANGED <<accounts, channel>>
  <2>1. RequestsOK' /\ RawCovers' /\ PastAddHasRow'
    <3>1. RequestsOK'
      BY <1>0, <1>2 DEF RowInv, RequestsOK, Frame, GoesOn, PcIn, Working
    <3>2. RawCovers'
      BY <1>0, <1>2 DEF RowInv, RawCovers, Frame, GoesOn, PcIn, Working
    <3>3. PastAddHasRow'
      BY <1>0, <1>2 DEF RowInv, PastAddHasRow, Frame, GoesOn, PcIn, Working
    <3> QED  BY <3>1, <3>2, <3>3
  <2>2. RowlessIsBlank'
    BY <1>0, <1>2 DEF RowInv, RowlessIsBlank
  <2>3. OneAdder' /\ AddedIsOfNoChannel'
    BY <1>0, <1>2, AddersStay DEF Adder
  <2>4. ChannelIsBeingMade'
    BY <1>0, <1>2, StillBeingMade DEF PcIn
  <2> QED  BY <2>1, <2>2, <2>3, <2>4 DEF RowInv
<1>3. CASE /\ GoesOn(r, AfterAdd(r)) /\ Target(r)' = Target(r)
           /\ Target(r) \notin accounts /\ ~ Lost(r)'
           /\ accounts' = accounts \cup {Target(r)}
           /\ channel' = [channel EXCEPT ![Target(r)] = IF req[r].op = "login" THEN req[r].ch ELSE @]
  <2> DEFINE a == Target(r)
  <2>1. RequestsOK' /\ RawCovers' /\ PastAddHasRow'
    <3>1. RequestsOK'
      BY <1>0, <1>3 DEF RowInv, RequestsOK, Frame, GoesOn, PcIn, Working
    <3>2. RawCovers'
      BY <1>0, <1>3 DEF RowInv, RawCovers, Frame, GoesOn, PcIn, Working
    <3>3. PastAddHasRow'
      BY <1>0, <1>3 DEF RowInv, PastAddHasRow, Frame, GoesOn, PcIn, Working
    <3> QED  BY <3>1, <3>2, <3>3
  <2>2. /\ channel'[Target(r)] = IF req[r].op = "login" THEN req[r].ch ELSE channel[Target(r)]
        /\ \A b \in Account : b # Target(r) => channel'[b] = channel[b]
    BY <1>0, <1>3 DEF AccountParts, AccountRowsOK
  <2>3. RowlessIsBlank'
    BY <1>0, <1>3, <2>2 DEF RowInv, RowlessIsBlank
  <2>4. \A q \in Request : Adder(q) => Target(q) # Target(r)
    BY <1>3 DEF RowInv, PastAddHasRow, Adder, PcIn
  <2>5. OneAdder'
    BY <1>0, <1>3, <2>4 DEF RowInv, OneAdder, Adder, PcIn, Frame
  <2>6. AddedIsOfNoChannel'
    <3> SUFFICES ASSUME NEW q \in Request, Adder(q)' PROVE channel'[Target(q)'] = ""
      BY DEF AddedIsOfNoChannel
    <3>1. CASE q = r
      <4>1. req[r].op # "login"
        BY <1>3, <3>1 DEF Adder, GoesOn
      <4>2. channel[Target(r)] = ""
        BY <1>0, <1>3 DEF RowInv, RowlessIsBlank
      <4> QED  BY <1>3, <2>2, <3>1, <4>1, <4>2
    <3>2. CASE q # r
      <4>1. Adder(q) /\ Target(q)' = Target(q)
        BY <1>0, <3>2 DEF Adder, PcIn, Frame
      <4>2. Target(q) \in Account
        BY <4>1, TargetType DEF RowInv, Adder, PcIn, Working
      <4> QED  BY <2>2, <2>4, <4>1, <4>2 DEF RowInv, AddedIsOfNoChannel
    <3> QED  BY <3>1, <3>2
  <2>7. ChannelIsBeingMade'
    <3> SUFFICES ASSUME NEW b \in accounts', channel'[b] # "", unique_id[b] = NoUid
                 PROVE  \E q \in Request :
                          /\ req'[q].pc \in {"look", "give"} /\ req'[q].op = "login" /\ ~ Lost(q)'
                          /\ req'[q].acc = b /\ b \in req'[q].raw
      BY <1>0 DEF ChannelIsBeingMade, PcIn
    <3>1. CASE b = Target(r)
      <4>1. channel[Target(r)] = ""
        BY <1>0, <1>3 DEF RowInv, RowlessIsBlank
      <4>2. req[r].op = "login"
        BY <2>2, <3>1, <4>1
      <4>3. Target(r) = req[r].acc
        BY <4>2 DEF Target
      <4> QED  BY <1>0, <1>3, <3>1, <4>2, <4>3 DEF GoesOn
    <3>2. CASE b # Target(r)
      <4>1. b \in accounts /\ channel[b] # ""
        BY <1>3, <2>2, <3>2 DEF AccountParts, AccountRowsOK
      <4>2. PICK q \in Request : /\ PcIn(q, {"look", "give"}) /\ req[q].op = "login" /\ ~ Lost(q)
                                 /\ req[q].acc = b /\ b \in req[q].raw
        BY <4>1 DEF RowInv, ChannelIsBeingMade
      <4>3. q # r
        BY <1>0, <4>2 DEF PcIn
      <4> QED  BY <1>0, <4>2, <4>3 DEF Frame, PcIn
    <3> QED  BY <3>1, <3>2
  <2> QED  BY <2>1, <2>3, <2>5, <2>6, <2>7 DEF RowInv
<1>4. ReqOK /\ RequestsOK
  BY DEF AccountParts, RowInv
<1> QED  BY <1>1, <1>2, <1>3, <1>4, AddRowDoes

LEMMA LookKeepsRows ==
  ASSUME AccountParts, RowInv, NEW r \in Request, LookForUid(r) PROVE RowInv'
<1>0. /\ Frame(r) /\ Target(r)' = Target(r) /\ (Lost(r)' <=> Lost(r))
      /\ req[r].pc = "look" /\ req[r].op = "login" /\ Target(r) = req[r].acc
      /\ GoesOn(r, IF Lost(r) \/ unique_id[req[r].acc] = NoUid THEN "give" ELSE "tell")
      /\ UNCHANGED <<accounts, unique_id, channel, bind_to, old_account, told>>
  BY LookDoes DEF AccountParts, RowInv
<1>1. RequestsOK' /\ RawCovers' /\ PastAddHasRow'
  <2>1. RequestsOK'
    BY <1>0 DEF RowInv, RequestsOK, Frame, GoesOn, PcIn, Working
  <2>2. RawCovers'
    BY <1>0 DEF RowInv, RawCovers, Frame, GoesOn, PcIn, Working
  <2>3. PastAddHasRow'
    BY <1>0 DEF RowInv, PastAddHasRow, Frame, GoesOn, PcIn, Working
  <2> QED  BY <2>1, <2>2, <2>3
<1>2. RowlessIsBlank'
  BY <1>0 DEF RowInv, RowlessIsBlank
<1>3. OneAdder' /\ AddedIsOfNoChannel'
  BY <1>0, AddersStay DEF Adder, PcIn, GoesOn
<1>4. ChannelIsBeingMade'
  BY <1>0, StillBeingMade DEF GoesOn
<1> QED  BY <1>1, <1>2, <1>3, <1>4 DEF RowInv

LEMMA GiveKeepsRows ==
  ASSUME AccountParts, RowInv, NEW r \in Request, GiveUid(r) PROVE RowInv'
<1>1. PICK uid \in Uids :
         /\ uid = (IF req[r].op = "bind" THEN req[r].uid ELSE r)
         /\ ReqOK' /\ Frame(r) /\ req[r].pc = "give"
         /\ IF Lost(r) THEN UNCHANGED <<unique_id, old_account, channel>>
            ELSE /\ unique_id' = [unique_id EXCEPT ![Target(r)] = uid]
                 /\ old_account' = [old_account EXCEPT ![Target(r)] =
                                      IF req[r].op = "bind" THEN req[r].acc ELSE @]
                 /\ channel' = [channel EXCEPT ![Target(r)] =
                                  IF req[r].op = "register" THEN req[r].ch ELSE @]
         /\ IF req[r].op = "register" THEN Finished(r)
            ELSE /\ GoesOn(r, "tell") /\ Target(r)' = Target(r) /\ (Lost(r)' <=> Lost(r))
                 /\ req'[r].uid = uid
         /\ UNCHANGED <<accounts, bind_to, told, rushed, twice>>
  BY GiveDoes DEF AccountParts
<1>2. /\ Target(r) \in Account /\ Target(r) \in accounts
      /\ req[r].op \in {"register", "login", "bind"}
      /\ req[r].op = "login" => Target(r) = req[r].acc
  BY <1>1, TargetType, ReqFields DEF AccountParts, RowInv, PastAddHasRow, Working, PcIn
<1>3. RequestsOK' /\ RawCovers' /\ PastAddHasRow'
  <2>1. CASE req[r].op = "register"
    BY <1>1, <2>1 DEF RowInv, RequestsOK, RawCovers, PastAddHasRow, Frame, Finished, PcIn, Working
  <2>2. CASE req[r].op # "register"
    BY <1>1, <2>2 DEF RowInv, RequestsOK, RawCovers, PastAddHasRow, Frame, GoesOn, PcIn, Working
  <2> QED  BY <2>1, <2>2
<1>4. \A a \in Account : a # Target(r) =>
        unique_id'[a] = unique_id[a] /\ channel'[a] = channel[a] /\ old_account'[a] = old_account[a]
  BY <1>1 DEF AccountParts, AccountRowsOK
<1>5. RowlessIsBlank'
  BY <1>1, <1>2, <1>4 DEF RowInv, RowlessIsBlank
<1>6. \A q \in Request : Adder(q)' => q # r /\ Adder(q) /\ Target(q)' = Target(q)
  BY <1>1 DEF Adder, PcIn, Frame, Finished, GoesOn
<1>7. OneAdder'
  BY <1>6 DEF RowInv, OneAdder
<1>8. AddedIsOfNoChannel'
  <2> SUFFICES ASSUME NEW q \in Request, Adder(q)' PROVE channel'[Target(q)'] = ""
    BY DEF AddedIsOfNoChannel
  <2>1. q # r /\ Adder(q) /\ Target(q)' = Target(q) /\ channel[Target(q)] = ""
    BY <1>6 DEF RowInv, AddedIsOfNoChannel
  <2>2. CASE channel' = channel
    BY <2>1, <2>2
  <2>3. CASE Target(q) # Target(r)
    <3>1. Target(q) \in Account
      BY <2>1, TargetType DEF RowInv, Adder, PcIn, Working
    <3> QED  BY <1>4, <2>1, <2>3, <3>1
  <2>4. CASE Target(q) = Target(r) /\ ~ Lost(r)
    <3>1. req[r].op = "login"
      BY <1>1, <2>1, <2>4 DEF RowInv, OneAdder, Adder, PcIn
    <3> QED  BY <1>1, <1>2, <2>1, <2>4, <3>1 DEF AccountParts, AccountRowsOK
  <2> QED  BY <1>1, <2>2, <2>3, <2>4
<1>9. ChannelIsBeingMade'
  <2>1. CASE Lost(r)
    BY <1>1, <2>1, StillBeingMade
  <2>2. CASE ~ Lost(r)
    <3>1. unique_id'[Target(r)] = uid
      BY <1>1, <1>2, <2>2 DEF AccountParts, AccountRowsOK
    <3>0. r # NoUid
      BY AccountsAssumption DEF Request, NoUid
    <3> SUFFICES ASSUME NEW a \in accounts, channel'[a] # "", unique_id'[a] = NoUid
                 PROVE  \E q \in Request :
                          /\ req'[q].pc \in {"look", "give"} /\ req'[q].op = "login" /\ ~ Lost(q)'
                          /\ req'[q].acc = a /\ a \in req'[q].raw
      BY <1>1 DEF ChannelIsBeingMade, PcIn
    <3>2. a \in Account
      BY DEF AccountParts, AccountRowsOK
    <3>3. CASE a = Target(r)
      <4>1. req[r].op = "bind"
        BY <1>1, <3>0, <3>1, <3>3
      <4>2. channel'[a] = channel[a] /\ channel[a] = ""
        BY <1>1, <1>2, <2>2, <3>3, <4>1 DEF AccountParts, AccountRowsOK, RowInv, AddedIsOfNoChannel, Adder, PcIn
      <4> QED  BY <4>2
    <3>4. CASE a # Target(r)
      <4>1. channel[a] # "" /\ unique_id[a] = NoUid
        BY <1>4, <3>2, <3>4
      <4>2. PICK q \in Request : /\ PcIn(q, {"look", "give"}) /\ req[q].op = "login" /\ ~ Lost(q)
                                 /\ req[q].acc = a /\ a \in req[q].raw
        BY <4>1 DEF RowInv, ChannelIsBeingMade
      <4>3. q # r
        BY <1>2, <3>4, <4>2
      <4> QED  BY <1>1, <4>2, <4>3 DEF Frame, PcIn
    <3> QED  BY <3>3, <3>4
  <2> QED  BY <2>1, <2>2
<1> QED  BY <1>3, <1>5, <1>7, <1>8, <1>9 DEF RowInv

LEMMA TellKeepsRows ==
  ASSUME AccountParts, RowInv, NEW r \in Request, TellHall(r) PROVE RowInv'
<1>1. PICK uid :
         /\ uid = (IF req[r].op = "bind" \/ Lost(r) THEN req[r].uid ELSE unique_id[Target(r)])
         /\ ReqOK' /\ Frame(r) /\ Finished(r) /\ req[r].pc = "tell"
         /\ told' \in {told, [told EXCEPT ![Target(r)] = @ \cup {uid}]}
         /\ UNCHANGED <<accounts, unique_id, channel, bind_to, old_account, rushed, twice>>
  BY TellDoes DEF AccountParts
<1>2. Target(r) \in accounts
  BY <1>1 DEF RowInv, PastAddHasRow, PcIn
<1>3. \A a \in Account \ accounts : told'[a] = told[a]
  BY <1>1, <1>2 DEF AccountParts, ToldOK
<1> QED  BY <1>1, <1>3, FinishedKeepsRows

LEMMA RowInvStep ==
  ASSUME AccountParts, RowInv, NEW r \in Request, RequestStep(r) PROVE RowInv'
<1>1. CASE Register(r) \/ Login(r) \/ BindNewAccount(r)
  BY <1>1, BegunIs, BegunKeepsRows
<1> QED  BY <1>1, MarkKeepsRows, AddRowKeepsRows, LookKeepsRows, GiveKeepsRows, TellKeepsRows DEF RequestStep

(***************************************************************************)
(* Who makes an account, step by step.                                     *)
(***************************************************************************)

\* Another request is alone as long as nobody touches its account.
LEMMA StaysAlone ==
  ASSUME NEW r \in Request, NEW q \in Request \ {r}, Frame(r), rushed \subseteq rushed', Alone(q),
         Target(q) \in accounts' <=> Target(q) \in accounts,
         unique_id'[Target(q)] = unique_id[Target(q)],
         old_account'[Target(q)] = old_account[Target(q)], told'[Target(q)] = told[Target(q)]
  PROVE  Alone(q)'
<1>1. req'[q] = req[q] /\ Target(q)' = Target(q) /\ (Lost(q)' <=> Lost(q))
  BY DEF Frame
<1> QED  BY <1>1 DEF Alone, Working, PcIn

\* Nothing of the rows changes, and a request keeps or loses what it makes.
LEMMA RowsStay ==
  ASSUME MakeInv, rushed \subseteq rushed', UNCHANGED <<unique_id, old_account, told>>
  PROVE  BoundHasUid' /\ ToldUidsHold'
BY DEF MakeInv, BoundHasUid, ToldUidsHold

LEMMA MakersStay ==
  ASSUME MakeInv, NEW r \in Request, Frame(r), UNCHANGED rushed,
         req'[r].raw \subseteq req[r].raw
  PROVE  OneMaker'
BY DEF MakeInv, OneMaker, Frame

LEMMA BegunKeepsMaker ==
  ASSUME AccountParts, RowInv, MakeInv, NEW r \in Request, Begun(r) PROVE MakeInv'
<1>0. /\ Frame(r) /\ ~ Lost(r)' /\ req[r].pc = "idle" /\ req'[r].acc \in Account /\ ReqOK'
      /\ rushed \subseteq rushed'
      /\ \A q \in Request, b \in Account : b \in req'[r].raw /\ b \in req[q].raw => b \in rushed'
      /\ UNCHANGED <<accounts, unique_id, channel, bind_to, old_account, told>>
  BY DEF Begun, Fresh
<1>1. OneMaker'
  BY <1>0 DEF MakeInv, OneMaker, Frame
<1>2. MakerAlone'
  <2>1. Alone(r)'
    BY <1>0 DEF Begun, Alone, PcIn
  <2>2. \A q \in Request \ {r} : Alone(q)'
    BY <1>0, StaysAlone DEF MakeInv, MakerAlone
  <2> QED  BY <2>1, <2>2 DEF MakerAlone
<1>3. ReadsTheUid'
  <2>1. ASSUME req'[r].op = "bind", unique_id[req'[r].acc] = NoUid PROVE req'[r].acc \in rushed'
    <3> DEFINE a == req'[r].acc
    <3>1. a \in accounts /\ channel[a] # "" /\ a \in req'[r].raw
      BY <2>1 DEF Begun
    <3>2. PICK q \in Request : a \in req[q].raw
      BY <2>1, <3>1 DEF RowInv, ChannelIsBeingMade
    <3> QED  BY <1>0, <3>1, <3>2
  <2>2. req'[r].op = "bind" => req'[r].pc = "mark"
    BY DEF Begun
  <2> QED  BY <1>0, <2>1, <2>2 DEF MakeInv, ReadsTheUid, Frame, PcIn
<1> QED  BY <1>0, <1>1, <1>2, <1>3, RowsStay DEF MakeInv

LEMMA MarkKeepsMaker ==
  ASSUME AccountParts, RowInv, MakeInv, NEW r \in Request, MarkOld(r) PROVE MakeInv'
<1>0. /\ Frame(r) /\ GoesOn(r, "add") /\ Target(r)' = Target(r)
      /\ req[r].pc = "mark" /\ req[r].op = "bind" /\ ~ Lost(r)'
      /\ req'[r].uid = unique_id[req[r].acc]
      /\ UNCHANGED <<accounts, unique_id, channel, old_account, told, rushed>>
  BY MarkDoes DEF AccountParts, RowInv
<1>1. OneMaker'
  BY <1>0, MakersStay DEF GoesOn
<1>2. MakerAlone'
  <2>1. Alone(r)'
    BY <1>0 DEF MakeInv, MakerAlone, Alone, Working, PcIn, GoesOn
  <2>2. \A q \in Request \ {r} : Alone(q)'
    BY <1>0, StaysAlone DEF MakeInv, MakerAlone
  <2> QED  BY <2>1, <2>2 DEF MakerAlone
<1>3. ReadsTheUid'
  BY <1>0 DEF MakeInv, ReadsTheUid, Frame, PcIn, GoesOn
<1> QED  BY <1>0, <1>1, <1>2, <1>3, RowsStay DEF MakeInv

LEMMA AddRowKeepsMaker ==
  ASSUME AccountParts, RowInv, MakeInv, NEW r \in Request, AddRow(r) PROVE MakeInv'
<1>0. /\ Frame(r) /\ req[r].pc = "add" /\ Target(r) \in Account
      /\ UNCHANGED <<unique_id, bind_to, old_account, told, rushed>>
      /\ AfterAdd(r) = IF req[r].op = "login" THEN "look" ELSE "give"
      /\ Target(r) \in req[r].raw
  BY AddRowDoes, TargetType, ReqFields DEF AccountParts, RowInv, Working, AfterAdd, RawCovers, PcIn
<1>1. CASE Finished(r) /\ UNCHANGED <<accounts, channel>>
  <2>1. OneMaker'
    BY <1>0, <1>1, MakersStay DEF Finished
  <2>2. Alone(r)'
    BY <1>1 DEF Alone, Working, Finished
  <2>3. \A q \in Request \ {r} : Alone(q)'
    BY <1>0, <1>1, StaysAlone DEF MakeInv, MakerAlone
  <2>4. ReadsTheUid'
    BY <1>0, <1>1 DEF MakeInv, ReadsTheUid, Frame, PcIn, Finished
  <2> QED  BY <1>0, <2>1, <2>2, <2>3, <2>4, RowsStay DEF MakeInv, MakerAlone
<1>2. CASE /\ GoesOn(r, AfterAdd(r)) /\ req'[r].uid = req[r].uid /\ Target(r)' = Target(r)
  <2>1. OneMaker'
    BY <1>0, <1>2, MakersStay DEF GoesOn
  <2>2. ReadsTheUid'
    BY <1>0, <1>2 DEF MakeInv, ReadsTheUid, Frame, PcIn, GoesOn
  <2>3. CASE Target(r) \in accounts /\ UNCHANGED <<accounts, channel>>
    <3>1. Target(r) \in rushed
      BY <1>0, <2>3 DEF MakeInv, MakerAlone, Alone, Working, PcIn
    <3>2. Alone(r)'
      BY <1>0, <1>2, <3>1 DEF Alone
    <3>3. \A q \in Request \ {r} : Alone(q)'
      BY <1>0, <2>3, StaysAlone DEF MakeInv, MakerAlone
    <3> QED  BY <1>0, <2>1, <2>2, <3>2, <3>3, RowsStay DEF MakeInv, MakerAlone
  <2>4. CASE /\ Target(r) \notin accounts /\ ~ Lost(r)'
             /\ accounts' = accounts \cup {Target(r)}
    <3>1. /\ unique_id[Target(r)] = NoUid /\ old_account[Target(r)] = NoAccount
          /\ told[Target(r)] = {}
      BY <1>0, <2>4 DEF RowInv, RowlessIsBlank
    <3>2. Alone(r)'
      BY <1>0, <1>2, <2>4, <3>1 DEF Alone, GoesOn, PcIn
    <3>3. ASSUME NEW q \in Request \ {r} PROVE Alone(q)'
      <4>1. CASE Target(q) # Target(r)
        BY <1>0, <2>4, <4>1, StaysAlone DEF MakeInv, MakerAlone
      <4>2. CASE Target(q) = Target(r) /\ Working(q) /\ Target(q) \notin rushed
        <5>1. ~ PcIn(q, {"mark", "add"}) /\ req[q].op # "bind"
          BY <1>0, <4>2 DEF RowInv, RawCovers, MakeInv, OneMaker
        <5>2. ~ PcIn(q, {"look", "give", "tell"})
          BY <2>4, <4>2 DEF RowInv, PastAddHasRow
        <5>3. req[q].pc \in {"idle", "add", "look", "give", "tell", "mark", "done"}
          BY ReqFields DEF AccountParts
        <5> QED  BY <4>2, <5>1, <5>2, <5>3 DEF Working, PcIn
      <4>3. CASE ~ Working(q) \/ Target(q) \in rushed
        BY <1>0, <4>3 DEF Alone, Working, Frame
      <4> QED  BY <4>1, <4>2, <4>3
    <3> QED  BY <1>0, <2>1, <2>2, <3>2, <3>3, RowsStay DEF MakeInv, MakerAlone
  <2> QED  BY <1>0, <1>2, <2>3, <2>4, AddRowDoes DEF AccountParts, RowInv, GoesOn, Finished
<1> QED  BY <1>1, <1>2, AddRowDoes DEF AccountParts, RowInv

LEMMA LookKeepsMaker ==
  ASSUME AccountParts, RowInv, MakeInv, NEW r \in Request, LookForUid(r) PROVE MakeInv'
<1>0. /\ Frame(r) /\ Target(r)' = Target(r) /\ (Lost(r)' <=> Lost(r))
      /\ req[r].pc = "look" /\ req[r].op = "login" /\ Target(r) = req[r].acc
      /\ GoesOn(r, IF Lost(r) \/ unique_id[req[r].acc] = NoUid THEN "give" ELSE "tell")
      /\ UNCHANGED <<accounts, unique_id, channel, bind_to, old_account, told, rushed>>
  BY LookDoes DEF AccountParts, RowInv
<1>1. OneMaker'
  BY <1>0, MakersStay DEF GoesOn
<1>2. MakerAlone'
  <2>1. Alone(r)'
    BY <1>0 DEF MakeInv, MakerAlone, Alone, Working, PcIn, GoesOn
  <2>2. \A q \in Request \ {r} : Alone(q)'
    BY <1>0, StaysAlone DEF MakeInv, MakerAlone
  <2> QED  BY <2>1, <2>2 DEF MakerAlone
<1>3. ReadsTheUid'
  BY <1>0 DEF MakeInv, ReadsTheUid, Frame, PcIn, GoesOn
<1> QED  BY <1>0, <1>1, <1>2, <1>3, RowsStay DEF MakeInv

\* The id that is given: to a lost row, or one that others make too, nothing
\* said changes; otherwise it is the first one.
LEMMA GiveKeepsMaker ==
  ASSUME AccountParts, RowInv, MakeInv, NEW r \in Request, GiveUid(r) PROVE MakeInv'
<1>1. PICK uid \in Uids :
         /\ uid = (IF req[r].op = "bind" THEN req[r].uid ELSE r)
         /\ ReqOK' /\ Frame(r) /\ req[r].pc = "give"
         /\ IF Lost(r) THEN UNCHANGED <<unique_id, old_account, channel>>
            ELSE /\ unique_id' = [unique_id EXCEPT ![Target(r)] = uid]
                 /\ old_account' = [old_account EXCEPT ![Target(r)] =
                                      IF req[r].op = "bind" THEN req[r].acc ELSE @]
                 /\ channel' = [channel EXCEPT ![Target(r)] =
                                  IF req[r].op = "register" THEN req[r].ch ELSE @]
         /\ IF req[r].op = "register" THEN Finished(r)
            ELSE /\ GoesOn(r, "tell") /\ Target(r)' = Target(r) /\ (Lost(r)' <=> Lost(r))
                 /\ req'[r].uid = uid
         /\ UNCHANGED <<accounts, bind_to, told, rushed, twice>>
  BY GiveDoes DEF AccountParts
<1>2. /\ Target(r) \in Account /\ Working(r)
      /\ req[r].op \in {"register", "login", "bind"}
  BY <1>1, TargetType, ReqFields DEF AccountParts, RowInv, Working
<1>3. \A a \in Account : a # Target(r) =>
        unique_id'[a] = unique_id[a] /\ old_account'[a] = old_account[a]
  BY <1>1 DEF AccountParts, AccountRowsOK
<1>4. OneMaker'
  BY <1>1, MakersStay DEF GoesOn, Finished
<1>5. ASSUME NEW q \in Request \ {r}, Working(q), Target(q) = Target(r), Target(r) \notin rushed
      PROVE  FALSE
  <2>1. Target(r) \in req[r].raw /\ unique_id[Target(r)] = NoUid
    BY <1>1, <1>2, <1>5 DEF MakeInv, MakerAlone, Alone, PcIn
  <2>2. Target(r) \notin req[q].raw
    BY <1>2, <1>5, <2>1 DEF MakeInv, OneMaker
  <2>3. ~ PcIn(q, {"mark", "add"}) /\ req[q].op \notin {"bind", "register"}
    BY <1>5, <2>2 DEF RowInv, RawCovers
  <2>4. ~ PcIn(q, {"look", "give"}) /\ ~ (PcIn(q, {"tell"}) /\ req[q].op = "login")
    BY <1>5, <2>1, <2>2 DEF MakeInv, MakerAlone, Alone, PcIn
  <2>5. /\ req[q].pc \in {"idle", "add", "look", "give", "tell", "mark", "done"}
        /\ req[q].op \in {"register", "login", "bind"}
    BY ReqFields DEF AccountParts
  <2> QED  BY <1>5, <2>3, <2>4, <2>5 DEF Working, PcIn
<1>6. ASSUME NEW q \in Request \ {r} PROVE Alone(q)'
  <2>1. CASE Working(q) /\ Target(q) \notin rushed
    <3>1. Target(q) \in Account /\ Target(q) # Target(r)
      BY <1>5, <2>1, TargetType DEF RowInv
    <3>2. unique_id'[Target(q)] = unique_id[Target(q)] /\ old_account'[Target(q)] = old_account[Target(q)]
      BY <1>3, <3>1
    <3> QED  BY <1>1, <3>2, StaysAlone DEF MakeInv, MakerAlone
  <2>2. CASE ~ Working(q) \/ Target(q) \in rushed
    BY <1>1, <2>2 DEF Alone, Working, Frame
  <2> QED  BY <2>1, <2>2
<1>7. ~ Lost(r) => /\ unique_id'[Target(r)] = uid
                   /\ old_account'[Target(r)] = IF req[r].op = "bind" THEN req[r].acc
                                                ELSE old_account[Target(r)]
  BY <1>1, <1>2 DEF AccountParts, AccountRowsOK
<1>8. Lost(r) => Target(r) \in rushed
  BY <1>2 DEF MakeInv, MakerAlone, Alone
<1>9. r # NoUid
  BY AccountsAssumption DEF Request, NoUid
<1>10. Alone(r)'
  <2>1. CASE req[r].op = "register"
    BY <1>1, <2>1 DEF Finished, Alone, Working
  <2>2. CASE req[r].op # "register" /\ Target(r) \in rushed
    BY <1>1, <2>2 DEF Alone
  <2>3. CASE req[r].op # "register" /\ Target(r) \notin rushed
    BY <1>1, <1>7, <1>8, <1>9, <2>3 DEF Alone, PcIn, GoesOn
  <2> QED  BY <2>1, <2>2, <2>3
<1>11. Target(r) \notin rushed =>
         /\ unique_id[Target(r)] = NoUid
         /\ req[r].op = "bind" => told[Target(r)] = {} /\ old_account[Target(r)] = NoAccount
  BY <1>1, <1>2 DEF MakeInv, MakerAlone, Alone, PcIn
<1>12. ASSUME req[r].op = "bind", req[r].acc \notin rushed
       PROVE  /\ uid = unique_id[req[r].acc] /\ uid # NoUid
              /\ req[r].acc \in Account /\ req[r].acc # Target(r)
  BY <1>1, <1>12 DEF MakeInv, ReadsTheUid, PcIn, RowInv, RequestsOK, Target, Working
<1>13. ReadsTheUid'
  <2> SUFFICES ASSUME NEW q \in Request, req'[q].op = "bind", req'[q].acc \notin rushed
               PROVE  /\ unique_id'[req'[q].acc] # NoUid
                      /\ req'[q].pc # "mark" => req'[q].uid = unique_id'[req'[q].acc]
    BY <1>1 DEF ReadsTheUid, PcIn
  <2>1. CASE q = r
    <3>1. req[r].op = "bind" /\ req'[r].acc = req[r].acc /\ req'[r].uid = uid
      BY <1>1, <2>1 DEF GoesOn, Finished
    <3> QED  BY <1>3, <1>12, <2>1, <3>1
  <2>2. CASE q # r
    <3>1. req'[q] = req[q]
      BY <1>1, <2>2 DEF Frame
    <3>2. /\ unique_id[req[q].acc] # NoUid
          /\ req[q].pc # "mark" => req[q].uid = unique_id[req[q].acc]
      BY <3>1 DEF MakeInv, ReadsTheUid, PcIn
    <3>3. req[q].acc \in Account
      BY <3>1 DEF RowInv, RequestsOK
    <3>4. req[q].acc # Target(r)
      BY <1>11, <3>1, <3>2
    <3> QED  BY <1>3, <3>1, <3>2, <3>3, <3>4
  <2> QED  BY <2>1, <2>2
<1>14. BoundHasUid'
  <2> SUFFICES ASSUME NEW b \in Account, old_account'[b] # NoAccount,
                      old_account'[b] \notin rushed, b \notin rushed
               PROVE  unique_id'[b] = unique_id'[old_account'[b]] /\ unique_id'[b] # NoUid
    BY <1>1 DEF BoundHasUid
  <2>1. CASE old_account'[b] = old_account[b]
    <3>1. unique_id[b] = unique_id[old_account[b]] /\ unique_id[b] # NoUid
      BY <2>1 DEF MakeInv, BoundHasUid
    <3>2. b # Target(r) /\ old_account[b] # Target(r)
      BY <1>11, <2>1, <3>1
    <3>3. old_account[b] \in Account
      BY <2>1 DEF AccountParts, AccountRowsOK
    <3> QED  BY <1>3, <2>1, <3>1, <3>2, <3>3
  <2>2. CASE old_account'[b] # old_account[b]
    <3>1. b = Target(r)
      BY <1>3, <2>2
    <3>2. ~ Lost(r)
      BY <1>8, <3>1
    <3>3. req[r].op = "bind" /\ old_account'[b] = req[r].acc
      BY <1>7, <2>2, <3>1, <3>2
    <3> QED  BY <1>3, <1>7, <1>12, <3>1, <3>2, <3>3
  <2> QED  BY <2>1, <2>2
<1>15. ToldUidsHold'
  <2> SUFFICES ASSUME NEW a \in Account, old_account'[a] \notin rushed, a \notin rushed
               PROVE  told[a] \subseteq {unique_id'[a]} \ {NoUid}
    BY <1>1 DEF ToldUidsHold
  <2>1. CASE old_account'[a] = old_account[a]
    <3>1. told[a] \subseteq {unique_id[a]} \ {NoUid}
      BY <2>1 DEF MakeInv, ToldUidsHold
    <3> QED  BY <1>3, <1>11, <3>1
  <2>2. CASE old_account'[a] # old_account[a]
    <3>1. a = Target(r)
      BY <1>3, <2>2
    <3>2. req[r].op = "bind"
      BY <1>7, <1>8, <2>2, <3>1
    <3> QED  BY <1>11, <3>1, <3>2
  <2> QED  BY <2>1, <2>2
<1> QED  BY <1>4, <1>6, <1>10, <1>13, <1>14, <1>15 DEF MakeInv, MakerAlone

\* What a hall is told of an account nobody else made is its unique id.
LEMMA TellKeepsMaker ==
  ASSUME AccountParts, RowInv, MakeInv, NEW r \in Request, TellHall(r) PROVE MakeInv'
<1>1. PICK uid :
         /\ uid = (IF req[r].op = "bind" \/ Lost(r) THEN req[r].uid ELSE unique_id[Target(r)])
         /\ ReqOK' /\ Frame(r) /\ Finished(r) /\ req[r].pc = "tell"
         /\ told' \in {told, [told EXCEPT ![Target(r)] = @ \cup {uid}]}
         /\ UNCHANGED <<accounts, unique_id, channel, bind_to, old_account, rushed, twice>>
  BY TellDoes DEF AccountParts
<1>2. /\ Target(r) \in Account /\ Working(r)
      /\ req[r].op \in {"login", "bind"}
  BY <1>1, TargetType, ReqFields DEF AccountParts, RowInv, Working, RequestsOK, PcIn
<1>3. \A a \in Account : a # Target(r) => told'[a] = told[a]
  BY <1>1 DEF AccountParts, ToldOK
<1>4. told'[Target(r)] \subseteq told[Target(r)] \cup {uid}
  BY <1>1, <1>2 DEF AccountParts, ToldOK
<1>5. OneMaker'
  BY <1>1, MakersStay DEF Finished
<1>6. Alone(r)'
  BY <1>1 DEF Alone, Working, Finished
<1>7. Target(r) \notin rushed =>
        /\ ~ Lost(r)
        /\ req[r].op = "login" => unique_id[Target(r)] # NoUid
        /\ req[r].op = "bind" => /\ unique_id[Target(r)] = req[r].uid
                                 /\ old_account[Target(r)] = req[r].acc
  BY <1>1, <1>2 DEF MakeInv, MakerAlone, Alone, PcIn
<1>8. ASSUME NEW q \in Request \ {r} PROVE Alone(q)'
  <2>1. CASE Working(q) /\ Target(q) \notin rushed /\ Target(q) # Target(r)
    <3>1. Target(q) \in Account
      BY <2>1, TargetType DEF RowInv
    <3>2. told'[Target(q)] = told[Target(q)]
      BY <1>3, <2>1, <3>1
    <3> QED  BY <1>1, <3>2, StaysAlone DEF MakeInv, MakerAlone
  <2>2. CASE Working(q) /\ Target(q) \notin rushed /\ Target(q) = Target(r)
    <3>1. ~ PcIn(q, {"give"})
      <4> SUFFICES ASSUME PcIn(q, {"give"}) PROVE FALSE
        OBVIOUS
      <4>1. Target(r) \in req[q].raw /\ unique_id[Target(r)] = NoUid
        BY <2>2 DEF MakeInv, MakerAlone, Alone
      <4>2. req[r].op = "bind"
        BY <1>2, <1>7, <2>2, <4>1
      <4>3. Target(r) \in req[r].raw
        BY <4>2 DEF RowInv, RawCovers
      <4> QED  BY <1>2, <2>2, <4>1, <4>3 DEF MakeInv, OneMaker
    <3>2. Alone(q)
      BY DEF MakeInv, MakerAlone
    <3> QED  BY <1>1, <3>1, <3>2 DEF Alone, Working, PcIn, Frame
  <2>3. CASE ~ Working(q) \/ Target(q) \in rushed
    BY <1>1, <2>3 DEF Alone, Working, Frame
  <2> QED  BY <2>1, <2>2, <2>3
<1>9. ReadsTheUid'
  BY <1>1 DEF MakeInv, ReadsTheUid, Frame, PcIn, Finished
<1>10. BoundHasUid'
  BY <1>1 DEF MakeInv, BoundHasUid
<1>11. ToldUidsHold'
  <2> SUFFICES ASSUME NEW a \in Account, old_account[a] \notin rushed, a \notin rushed
               PROVE  told'[a] \subseteq {unique_id[a]} \ {NoUid}
    BY <1>1 DEF ToldUidsHold
  <2>1. told[a] \subseteq {unique_id[a]} \ {NoUid}
    BY DEF MakeInv, ToldUidsHold
  <2>2. CASE a # Target(r)
    BY <1>3, <2>1, <2>2
  <2>3. CASE a = Target(r)
    <3>1. uid = unique_id[a]
      BY <1>1, <1>2, <1>7, <2>3
    <3>2. uid # NoUid
      <4>1. CASE req[r].op = "login"
        BY <1>7, <2>3, <3>1, <4>1
      <4>2. CASE req[r].op = "bind"
        BY <1>1, <1>7, <2>3, <4>2 DEF MakeInv, ReadsTheUid, PcIn
      <4> QED  BY <1>2, <4>1, <4>2
    <3> QED  BY <1>4, <2>1, <2>3, <3>1, <3>2
  <2> QED  BY <2>2, <2>3
<1> QED  BY <1>5, <1>6, <1>8, <1>9, <1>10, <1>11 DEF MakeInv, MakerAlone

LEMMA MakeInvStep ==
  ASSUME AccountParts, RowInv, MakeInv, NEW r \in Request, RequestStep(r) PROVE MakeInv'
<1>1. CASE Register(r) \/ Login(r) \/ BindNewAccount(r)
  BY <1>1, BegunIs, BegunKeepsMaker
<1> QED  BY <1>1, MarkKeepsMaker, AddRowKeepsMaker, LookKeepsMaker, GiveKeepsMaker, TellKeepsMaker
         DEF RequestStep

(***************************************************************************)
(* Bindings, step by step.                                                 *)
(***************************************************************************)

\* A channel, once set, stays: a registration sets that of a row it has added.
ChannelsStay == \A a \in Account : channel[a] # "" => channel'[a] = channel[a]

LEMMA ChannelsAreKept ==
  ASSUME AccountParts, RowInv, NEW r \in Request, RequestStep(r) PROVE ChannelsStay
<1> USE DEF ChannelsStay
<1>1. CASE Register(r) \/ Login(r) \/ BindNewAccount(r)
  BY <1>1, BegunIs DEF Begun, Fresh
<1>2. CASE MarkOld(r) \/ LookForUid(r) \/ TellHall(r)
  BY <1>2 DEF MarkOld, LookForUid, TellHall
<1>3. CASE AddRow(r)
  <2>1. CASE UNCHANGED channel
    BY <2>1
  <2>2. CASE Target(r) \notin accounts /\ channel' = [channel EXCEPT ![Target(r)] =
                                                   IF req[r].op = "login" THEN req[r].ch ELSE @]
    BY <2>2 DEF AccountParts, AccountRowsOK, RowInv, RowlessIsBlank
  <2> QED  BY <1>3, <2>1, <2>2, AddRowDoes DEF AccountParts, RowInv
<1>4. CASE GiveUid(r)
  <2>1. /\ req[r].pc = "give"
        /\ \/ UNCHANGED channel
           \/ /\ ~ Lost(r)
              /\ channel' = [channel EXCEPT ![Target(r)] =
                               IF req[r].op = "register" THEN req[r].ch ELSE @]
    BY <1>4, GiveDoes DEF AccountParts
  <2>2. CASE UNCHANGED channel
    BY <2>2
  <2>3. CASE ~ Lost(r) /\ channel' = [channel EXCEPT ![Target(r)] =
                                        IF req[r].op = "register" THEN req[r].ch ELSE @]
    <3>1. req[r].op = "register" => channel[Target(r)] = ""
      BY <2>1, <2>3 DEF RowInv, AddedIsOfNoChannel, Adder, PcIn
    <3> QED  BY <2>3, <3>1 DEF AccountParts, AccountRowsOK
  <2> QED  BY <2>1, <2>2, <2>3
<1> QED  BY <1>1, <1>2, <1>3, <1>4 DEF RequestStep

\* A request that does not begin and does not mark leaves who binds what.
LEMMA BindersStay ==
  ASSUME RowInv, BindInv, NEW r \in Request, Frame(r), UNCHANGED <<bind_to, twice>>,
         ChannelsStay,
         req[r].pc # "mark", req'[r].op = "bind" => req[r].op = "bind" /\ req'[r].acc = req[r].acc
  PROVE  BinderHasChannel' /\ BinderMarks' /\ OneBinder'
<1>1. \A q \in Request : req'[q].op = "bind" => req[q].op = "bind" /\ req'[q].acc = req[q].acc
  BY DEF Frame
<1>2. \A q \in Request : req[q].op = "bind" => req[q].acc \in Account
  BY DEF RowInv, RequestsOK
<1>3. BinderHasChannel'
  BY <1>1, <1>2 DEF BindInv, BinderHasChannel, ChannelsStay
<1>4. BinderMarks'
  BY <1>1, <1>2 DEF BindInv, BinderMarks, Frame, PcIn
<1>5. OneBinder'
  BY <1>1 DEF BindInv, OneBinder
<1> QED  BY <1>3, <1>4, <1>5

\* When no row is bound either, nothing is said of one.
LEMMA BoundStay ==
  ASSUME AccountParts, RowInv, BindInv, NEW r \in Request, Frame(r),
         UNCHANGED <<bind_to, old_account, twice>>,
         ChannelsStay,
         req'[r].op = "bind" => req[r].op = "bind" /\ req'[r].acc = req[r].acc,
         req'[r].op = "bind" /\ PcIn(r, {"mark", "add", "give"})' => PcIn(r, {"mark", "add", "give"})
  PROVE  BoundHasChannel' /\ GuestIsFree' /\ GuestBindsOne'
<1>1. \A b \in Account : old_account[b] # NoAccount => old_account[b] \in Account
  BY DEF AccountParts, AccountRowsOK
<1>2. BoundHasChannel'
  BY <1>1 DEF BindInv, BoundHasChannel, ChannelsStay
<1>3. GuestIsFree'
  <2> SUFFICES ASSUME NEW q \in Request, req'[q].op = "bind", PcIn(q, {"mark", "add", "give"})',
                      req'[q].acc \notin twice, channel'[req'[q].acc] = "guest",
                      NEW b \in Account, old_account[b] = req'[q].acc
               PROVE  FALSE
    BY DEF GuestIsFree
  <2>1. req[q].op = "bind" /\ req'[q].acc = req[q].acc /\ PcIn(q, {"mark", "add", "give"})
    BY DEF Frame, PcIn
  <2>2. channel[req[q].acc] # "" /\ req[q].acc \in Account
    BY <2>1 DEF BindInv, BinderHasChannel, RowInv, RequestsOK
  <2> QED  BY <2>1, <2>2 DEF BindInv, GuestIsFree, ChannelsStay
<1>4. GuestBindsOne'
  <2> SUFFICES ASSUME NEW a \in Account, a \notin twice, channel'[a] = "guest", NEW b \in Account,
                      NEW c \in Account, old_account[b] = a, old_account[c] = a
               PROVE  b = c
    BY DEF GuestBindsOne
  <2>1. a # NoAccount
    BY AccountsAssumption
  <2>2. channel[a] # ""
    BY <2>1 DEF BindInv, BoundHasChannel
  <2>3. channel[a] = "guest"
    BY <2>2 DEF ChannelsStay
  <2> QED  BY <2>3 DEF BindInv, GuestBindsOne
<1> QED  BY <1>2, <1>3, <1>4

\* The mark of an account stands for a binding under way, or for one that is done.
LEMMA MarksStay ==
  ASSUME BindInv, NEW r \in Request, Frame(r), rushed \subseteq rushed',
         UNCHANGED <<bind_to, old_account>>,
         req[r].op = "bind" /\ PcIn(r, {"add", "give"}) =>
           \/ req[r].new \in rushed
           \/ /\ req'[r].op = "bind" /\ req'[r].acc = req[r].acc /\ req'[r].new = req[r].new
              /\ PcIn(r, {"add", "give"})'
  PROVE  BoundAccountsExist'
<1> SUFFICES ASSUME NEW a \in Account, bind_to[a] # NoAccount, bind_to[a] \notin rushed',
                    old_account[bind_to[a]] # a
             PROVE  \E q \in Request : /\ req'[q].op = "bind" /\ req'[q].pc \in {"add", "give"}
                                       /\ req'[q].acc = a /\ req'[q].new = bind_to[a]
  BY DEF BoundAccountsExist
<1>1. PICK q \in Request : /\ req[q].op = "bind" /\ req[q].pc \in {"add", "give"}
                           /\ req[q].acc = a /\ req[q].new = bind_to[a]
  BY DEF BindInv, BoundAccountsExist
<1>2. CASE q = r
  BY <1>1, <1>2 DEF PcIn
<1>3. CASE q # r
  BY <1>1, <1>3 DEF Frame
<1> QED  BY <1>2, <1>3

LEMMA BegunKeepsBindings ==
  ASSUME AccountParts, RowInv, BindInv, NEW r \in Request,
         Register(r) \/ Login(r) \/ BindNewAccount(r)
  PROVE  BindInv'
<1>0. /\ Frame(r) /\ req[r].pc = "idle" /\ req'[r].acc \in Account
      /\ rushed \subseteq rushed'
      /\ UNCHANGED <<accounts, unique_id, channel, bind_to, old_account, told>>
  BY BegunIs DEF Begun, Fresh
<1>1. BoundHasChannel'
  BY <1>0 DEF BindInv, BoundHasChannel
<1>2. BoundAccountsExist'
  BY <1>0, MarksStay DEF PcIn
<1>3. CASE twice' = twice /\ req'[r].op # "bind"
  <2>1. \A q \in Request : req'[q].op = "bind" => req'[q] = req[q]
    BY <1>0, <1>3 DEF Frame
  <2>2. BinderHasChannel'
    BY <1>0, <2>1 DEF BindInv, BinderHasChannel
  <2>3. BinderMarks'
    BY <1>0, <2>1 DEF BindInv, BinderMarks, PcIn
  <2>4. OneBinder'
    BY <1>0, <1>3, <2>1 DEF BindInv, OneBinder
  <2>5. GuestIsFree'
    BY <1>0, <1>3, <2>1 DEF BindInv, GuestIsFree, PcIn
  <2>6. GuestBindsOne'
    BY <1>0, <1>3 DEF BindInv, GuestBindsOne
  <2> QED  BY <1>1, <1>2, <2>2, <2>3, <2>4, <2>5, <2>6 DEF BindInv
<1>4. CASE /\ BindNewAccount(r) /\ twice \subseteq twice' /\ twice' \subseteq Account
           /\ channel[req'[r].acc] = "guest" => bind_to[req'[r].acc] = NoAccount
           /\ \A q \in Request : req[q].op = "bind" /\ req[q].acc = req'[r].acc
                                   => req'[r].acc \in twice'
  <2>1. req'[r].pc = "mark" /\ channel[req'[r].acc] # ""
    BY <1>4, BindDoes DEF AccountParts
  <2>2. BinderHasChannel'
    BY <1>0, <2>1 DEF BindInv, BinderHasChannel, Frame
  <2>3. BinderMarks'
    BY <1>0, <2>1 DEF BindInv, BinderMarks, PcIn, Frame
  <2>4. OneBinder'
    BY <1>0, <1>4 DEF BindInv, OneBinder, Frame
  <2>5. channel[req'[r].acc] = "guest" => \A b \in Account : old_account[b] # req'[r].acc
    BY <1>0, <1>4, AccountsAssumption DEF BindInv, BoundHasChannel
  <2>6. GuestIsFree'
    BY <1>0, <1>4, <2>5 DEF BindInv, GuestIsFree, PcIn, Frame
  <2>7. GuestBindsOne'
    BY <1>0, <1>4 DEF BindInv, GuestBindsOne
  <2> QED  BY <1>1, <1>2, <2>2, <2>3, <2>4, <2>6, <2>7 DEF BindInv
<1> QED  BY <1>3, <1>4, BegunIs

LEMMA MarkKeepsBindings ==
  ASSUME AccountParts, RowInv, BindInv, NEW r \in Request, MarkOld(r) PROVE BindInv'
<1>0. /\ Frame(r) /\ GoesOn(r, "add")
      /\ req[r].pc = "mark" /\ req[r].op = "bind"
      /\ bind_to' = [bind_to EXCEPT ![req[r].acc] = req[r].new]
      /\ UNCHANGED <<accounts, unique_id, channel, old_account, told, rushed, twice>>
  BY MarkDoes DEF AccountParts, RowInv
<1>1. req[r].acc \in Account /\ req[r].new \in Account /\ req[r].new # NoAccount
  BY <1>0, AccountsAssumption DEF RowInv, RequestsOK, Working
<1>2. /\ bind_to'[req[r].acc] = req[r].new
      /\ \A a \in Account : a # req[r].acc => bind_to'[a] = bind_to[a]
  BY <1>0, <1>1 DEF AccountParts, AccountRowsOK
<1>3. \A q \in Request : /\ req'[q].op = req[q].op /\ req'[q].acc = req[q].acc
                         /\ req'[q].new = req[q].new
                         /\ q # r => req'[q].pc = req[q].pc
  BY <1>0 DEF Frame, GoesOn
<1>4. BinderHasChannel'
  BY <1>0, <1>3 DEF BindInv, BinderHasChannel
<1>5. BoundHasChannel'
  <2>1. \A b \in Account : old_account[b] # NoAccount => old_account[b] \in Account
    BY DEF AccountParts, AccountRowsOK
  <2> QED  BY <1>0, <1>1, <1>2, <2>1 DEF BindInv, BoundHasChannel
<1>6. BinderMarks'
  <2>1. \A q \in Request : req[q].op = "bind" => req[q].acc \in Account
    BY DEF RowInv, RequestsOK
  <2> QED  BY <1>1, <1>2, <1>3, <2>1 DEF BindInv, BinderMarks, PcIn
<1>7. OneBinder'
  BY <1>0, <1>3 DEF BindInv, OneBinder
<1>8. GuestIsFree'
  BY <1>0, <1>3 DEF BindInv, GuestIsFree, PcIn
<1>9. GuestBindsOne'
  BY <1>0 DEF BindInv, GuestBindsOne
<1>10. BoundAccountsExist'
  <2> SUFFICES ASSUME NEW a \in Account, bind_to'[a] # NoAccount, bind_to'[a] \notin rushed,
                      old_account[bind_to'[a]] # a
               PROVE  \E q \in Request : /\ req'[q].op = "bind" /\ req'[q].pc \in {"add", "give"}
                                         /\ req'[q].acc = a /\ req'[q].new = bind_to'[a]
    BY <1>0 DEF BoundAccountsExist
  <2>1. CASE a = req[r].acc
    BY <1>0, <1>2, <1>3, <2>1 DEF GoesOn
  <2>2. CASE a # req[r].acc
    <3>1. PICK q \in Request : /\ req[q].op = "bind" /\ req[q].pc \in {"add", "give"}
                               /\ req[q].acc = a /\ req[q].new = bind_to[a]
      BY <1>2, <2>2 DEF BindInv, BoundAccountsExist
    <3> QED  BY <1>2, <1>3, <2>2, <3>1
  <2> QED  BY <2>1, <2>2
<1> QED  BY <1>4, <1>5, <1>6, <1>7, <1>8, <1>9, <1>10 DEF BindInv

LEMMA AddRowKeepsBindings ==
  ASSUME AccountParts, RowInv, MakeInv, BindInv, NEW r \in Request, AddRow(r) PROVE BindInv'
<1>0. /\ Frame(r) /\ req[r].pc = "add" /\ Working(r)
      /\ UNCHANGED <<unique_id, bind_to, old_account, told, rushed, twice>>
      /\ AfterAdd(r) = IF req[r].op = "login" THEN "look" ELSE "give"
      /\ \/ Finished(r) /\ Target(r) \in accounts
         \/ GoesOn(r, AfterAdd(r))
  BY AddRowDoes DEF AccountParts, RowInv, AfterAdd, Working
<1>1. ChannelsStay
  BY ChannelsAreKept DEF RequestStep
<1>2. BinderHasChannel' /\ BinderMarks' /\ OneBinder'
  BY <1>0, <1>1, BindersStay DEF Finished, GoesOn
<1>3. BoundHasChannel' /\ GuestIsFree' /\ GuestBindsOne'
  BY <1>0, <1>1, BoundStay DEF Finished, GoesOn, PcIn
<1>4. Finished(r) /\ Target(r) \in accounts /\ req[r].op = "bind" => req[r].new \in rushed
  BY <1>0 DEF MakeInv, MakerAlone, Alone, PcIn, Target
<1>5. BoundAccountsExist'
  BY <1>0, <1>4, MarksStay DEF GoesOn, PcIn
<1> QED  BY <1>2, <1>3, <1>5 DEF BindInv

LEMMA LookKeepsBindings ==
  ASSUME AccountParts, RowInv, BindInv, NEW r \in Request, LookForUid(r) PROVE BindInv'
<1>0. /\ Frame(r) /\ req[r].pc = "look" /\ req[r].op = "login" /\ req'[r].op = "login"
      /\ UNCHANGED <<accounts, unique_id, channel, bind_to, old_account, told, rushed, twice>>
  BY LookDoes DEF AccountParts, RowInv, GoesOn
<1>1. ChannelsStay
  BY ChannelsAreKept DEF RequestStep
<1>2. BinderHasChannel' /\ BinderMarks' /\ OneBinder'
  BY <1>0, <1>1, BindersStay
<1>3. BoundHasChannel' /\ GuestIsFree' /\ GuestBindsOne'
  BY <1>0, <1>1, BoundStay
<1>4. BoundAccountsExist'
  BY <1>0, MarksStay
<1> QED  BY <1>2, <1>3, <1>4 DEF BindInv

LEMMA TellKeepsBindings ==
  ASSUME AccountParts, RowInv, BindInv, NEW r \in Request, TellHall(r) PROVE BindInv'
<1>0. /\ Frame(r) /\ req[r].pc = "tell" /\ req'[r].op = "login"
      /\ UNCHANGED <<accounts, unique_id, channel, bind_to, old_account, rushed, twice>>
  BY TellDoes DEF AccountParts, Finished
<1>1. ChannelsStay
  BY ChannelsAreKept DEF RequestStep
<1>2. BinderHasChannel' /\ BinderMarks' /\ OneBinder'
  BY <1>0, <1>1, BindersStay
<1>3. BoundHasChannel' /\ GuestIsFree' /\ GuestBindsOne'
  BY <1>0, <1>1, BoundStay DEF PcIn
<1>4. BoundAccountsExist'
  BY <1>0, MarksStay DEF PcIn
<1> QED  BY <1>2, <1>3, <1>4 DEF BindInv

LEMMA GiveKeepsBindings ==
  ASSUME AccountParts, RowInv, MakeInv, BindInv, NEW r \in Request, GiveUid(r) PROVE BindInv'
<1>0. PICK uid \in Uids :
         /\ uid = (IF req[r].op = "bind" THEN req[r].uid ELSE r)
         /\ ReqOK' /\ Frame(r) /\ req[r].pc = "give"
         /\ IF Lost(r) THEN UNCHANGED <<unique_id, old_account, channel>>
            ELSE /\ unique_id' = [unique_id EXCEPT ![Target(r)] = uid]
                 /\ old_account' = [old_account EXCEPT ![Target(r)] =
                                      IF req[r].op = "bind" THEN req[r].acc ELSE @]
                 /\ channel' = [channel EXCEPT ![Target(r)] =
                                  IF req[r].op = "register" THEN req[r].ch ELSE @]
         /\ IF req[r].op = "register" THEN Finished(r)
            ELSE /\ GoesOn(r, "tell") /\ Target(r)' = Target(r) /\ (Lost(r)' <=> Lost(r))
                 /\ req'[r].uid = uid
         /\ UNCHANGED <<accounts, bind_to, told, rushed, twice>>
  BY GiveDoes DEF AccountParts
<1>1. /\ Frame(r) /\ req[r].pc = "give" /\ UNCHANGED <<bind_to, rushed, twice>>
      /\ req'[r].pc \in {"tell", "done"}
      /\ req'[r].op = "bind" => req[r].op = "bind" /\ req'[r].acc = req[r].acc
      /\ old_account' = old_account
           \/ old_account' = [old_account EXCEPT ![Target(r)] =
                                IF req[r].op = "bind" THEN req[r].acc ELSE @]
      /\ ~ Lost(r) => old_account' = [old_account EXCEPT ![Target(r)] =
                                        IF req[r].op = "bind" THEN req[r].acc ELSE @]
  BY <1>0 DEF Finished, GoesOn
<1>2. ChannelsStay
  BY ChannelsAreKept DEF RequestStep
<1>3. Target(r) \in Account /\ Working(r)
  BY <1>1, TargetType DEF RowInv, Working
<1>4. BinderHasChannel' /\ BinderMarks' /\ OneBinder'
  BY <1>1, <1>2, BindersStay
<1>5. req[r].op = "bind" /\ Target(r) \notin rushed =>
        ~ Lost(r) /\ old_account[Target(r)] = NoAccount
  BY <1>1, <1>3 DEF MakeInv, MakerAlone, Alone, PcIn
<1>6. CASE old_account' = old_account /\ (req[r].op = "bind" => Target(r) \in rushed)
  <2>1. BoundHasChannel' /\ GuestIsFree' /\ GuestBindsOne'
    BY <1>1, <1>2, <1>6, BoundStay DEF PcIn
  <2>2. req[r].op = "bind" => req[r].new \in rushed
    BY <1>6 DEF Target
  <2>3. BoundAccountsExist'
    BY <1>1, <1>6, <2>2, MarksStay
  <2> QED  BY <1>4, <2>1, <2>3 DEF BindInv
<1>7. CASE /\ req[r].op = "bind"
           /\ old_account' = [old_account EXCEPT ![Target(r)] = req[r].acc]
  <2>1. /\ old_account'[Target(r)] = req[r].acc
        /\ \A b \in Account : b # Target(r) => old_account'[b] = old_account[b]
        /\ req[r].acc \in Account /\ req[r].acc # NoAccount /\ Target(r) = req[r].new
    BY <1>3, <1>7, AccountsAssumption DEF AccountParts, AccountRowsOK, RowInv, RequestsOK, Target
  <2>2. bind_to[req[r].acc] # NoAccount
    BY <1>1, <1>7 DEF BindInv, BinderMarks, PcIn
  <2>3. channel[req[r].acc] # ""
    BY <1>7 DEF BindInv, BinderHasChannel
  <2>4. \A a \in Account : channel[a] # "" => channel'[a] = channel[a]
    BY <1>2 DEF ChannelsStay
  <2>5. \A b \in Account : old_account[b] # NoAccount => old_account[b] \in Account
    BY DEF AccountParts, AccountRowsOK
  <2>6. BoundHasChannel'
    <3> SUFFICES ASSUME NEW b \in Account, old_account'[b] # NoAccount
                 PROVE  channel'[old_account'[b]] # "" /\ bind_to[old_account'[b]] # NoAccount
      BY <1>1 DEF BoundHasChannel
    <3>1. CASE b = Target(r)
      BY <2>1, <2>2, <2>3, <2>4, <3>1
    <3>2. CASE b # Target(r)
      <4>1. old_account'[b] = old_account[b] /\ old_account[b] # NoAccount
        BY <2>1, <3>2
      <4>2. old_account[b] \in Account
        BY <2>5, <4>1
      <4>3. channel[old_account[b]] # "" /\ bind_to[old_account[b]] # NoAccount
        BY <4>1 DEF BindInv, BoundHasChannel
      <4> QED  BY <2>4, <4>1, <4>2, <4>3
    <3> QED  BY <3>1, <3>2
  <2>7. channel'[req[r].acc] = "guest" /\ req[r].acc \notin twice =>
          \A b \in Account : old_account[b] # req[r].acc
    <3>1. channel'[req[r].acc] = channel[req[r].acc]
      BY <2>1, <2>3, <2>4
    <3> QED  BY <1>1, <1>7, <3>1 DEF BindInv, GuestIsFree, PcIn
  <2>8. GuestIsFree'
    <3> SUFFICES ASSUME NEW q \in Request, req'[q].op = "bind",
                        req'[q].pc \in {"mark", "add", "give"},
                        req'[q].acc \notin twice, channel'[req'[q].acc] = "guest",
                        NEW b \in Account, old_account'[b] = req'[q].acc
                 PROVE  FALSE
      BY <1>1 DEF GuestIsFree, PcIn
    <3>1. q # r /\ req'[q] = req[q]
      BY <1>1 DEF Frame
    <3>2. channel[req[q].acc] = "guest"
      <4>1. channel[req[q].acc] # "" /\ req[q].acc \in Account
        BY <3>1 DEF BindInv, BinderHasChannel, RowInv, RequestsOK
      <4> QED  BY <2>4, <3>1, <4>1
    <3>3. \A c \in Account : old_account[c] # req[q].acc
      BY <3>1, <3>2 DEF BindInv, GuestIsFree, PcIn
    <3>4. b = Target(r)
      BY <2>1, <3>1, <3>3
    <3>5. req[q].acc = req[r].acc
      BY <2>1, <3>1, <3>4
    <3> QED  BY <1>7, <3>1, <3>5 DEF BindInv, OneBinder
  <2>9. GuestBindsOne'
    <3> SUFFICES ASSUME NEW a \in Account, a \notin twice, channel'[a] = "guest",
                        NEW b \in Account, NEW c \in Account,
                        old_account'[b] = a, old_account'[c] = a
                 PROVE  b = c
      BY <1>1 DEF GuestBindsOne
    <3>1. CASE a = req[r].acc
      <4>1. \A d \in Account : old_account[d] # a
        BY <2>7, <3>1
      <4> QED  BY <2>1, <4>1
    <3>2. CASE a # req[r].acc
      <4>1. b # Target(r) /\ c # Target(r)
        BY <2>1, <3>2
      <4>2. old_account[b] = a /\ old_account[c] = a
        BY <2>1, <4>1
      <4>3. channel[a] # ""
        BY <4>2, AccountsAssumption DEF BindInv, BoundHasChannel
      <4>4. channel[a] = "guest"
        BY <2>4, <4>3
      <4> QED  BY <4>2, <4>4 DEF BindInv, GuestBindsOne
    <3> QED  BY <3>1, <3>2
  <2>10. BoundAccountsExist'
    <3> SUFFICES ASSUME NEW a \in Account, bind_to[a] # NoAccount, bind_to[a] \notin rushed,
                        old_account'[bind_to[a]] # a
                 PROVE  \E q \in Request : /\ req'[q].op = "bind" /\ req'[q].pc \in {"add", "give"}
                                           /\ req'[q].acc = a /\ req'[q].new = bind_to[a]
      BY <1>1 DEF BoundAccountsExist
    <3>1. old_account[bind_to[a]] # a
      <4>1. CASE bind_to[a] = Target(r)
        BY <1>5, <1>7, <4>1, AccountsAssumption
      <4>2. CASE bind_to[a] # Target(r)
        <5>1. bind_to[a] \in Account
          BY DEF AccountParts, AccountRowsOK
        <5> QED  BY <2>1, <4>2, <5>1
      <4> QED  BY <4>1, <4>2
    <3>2. PICK q \in Request : /\ req[q].op = "bind" /\ req[q].pc \in {"add", "give"}
                               /\ req[q].acc = a /\ req[q].new = bind_to[a]
      BY <3>1 DEF BindInv, BoundAccountsExist
    <3>3. q # r
      BY <2>1, <3>2
    <3> QED  BY <1>1, <3>2, <3>3 DEF Frame
  <2> QED  BY <1>4, <2>6, <2>8, <2>9, <2>10 DEF BindInv
<1>8. CASE req[r].op # "bind"
  <2>1. old_account' = old_account
    BY <1>1, <1>3, <1>8 DEF AccountParts, AccountRowsOK
  <2> QED  BY <1>6, <1>8, <2>1
<1> QED  BY <1>1, <1>5, <1>6, <1>7, <1>8

LEMMA BindInvStep ==
  ASSUME AccountParts, RowInv, MakeInv, BindInv, NEW r \in Request, RequestStep(r) PROVE BindInv'
BY BegunKeepsBindings, MarkKeepsBindings, AddRowKeepsBindings, LookKeepsBindings,
   GiveKeepsBindings, TellKeepsBindings DEF RequestStep

(***************************************************************************)
(* The theorems of the accounts.                                           *)
(***************************************************************************)

AccountsInv == AccountParts /\ RowInv /\ MakeInv /\ BindInv

LEMMA AccountsInvStep == AccountsInv /\ [AccountsNext]_accountVars => AccountsInv'
<1> SUFFICES ASSUME AccountsInv, [AccountsNext]_accountVars PROVE AccountsInv'
  OBVIOUS
<1>1. CASE AccountsNext
  <2>1. PICK r \in Request : RequestStep(r)
    BY <1>1 DEF AccountsNext
  <2>2. AccountParts' /\ RowInv'
    BY <2>1, AccountPartsStep, RowInvStep DEF AccountsInv, RowInv
  <2>3. MakeInv' /\ BindInv'
    BY <2>1, MakeInvStep, BindInvStep DEF AccountsInv
  <2> QED  BY <2>2, <2>3 DEF AccountsInv
<1>2. CASE UNCHANGED accountVars
  <2>0. /\ accounts' = accounts /\ unique_id' = unique_id /\ channel' = channel
        /\ bind_to' = bind_to /\ old_account' = old_account /\ req' = req
        /\ told' = told /\ rushed' = rushed /\ twice' = twice
    BY <1>2 DEF accountVars
  <2>1. AccountParts'
    BY <2>0 DEF AccountsInv, AccountParts, ReqOK, AccountRowsOK, ToldOK
  <2>2. RowInv'
    BY <2>0, Zenon DEF AccountsInv, RowInv, RequestsOK, RawCovers, RowlessIsBlank, PastAddHasRow,
       OneAdder, AddedIsOfNoChannel, ChannelIsBeingMade, Working, PcIn, Adder, Target, Lost
  <2>3. MakeInv'
    BY <2>0, Zenon DEF AccountsInv, MakeInv, OneMaker, MakerAlone, Alone, ReadsTheUid, BoundHasUid,
       ToldUidsHold, Working, PcIn, Target, Lost
  <2>4. BindInv'
    <3>1. BinderHasChannel' /\ BoundHasChannel' /\ BinderMarks'
      BY <2>0 DEF AccountsInv, BindInv, BinderHasChannel, BoundHasChannel, BinderMarks, PcIn
    <3>2. OneBinder' /\ GuestIsFree' /\ GuestBindsOne'
      BY <2>0 DEF AccountsInv, BindInv, OneBinder, GuestIsFree, GuestBindsOne, PcIn
    <3>3. BoundAccountsExist'
      BY <2>0 DEF AccountsInv, BindInv, BoundAccountsExist
    <3> QED  BY <3>1, <3>2, <3>3 DEF BindInv
  <2> QED  BY <2>1, <2>2, <2>3, <2>4 DEF AccountsInv
<1> QED  BY <1>1, <1>2

LEMMA AccountsInvCorrect == AccountsSpec => []AccountsInv
<1>1. AccountsInit => AccountsInv
  BY AccountPartsInit DEF AccountsInv
<1> QED  BY <1>1, AccountsInvStep, PTL DEF AccountsSpec

\* Whatever requests come, in whatever order their steps are taken, the rows of
\* dbc.Accounts and what each handler (register_handler, login_handler,
\* bind_new_account_handler) has at hand are of their types.
THEOREM AccountsTypeCorrect == AccountsSpec => []AccountsTypeOK
<1>1. AccountsInv => AccountsTypeOK
  BY AccountTypes DEF AccountsInv
<1> QED  BY <1>1, AccountsInvCorrect, PTL

\* What _select_server told a hall of an account stays its unique id, however
\* many requests there are, unless two of them were making the account, or the
\* one it was bound to, at a time.
THEOREM ToldUidsCorrect == AccountsSpec => []ToldUidsHold
<1>1. AccountsInv => ToldUidsHold
  BY DEF AccountsInv, MakeInv
<1> QED  BY <1>1, AccountsInvCorrect, PTL

\* What one binding does to the accounts it is about holds of all of them.
LEMMA BindingsAreKept == AccountsInv => BindingsHold
<1> SUFFICES ASSUME AccountsInv PROVE BindingsHold
  OBVIOUS
<1>1. BindingKeepsUid
  BY DEF AccountsInv, MakeInv, BoundHasUid, BindingKeepsUid
<1>2. BoundAccountsExist
  BY DEF AccountsInv, BindInv
<1>3. GuestsBindOnce
  <2> SUFFICES ASSUME NEW a \in Account \ twice, channel[a] = "guest"
               PROVE  Cardinality({b \in Account : old_account[b] = a}) <= 1
    BY DEF GuestsBindOnce
  <2> DEFINE B == {b \in Account : old_account[b] = a}
  <2>1. \A b, c \in B : b = c
    BY DEF AccountsInv, BindInv, GuestBindsOne
  <2> HIDE DEF B
  <2>2. CASE B = {}
    <3>1. Cardinality(B) = 0
      BY <2>2, FS_EmptySet
    <3> QED  BY <3>1 DEF B
  <2>3. CASE B # {}
    <3>1. PICK b : b \in B
      BY <2>3
    <3>2. B = {b}
      BY <2>1, <3>1
    <3>3. Cardinality(B) = 1
      BY <3>2, FS_Singleton
    <3> QED  BY <3>3 DEF B
  <2> QED  BY <2>2, <2>3
<1> QED  BY <1>1, <1>2, <1>3 DEF BindingsHold

\* A binding (bind_new_account_handler) takes the unique id over to the new
\* account, the mark on the old one stands for an account that was made or is
\* being made, and a guest is bound to one account: for any number of accounts
\* and requests, unless two of them made or bound the same account at a time.
THEOREM BindingsCorrect == AccountsSpec => []BindingsHold
BY AccountsInvCorrect, BindingsAreKept, PTL
=============================================================================
