---------------------------- MODULE LoginRegistry ----------------------------
(***************************************************************************)
(* How the halls learn of the login servers: the center's                  *)
(* LoginInfoManager and LoginAgentManager (login servers that register and *)
(* disconnect), its HallAgentManager (a hall that registers and is sent    *)
(* the list), the broadcasts to the halls, and what the hall's handlers of *)
(* center_conn.go make of them. Both ends reconnect as soon as they notice *)
(* a loss; the center may notice it later, so that two connections of one  *)
(* server can stand side by side.                                          *)
(*                                                                         *)
(* Each connection at the center has a goroutine (main_loop of             *)
(* server_conn.go): its handlers and then its OnDisconnect run one after   *)
(* another, and beside those of the other connections. A handler is cut    *)
(* where it takes a lock or broadcasts.                                    *)
(***************************************************************************)
EXTENDS Naturals, Sequences, FiniteSets

CONSTANTS
  LoginId,       \* server ids of login servers
  LoginConns,    \* bound: connections accepted of login servers
  HallConns,     \* bound: connections accepted of the hall
  MaxBacklog     \* bound: messages on the way to the hall

ASSUME LoginRegistryAssumption ==
  /\ LoginId # {}
  /\ LoginConns \in Nat
  /\ HallConns \in Nat
  /\ MaxBacklog \in Nat \ {0}

VARIABLES
  lc,            \* connections of login servers: where their goroutine is
  logins,        \* LoginInfoManager: per id the connection that added the entry
  hc,            \* connections of the hall: where their goroutine is, the list taken
  id2agent,      \* HallAgentManager: the connection registered for the hall's id
  current,       \* the connection the hall uses
  toHall,        \* messages on the way to the hall over it
  known,         \* the keys of the hall's login_conn_mgr
  lost,          \* history: ids whose key went with the hall's own link to the
                 \* login server, and of which it has not been told since
  overlap,       \* history: connections that stood beside another of their server
  raced,         \* history: a list or a broadcast was overtaken by another
  untold         \* history: the hall registered while the list was empty

registryVars == <<lc, logins, hc, id2agent, toHall, current, known, lost,
                  overlap, raced, untold>>

\* Connections are numbered as they are accepted.
LoginConn == 1 .. LoginConns
HallConn  == 1 .. HallConns
NoConn    == 0

(* Places of a login server's connection. *)
Registering   == {"remove", "remove_cast", "add_cast", "add"}
Disconnecting == {"remove_id", "gone_cast"}
\* Once its handler has returned, T of a connection is its id (up) or 0 (extra).
LoginPlaces   == {"free", "accepted", "up", "extra", "gone"} \cup Registering
                 \cup Disconnecting

HallPlaces == {"free", "accepted", "agent", "list", "send", "up",
               "refused", "gone"}

Message == [kind : {"list"}, ids : SUBSET LoginId]
           \cup [kind : {"add", "remove"}, id : LoginId]

Of(place, s) == [pc |-> place, id |-> s]
AnyId  == CHOOSE s \in LoginId : TRUE
Ended  == Of("gone", AnyId)

RegistryInit ==
  /\ lc = [c \in LoginConn |-> Of("free", AnyId)]
  /\ logins = [s \in LoginId |-> NoConn]
  /\ hc = [h \in HallConn |-> [pc |-> "free", ids |-> {}]]
  /\ id2agent = NoConn
  /\ toHall = <<>>
  /\ current = NoConn
  /\ known = {}
  /\ lost = {}
  /\ overlap = {}
  /\ raced = FALSE
  /\ untold = FALSE

Listed == {s \in LoginId : logins[s] # NoConn}

LoginAt(c, place) == lc[c].pc = place
HallAt(h, place)  == hc[h].pc = place
LoginGoes(c, place) == lc' = [lc EXCEPT ![c] = Of(place, @.id)]

Mid(c) == lc[c].pc \in Registering \cup Disconnecting

\* A list is taken and not yet sent while a login server comes or goes, or two
\* connections of one login server are being handled at a time.
Racing ==
  \/ \E h \in HallConn, c \in LoginConn : HallAt(h, "send") /\ Mid(c)
  \/ \E c, d \in LoginConn : c # d /\ Mid(c) /\ Mid(d) /\ lc[c].id = lc[d].id

\* Node.Broadcast: to every connection accepted, registered or not. What goes
\* to a connection the hall has lost reaches nobody.
Broadcast(m) ==
  /\ Len(toHall) < MaxBacklog
  /\ toHall' = IF current = NoConn THEN toHall ELSE Append(toHall, m)

hallSide == <<hc, id2agent, current, known, lost, untold>>

-----------------------------------------------------------------------------
(* A login server's connection at the center.                              *)

\* The login server connects and sends L2CLoginServerRegister at once.
LoginConnects(c) ==
  /\ LoginAt(c, "free") /\ \A d \in 1 .. c - 1 : ~ LoginAt(d, "free")
  /\ \E s \in LoginId :
       LET others == {d \in LoginConn : lc[d].pc \notin {"free", "gone"} /\ lc[d].id = s} IN
       /\ lc' = [lc EXCEPT ![c] = Of("accepted", s)]
       /\ overlap' = IF others = {} THEN overlap ELSE overlap \cup others \cup {c}
  /\ UNCHANGED <<logins, toHall, hallSide>>

\* L2CLoginServerRegisterHandler: is there an entry for the id?
RegisterLogin(c) ==
  /\ LoginAt(c, "accepted")
  /\ LoginGoes(c, IF logins[lc[c].id] = NoConn THEN "add_cast" ELSE "remove")
  /\ UNCHANGED <<logins, toHall, overlap, hallSide>>

RemoveOld(c) ==
  /\ LoginAt(c, "remove")
  /\ logins' = [logins EXCEPT ![lc[c].id] = NoConn]
  /\ LoginGoes(c, "remove_cast")
  /\ UNCHANGED <<toHall, overlap, hallSide>>

CastRemoved(c) ==
  /\ LoginAt(c, "remove_cast")
  /\ Broadcast([kind |-> "remove", id |-> lc[c].id])
  /\ LoginGoes(c, "add_cast")
  /\ UNCHANGED <<logins, overlap, hallSide>>

CastAdded(c) ==
  /\ LoginAt(c, "add_cast")
  /\ Broadcast([kind |-> "add", id |-> lc[c].id])
  /\ LoginGoes(c, "add")
  /\ UNCHANGED <<logins, overlap, hallSide>>

\* A slip: T is not set.
AddLoginInfoOnly(c) ==
  /\ LoginAt(c, "add")
  /\ logins' = [logins EXCEPT ![lc[c].id] = IF @ = NoConn THEN c ELSE @]
  /\ LoginGoes(c, "extra")
  /\ UNCHANGED <<toHall, overlap, hallSide>>

\* LoginInfoManager.Add: an entry that is there stays, and the connection's T
\* is then not set.
AddLoginInfo(c) ==
  /\ LoginAt(c, "add")
  /\ logins' = [logins EXCEPT ![lc[c].id] = IF @ = NoConn THEN c ELSE @]
  /\ LoginGoes(c, IF logins[lc[c].id] = NoConn THEN "up" ELSE "extra")
  /\ UNCHANGED <<toHall, overlap, hallSide>>

\* A slip: the disconnect of a login server leaves the entry to RemoveByConn.
LoginDisconnectsQuietly(c) ==
  /\ lc[c].pc \in {"accepted", "up", "extra"}
  /\ logins' = [s \in LoginId |-> IF logins[s] = c THEN NoConn ELSE logins[s]]
  /\ lc' = [lc EXCEPT ![c] = Ended]
  /\ overlap' = overlap \ {c}
  /\ UNCHANGED <<toHall, hallSide>>

\* OnDisconnect: RemoveByConn, and the end when T was never set. Of what is in
\* the channels when the connection breaks, the register message may be lost.
LoginDisconnects(c) ==
  /\ lc[c].pc \in {"accepted", "up", "extra"}
  /\ logins' = [s \in LoginId |-> IF logins[s] = c THEN NoConn ELSE logins[s]]
  /\ \/ /\ LoginAt(c, "up")
        /\ LoginGoes(c, "remove_id")
        /\ UNCHANGED overlap
     \/ /\ ~ LoginAt(c, "up")
        /\ lc' = [lc EXCEPT ![c] = Ended]
        /\ overlap' = overlap \ {c}
  /\ UNCHANGED <<toHall, hallSide>>

\* Remove(c.T): the entry of the id, whoever has added it.
RemoveById(c) ==
  /\ LoginAt(c, "remove_id")
  /\ logins' = [logins EXCEPT ![lc[c].id] = NoConn]
  /\ LoginGoes(c, "gone_cast")
  /\ UNCHANGED <<toHall, overlap, hallSide>>

CastGone(c) ==
  /\ LoginAt(c, "gone_cast")
  /\ Broadcast([kind |-> "remove", id |-> lc[c].id])
  /\ lc' = [lc EXCEPT ![c] = Ended]
  /\ overlap' = overlap \ {c}
  /\ UNCHANGED <<logins, hallSide>>

-----------------------------------------------------------------------------
(* The hall's connection at the center.                                    *)

loginSide == <<lc, logins, overlap>>

\* The hall connects and sends H2CHallServerRegister at once.
HallConnects(h) ==
  /\ current = NoConn
  /\ HallAt(h, "free") /\ \A g \in 1 .. h - 1 : ~ HallAt(g, "free")
  /\ current' = h
  /\ hc' = [hc EXCEPT ![h].pc = "accepted"]
  /\ UNCHANGED <<id2agent, toHall, known, lost, untold, loginSide>>

\* H2CHallServerRegisterHandler: a second connection of one id is closed.
RegisterHall(h) ==
  /\ HallAt(h, "accepted")
  /\ hc' = [hc EXCEPT ![h].pc = IF id2agent = NoConn THEN "agent" ELSE "refused"]
  /\ UNCHANGED <<id2agent, toHall, current, known, lost, untold, loginSide>>

AddHallAgent(h) ==
  /\ HallAt(h, "agent")
  /\ id2agent' = h
  /\ hc' = [hc EXCEPT ![h].pc = "list"]
  /\ UNCHANGED <<toHall, current, known, lost, untold, loginSide>>

\* GetInfoList; an empty list is not sent.
TakeList(h) ==
  /\ HallAt(h, "list")
  /\ hc' = [hc EXCEPT ![h] = IF Listed = {} THEN [pc |-> "up", ids |-> {}]
                                            ELSE [pc |-> "send", ids |-> Listed]]
  /\ untold' = IF h = current THEN Listed = {} ELSE untold
  /\ UNCHANGED <<id2agent, toHall, current, known, lost, loginSide>>

SendList(h) ==
  /\ HallAt(h, "send")
  /\ Len(toHall) < MaxBacklog
  /\ toHall' = IF h = current
               THEN Append(toHall, [kind |-> "list", ids |-> hc[h].ids])
               ELSE toHall
  /\ hc' = [hc EXCEPT ![h] = [pc |-> "up", ids |-> {}]]
  /\ UNCHANGED <<id2agent, current, known, lost, untold, loginSide>>

\* OnDisconnect: RemoveAgent deletes the id's entry, if the connection has an agent.
HallDisconnects(h) ==
  /\ hc[h].pc \in {"accepted", "up", "refused"}
  /\ hc[h].pc # "refused" => current # h
  /\ id2agent' = IF HallAt(h, "up") THEN NoConn ELSE id2agent
  /\ hc' = [hc EXCEPT ![h] = [pc |-> "gone", ids |-> {}]]
  /\ toHall' = IF current = h THEN <<>> ELSE toHall
  /\ current' = IF current = h THEN NoConn ELSE current
  /\ UNCHANGED <<known, lost, untold, loginSide>>

-----------------------------------------------------------------------------
(* The hall.                                                               *)

\* The connection breaks: OnDisconnect of the hall's end; Start dials again.
HallLosesCenter ==
  /\ current # NoConn
  /\ current' = NoConn
  /\ toHall' = <<>>
  /\ UNCHANGED <<hc, id2agent, known, lost, untold, loginSide>>

\* LoginConnection.OnDisconnect: RemoveLogin takes the key of the hall's link to s,
\* and nobody dials s again.
HallLosesLogin(s) ==
  /\ s \in known
  /\ known' = known \ {s}
  /\ lost' = lost \cup {s}
  /\ UNCHANGED <<hc, id2agent, current, toHall, untold, loginSide>>

\* The ids a message is about, and those it adds.
About(m) == IF m.kind = "list" THEN LoginId ELSE {m.id}
Added(m) == CASE m.kind = "list"   -> m.ids
              [] m.kind = "add"    -> {m.id}
              [] m.kind = "remove" -> {}

\* C2HLoginServerListHandler, C2HNewLoginServerAddHandler and
\* C2HLoginServerRemoveHandler, as far as the keys of the map go.
HallReceives ==
  /\ toHall # <<>>
  /\ LET m == Head(toHall) IN
       /\ known' = (known \ About(m)) \cup Added(m)
       /\ lost' = lost \ About(m)
  /\ toHall' = Tail(toHall)
  /\ UNCHANGED <<hc, id2agent, current, untold, loginSide>>

LoginConnStep(c) ==
  \/ LoginConnects(c) \/ RegisterLogin(c) \/ RemoveOld(c) \/ CastRemoved(c)
  \/ CastAdded(c) \/ AddLoginInfo(c) \/ LoginDisconnects(c) \/ RemoveById(c)
  \/ CastGone(c)

HallConnStep(h) ==
  \/ HallConnects(h) \/ RegisterHall(h) \/ AddHallAgent(h) \/ TakeList(h)
  \/ SendList(h) \/ HallDisconnects(h)

\* A race is forgotten when the connection the hall uses takes the list anew.
RegistryNext ==
  /\ \/ \E c \in LoginConn : LoginConnStep(c)
     \/ \E h \in HallConn : HallConnStep(h)
     \/ HallLosesCenter
     \/ HallReceives
     \/ \E s \in LoginId : HallLosesLogin(s)
  /\ raced' = \/ Racing'
              \/ raced /\ ~ (/\ current # NoConn
                           /\ HallAt(current, "list")
                           /\ hc'[current].pc = "send")

RegistrySpec == RegistryInit /\ [][RegistryNext]_registryVars

-----------------------------------------------------------------------------
(* Properties                                                              *)

\* Every variable of the center's managers and of the hall's view has its type
\* (login_info_manager.go, hall_agent_manager.go, login_conn_mgr.go).
RegistryTypeOK ==
  /\ lc \in [LoginConn -> [pc : LoginPlaces, id : LoginId]]
  /\ logins \in [LoginId -> LoginConn \cup {NoConn}]
  /\ hc \in [HallConn -> [pc : HallPlaces, ids : SUBSET LoginId]]
  /\ id2agent \in HallConn \cup {NoConn}
  /\ toHall \in Seq(Message)
  /\ current \in HallConn \cup {NoConn}
  /\ known \subseteq LoginId /\ lost \subseteq LoginId
  /\ overlap \subseteq LoginConn
  /\ raced \in BOOLEAN
  /\ untold \in BOOLEAN

\* No ghosts: whoever is in the center's list has a connection that registered
\* this id, whose OnDisconnect has not begun and will tell the halls, for its T is
\* set (Add, Remove, RemoveByConn).
ListedLoginsAreConnected ==
  \A s \in LoginId : logins[s] # NoConn => lc[logins[s]] = Of("up", s)

\* A login server that is connected and registered is in the list, unless its
\* connection stood beside another of the same id: then the handler or the
\* OnDisconnect of the one may have removed the entry of the other.
ConnectedLoginsAreListed ==
  \A c \in LoginConn \ overlap : lc[c].pc \in {"up", "extra"} => logins[lc[c].id] = c

\* The center's list is of the login servers that are connected and registered.
ListIsOfTheConnected == ListedLoginsAreConnected /\ ConnectedLoginsAreListed

\* When nothing is under way, a registered hall knows exactly the listed login
\* servers, less those whose link the hall itself has lost since it was last told
\* of them: it does not dial them again. It does not hold after a list and a
\* broadcast have overtaken each other or two connections of one id were handled at
\* a time (raced), nor after the hall registered while the list was empty and was
\* not sent it (untold).
HallKnowsTheList ==
  (/\ current # NoConn
   /\ HallAt(current, "up")
   /\ toHall = <<>>
   /\ \A c \in LoginConn : ~ Mid(c)
   /\ ~ raced
   /\ ~ untold) => known = Listed \ lost
=============================================================================
