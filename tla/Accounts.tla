------------------------------- MODULE Accounts -------------------------------
(***************************************************************************)
(* The accounts of the login server (login_server.go): a client registers, *)
(* logs in (which adds the account of a guest or a facebook user) and      *)
(* binds a guest's account to a new one, which takes over the unique id    *)
(* and with it the players. Every HTTP request has its own goroutine and   *)
(* no lock is held from one access of a row to the next; dbc.Accounts is   *)
(* reached through GetRow, AddRow and the rows' accessors. Passwords, bans *)
(* and the answers of facebook decide what goes on and what is refused;    *)
(* that no unique id can be generated is left out.                         *)
(***************************************************************************)
EXTENDS Naturals, FiniteSets

CONSTANTS
  Account,     \* names of accounts
  NoAccount,   \* the empty name
  VerifyAccount, \* config.VerifyAccount
  MaxRequests  \* bound: requests

ASSUME AccountsAssumption ==
  /\ NoAccount \notin Account
  /\ VerifyAccount \in BOOLEAN
  /\ MaxRequests \in Nat \ {0}

VARIABLES
  accounts,    \* accounts that have a row
  unique_id,   \* UniqueId of a row, NoUid when empty
  channel,     \* Channel of a row
  bind_to,     \* BindNewAccount
  old_account, \* OldAccount
  req,         \* where each request is
  told,        \* history: unique ids the halls were told for an account
  rushed,      \* history: accounts two requests were making at a time
  twice        \* history: accounts two requests were binding at a time

accountVars == <<accounts, unique_id, channel, bind_to, old_account, req, told, rushed, twice>>

\* Requests are numbered as they come; a unique id has the number of the request
\* that generated it.
Request == 1 .. MaxRequests
NoUid   == 0
Uids    == Request \cup {NoUid}

Channels == {"", "guest", "facebook"}

\* raw: the accounts the request has found without a row or without a unique
\* id. lost: its row is not the one GetRow gives. uid: the id it has at hand.
Requests == [pc : {"idle", "add", "look", "give", "tell", "mark", "done"},
             op : {"register", "login", "bind"},
             acc : Account \cup {NoAccount}, new : Account \cup {NoAccount}, ch : Channels, raw : SUBSET Account,
             lost : BOOLEAN, uid : Uids]

NoRequest == [pc |-> "idle", op |-> "login", acc |-> NoAccount,
              new |-> NoAccount, ch |-> "", raw |-> {}, lost |-> FALSE, uid |-> NoUid]

AccountsInit ==
  /\ accounts = {}
  /\ unique_id = [a \in Account |-> NoUid]
  /\ channel = [a \in Account |-> ""]
  /\ bind_to = [a \in Account |-> NoAccount]
  /\ old_account = [a \in Account |-> NoAccount]
  /\ req = [r \in Request |-> NoRequest]
  /\ told = [a \in Account |-> {}]
  /\ rushed = {}
  /\ twice = {}

\* The account whose row the request adds or fills.
Target(r) == IF req[r].op = "bind" THEN req[r].new ELSE req[r].acc

Goes(r, place) == req' = [req EXCEPT ![r].pc = place]
Ends(r)        == req' = [req EXCEPT ![r] = [NoRequest EXCEPT !.pc = "done"]]

Raw(as) == {a \in as : a \notin accounts \/ unique_id[a] = NoUid}

\* A request begins at `place`; whoever makes one of its raw accounts already,
\* makes it at the same time.
Begins(r, place, op, a, new, ch) ==
  LET raw == Raw({a, new} \ {NoAccount}) IN
  /\ req[r].pc = "idle" /\ \A q \in 1 .. r - 1 : req[q].pc # "idle"
  /\ req' = [req EXCEPT ![r] = [NoRequest EXCEPT !.pc = place, !.op = op, !.acc = a,
                                                 !.new = new, !.ch = ch, !.raw = raw]]
  /\ rushed' = rushed \cup (raw \cap UNION {req[q].raw : q \in Request})
  /\ UNCHANGED <<accounts, unique_id, channel, bind_to, old_account, told>>

-----------------------------------------------------------------------------

\* register_handler: the look for the account.
Register(r) ==
  /\ \E a \in Account \ accounts, ch \in {"", "guest"} :
       Begins(r, "add", "register", a, NoAccount, ch)
  /\ UNCHANGED twice

\* login_handler: the look for the account. A guest or a facebook user without
\* one gets it, the ones of no channel are refused; without VerifyAccount
\* everybody gets one, of no channel.
Login(r) ==
  /\ \/ \E a \in accounts : Begins(r, "look", "login", a, NoAccount, "")
     \/ \E a \in Account \ accounts,
           ch \in IF VerifyAccount THEN {"guest", "facebook"} ELSE {""} :
          Begins(r, "add", "login", a, NoAccount, ch)
  /\ UNCHANGED twice

\* A slip: that a guest is bound already is not looked at.
MayBindAgain(a, b) ==
  /\ a # b
  /\ a \in accounts
  /\ channel[a] # ""
  /\ b \notin accounts

\* bind_new_account_handler: its checks. A guest binds once, a facebook user at
\* any time.
MayBind(a, b) ==
  /\ a # b
  /\ a \in accounts
  /\ \/ channel[a] = "guest" /\ bind_to[a] = NoAccount
     \/ channel[a] = "facebook"
  /\ b \notin accounts

BindNewAccount(r) ==
  \E a, b \in Account :
    /\ MayBind(a, b)
    /\ Begins(r, "mark", "bind", a, b, "")
    /\ twice' = IF \E q \in Request : req[q].op = "bind" /\ req[q].acc = a
                THEN twice \cup {a} ELSE twice

-----------------------------------------------------------------------------

\* SetBindNewAccount of the old row, before the new one is there; its UniqueId
\* is read.
MarkOld(r) ==
  LET a == req[r].acc IN
  /\ req[r].pc = "mark"
  /\ bind_to' = [bind_to EXCEPT ![a] = req[r].new]
  /\ req' = [req EXCEPT ![r].pc = "add", ![r].uid = unique_id[a]]
  /\ UNCHANGED <<accounts, unique_id, channel, old_account, told, rushed, twice>>

AfterAdd(r) == IF req[r].op = "login" THEN "look" ELSE "give"

\* AddRow: when another request has added the account since, it is nil or, if
\* that row has been saved, a new row which GetRow will never give.
AddRow(r) ==
  LET a == Target(r) IN
  /\ req[r].pc = "add"
  /\ IF a \notin accounts
     THEN /\ accounts' = accounts \cup {a}
          /\ channel' = [channel EXCEPT ![a] = IF req[r].op = "login" THEN req[r].ch ELSE @]
          /\ Goes(r, AfterAdd(r))
     ELSE /\ \/ Ends(r)
             \/ req' = [req EXCEPT ![r].pc = AfterAdd(r), ![r].lost = TRUE]
          /\ UNCHANGED <<accounts, channel>>
  /\ UNCHANGED <<unique_id, bind_to, old_account, told, rushed, twice>>

\* A login makes a unique id when the row has none, a row just added has none.
LookForUid(r) ==
  /\ req[r].pc = "look"
  /\ Goes(r, IF req[r].lost \/ unique_id[req[r].acc] = NoUid THEN "give" ELSE "tell")
  /\ UNCHANGED <<accounts, unique_id, channel, bind_to, old_account, told,
                 rushed, twice>>

\* A slip: a binding gives the new account an id of its own.
GiveOwnUid(r) ==
  LET a == Target(r) IN
  /\ req[r].pc = "give"
  /\ unique_id' = [unique_id EXCEPT ![a] = IF req[r].lost THEN @ ELSE r]
  /\ old_account' = [old_account EXCEPT ![a] = IF req[r].op = "bind" /\ ~ req[r].lost
                                               THEN req[r].acc ELSE @]
  /\ IF req[r].op = "register" THEN Ends(r)
     ELSE req' = [req EXCEPT ![r].pc = "tell", ![r].uid = r]
  /\ channel' = channel
  /\ UNCHANGED <<accounts, bind_to, told, rushed, twice>>

\* SetUniqueId: a generated id, for a binding the old account's. A registration
\* sets the channel of a guest last.
GiveUid(r) ==
  LET a == Target(r)
      binds == req[r].op = "bind"
      uid == IF binds THEN req[r].uid ELSE r IN
  /\ req[r].pc = "give"
  /\ IF req[r].lost THEN UNCHANGED <<unique_id, old_account, channel>>
     ELSE /\ unique_id' = [unique_id EXCEPT ![a] = uid]
          /\ old_account' = [old_account EXCEPT ![a] = IF binds THEN req[r].acc ELSE @]
          /\ channel' = [channel EXCEPT ![a] = IF req[r].op = "register"
                                                THEN req[r].ch ELSE @]
  /\ IF req[r].op = "register" THEN Ends(r)
     ELSE req' = [req EXCEPT ![r].pc = "tell", ![r].uid = uid]
  /\ UNCHANGED <<accounts, bind_to, told, rushed, twice>>

\* A slip: a login tells the id it made, or none, not the row's.
TellHallOwn(r) ==
  /\ req[r].pc = "tell"
  /\ told' = [told EXCEPT ![Target(r)] = @ \cup {req[r].uid}]
  /\ Ends(r)
  /\ UNCHANGED <<accounts, unique_id, channel, bind_to, old_account, rushed, twice>>

\* _select_server sends the row's UniqueId with a token, a binding sends the id
\* it has given; without a hall agent or for a banned account nothing is sent.
TellHall(r) ==
  LET a == Target(r)
      uid == IF req[r].op = "bind" \/ req[r].lost THEN req[r].uid ELSE unique_id[a] IN
  /\ req[r].pc = "tell"
  /\ told' \in {told, [told EXCEPT ![a] = @ \cup {uid}]}
  /\ Ends(r)
  /\ UNCHANGED <<accounts, unique_id, channel, bind_to, old_account, rushed, twice>>

RequestStep(r) ==
  \/ Register(r) \/ Login(r) \/ BindNewAccount(r)
  \/ MarkOld(r) \/ AddRow(r) \/ LookForUid(r) \/ GiveUid(r) \/ TellHall(r)

AccountsNext == \E r \in Request : RequestStep(r)

AccountsSpec == AccountsInit /\ [][AccountsNext]_accountVars

-----------------------------------------------------------------------------
(* Properties                                                              *)

\* Every variable of the accounts (login_server.go, dbc.Accounts) has its type.
AccountsTypeOK ==
  /\ accounts \subseteq Account
  /\ unique_id \in [Account -> Uids]
  /\ channel \in [Account -> Channels]
  /\ bind_to \in [Account -> Account \cup {NoAccount}]
  /\ old_account \in [Account -> Account \cup {NoAccount}]
  /\ req \in [Request -> Requests]
  /\ told \in [Account -> SUBSET Uids]
  /\ rushed \subseteq Account
  /\ twice \subseteq Account

\* What the halls were told of an account stays true: its unique id, by which a
\* hall finds the player, is never replaced. It does not hold for an account that
\* two requests were making at a time (rushed), where each gives it an id, nor
\* for one bound to such an account.
ToldUidsHold ==
  \A a \in Account : {a, old_account[a]} \cap rushed = {} =>
    told[a] \subseteq {unique_id[a]} \ {NoUid}

\* Binding keeps the players: the new account has the unique id of the old one.
\* It does not hold when one of them was being made by another request, for then
\* the id read may be empty or replaced.
BindingKeepsUid ==
  \A b \in Account : LET a == old_account[b] IN
    a # NoAccount /\ {a, b} \cap rushed = {} => unique_id[b] = unique_id[a]

\* An account that is bound is bound to one that was made for it, or the request
\* that binds it is under way: SetBindNewAccount comes before AddRow, and when
\* the new account is being made by another request too, the mark stays.
BoundAccountsExist ==
  \A a \in Account : LET b == bind_to[a] IN
    b # NoAccount /\ b \notin rushed =>
      \/ old_account[b] = a
      \/ \E r \in Request : /\ req[r].op = "bind" /\ req[r].pc \in {"add", "give"}
                            /\ req[r].acc = a /\ req[r].new = b

\* A guest has one account at most that was bound to his, unless two bindings
\* ran side by side (twice): both pass the look at BindNewAccount.
GuestsBindOnce ==
  \A a \in Account \ twice : channel[a] = "guest" =>
    Cardinality({b \in Account : old_account[b] = a}) <= 1

\* A binding hands the players of one account to one other, and to it only.
BindingsHold == BindingKeepsUid /\ BoundAccountsExist /\ GuestsBindOnce
=============================================================================
