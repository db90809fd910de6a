------------------------------ MODULE SysMails ------------------------------
(***************************************************************************)
(* System mails. A call of the GM (rpc_gm_proc.go, SysMail) makes a row of *)
(* dbc.SysMails in steps and then announces its id; each heartbeat of a    *)
(* player (player_mail.go, CheckSystemMail) sends him the mails between    *)
(* the last one he knows and the one announced. The rpc server runs its    *)
(* calls side by side. One player is followed; that a mail sent to him     *)
(* gets into his mails is the matter of module Mail.                       *)
(***************************************************************************)
EXTENDS Integers

CONSTANTS
  GmCall,       \* goroutines in which a call of the GM may be
  Heartbeat,    \* requests of the player: one enters the game beside another's handler
  MaxSysMails   \* bound: system mails in all

ASSUME SysMailsAssumption == MaxSysMails \in Nat

VARIABLES
  rows,          \* SysMails, id -> "none", "empty", sent "before" the player was created, "due"
  max_id,        \* the last id AddSysMail has given
  curr_mail_id,  \* SysMailCommon.CurrMailId
  call,          \* where each call of the GM is, with which row
  created,       \* the player is there
  self_id,       \* SysMail.CurrId of the player
  check,         \* where each CheckSystemMail is, the next mail and the last
  got,           \* history: id -> times the player has been sent it, Many for more than twice
  overtaken,     \* history: rows not yet filled when a later one was announced
  beside         \* history: two checks have been under way at a time

sysMailVars == <<rows, max_id, curr_mail_id, call, created, self_id, check, got,
                 overtaken, beside>>

Many == 3
SysMailId == 1..MaxSysMails
Calls == [pc : {"idle", "fill", "announce"}, id : 0..MaxSysMails]
Checks == [pc : {"idle", "read", "send"}, next : 0..(MaxSysMails + 1), upto : 0..MaxSysMails]

CallAt(place, i) == [pc |-> place, id |-> i]
CheckAt(place, i, j) == [pc |-> place, next |-> i, upto |-> j]

SysMailsInit ==
  /\ rows = [i \in SysMailId |-> "none"]
  /\ max_id = 0
  /\ curr_mail_id = 0
  /\ call = [g \in GmCall |-> CallAt("idle", 0)]
  /\ created = FALSE
  /\ self_id = 0
  /\ check = [h \in Heartbeat |-> CheckAt("idle", 0, 0)]
  /\ got = [i \in SysMailId |-> 0]
  /\ overtaken = {}
  /\ beside = FALSE

-----------------------------------------------------------------------------
(* G2H_Proc.SysMail *)

\* A slip: the id is announced with the row.
AddSysMailAnnounced(g) ==
  /\ call[g].pc = "idle" /\ max_id < MaxSysMails
  /\ max_id' = max_id + 1
  /\ rows' = [rows EXCEPT ![max_id'] = "empty"]
  /\ call' = [call EXCEPT ![g] = CallAt("fill", max_id')]
  /\ curr_mail_id' = max_id'
  /\ UNCHANGED overtaken

AddSysMail(g) ==
  /\ call[g].pc = "idle" /\ max_id < MaxSysMails
  /\ max_id' = max_id + 1
  /\ rows' = [rows EXCEPT ![max_id'] = "empty"]
  /\ call' = [call EXCEPT ![g] = CallAt("fill", max_id')]
  /\ UNCHANGED <<curr_mail_id, overtaken>>

\* The subtype is not in the table: the row stays as it is.
NoSubtype(g) ==
  /\ call[g].pc = "fill"
  /\ call' = [call EXCEPT ![g].pc = "idle"]
  /\ UNCHANGED <<rows, max_id, curr_mail_id, overtaken>>

\* SetTableId, SetItemList, SetSendTime: without a time of sending nobody is sent it. A
\* player who is created in the same second finds it in time.
FillRow(g) ==
  /\ call[g].pc = "fill"
  /\ \E state \in IF created THEN {"due"} ELSE {"due", "before"} :
       rows' = [rows EXCEPT ![call[g].id] = state]
  /\ call' = [call EXCEPT ![g].pc = "announce"]
  /\ UNCHANGED <<max_id, curr_mail_id, overtaken>>

\* SetCurrMailId, also when a later mail has been announced in the meantime.
Announce(g) ==
  /\ call[g].pc = "announce"
  /\ curr_mail_id' = call[g].id
  /\ overtaken' = overtaken \cup
       {i \in 1..call[g].id : \E f \in GmCall : call[f].pc = "fill" /\ call[f].id = i}
  /\ call' = [call EXCEPT ![g].pc = "idle"]
  /\ UNCHANGED <<rows, max_id>>

GmStep(g) ==
  /\ AddSysMail(g) \/ NoSubtype(g) \/ FillRow(g) \/ Announce(g)
  /\ UNCHANGED <<created, self_id, check, got>>

-----------------------------------------------------------------------------
(* CheckSystemMail *)

\* OnCreate sets CreateUnix.
Create ==
  /\ ~ created
  /\ created' = TRUE
  /\ UNCHANGED <<rows, max_id, curr_mail_id, call, self_id, check, got, overtaken>>

ReadSelf(h) ==
  /\ created /\ check[h].pc = "idle"
  /\ check' = [check EXCEPT ![h] = CheckAt("read", self_id, 0)]
  /\ UNCHANGED <<self_id, got>>

\* A slip: the mail known already is sent although none is newer.
ReadCurrOrSame(h) ==
  /\ check[h].pc = "read"
  /\ check' = [check EXCEPT ![h] = IF @.next <= curr_mail_id
                                   THEN CheckAt("send", @.next, curr_mail_id)
                                   ELSE CheckAt("idle", 0, 0)]
  /\ UNCHANGED <<self_id, got>>

\* The loop begins with the mail known already.
ReadCurr(h) ==
  /\ check[h].pc = "read"
  /\ check' = [check EXCEPT ![h] = IF @.next < curr_mail_id
                                   THEN CheckAt("send", @.next, curr_mail_id)
                                   ELSE CheckAt("idle", 0, 0)]
  /\ UNCHANGED <<self_id, got>>

SendNext(h) ==
  LET i == check[h].next IN
  /\ check[h].pc = "send" /\ i <= check[h].upto
  /\ got' = IF i \in SysMailId /\ rows[i] = "due"
            THEN [got EXCEPT ![i] = IF @ < Many THEN @ + 1 ELSE @]
            ELSE got
  /\ check' = [check EXCEPT ![h].next = @ + 1]
  /\ UNCHANGED self_id

StoreSelf(h) ==
  /\ check[h].pc = "send" /\ check[h].next > check[h].upto
  /\ self_id' = check[h].upto
  /\ check' = [check EXCEPT ![h] = CheckAt("idle", 0, 0)]
  /\ UNCHANGED got

CheckStep(h) ==
  /\ ReadSelf(h) \/ ReadCurr(h) \/ SendNext(h) \/ StoreSelf(h)
  /\ UNCHANGED <<rows, max_id, curr_mail_id, call, created, overtaken>>

Checking(h) == check[h].pc # "idle"

SysMailsNext ==
  /\ (\E g \in GmCall : GmStep(g)) \/ Create \/ (\E h \in Heartbeat : CheckStep(h))
  /\ beside' = (beside \/ \E h, k \in Heartbeat : h # k /\ Checking(h)' /\ Checking(k)')

SysMailsSpec == SysMailsInit /\ [][SysMailsNext]_sysMailVars

-----------------------------------------------------------------------------
(* Properties *)

\* Every variable of the system mails (rpc_gm_proc.go, player_mail.go) has its type; no id
\* is known that has not been given.
SysMailsTypeOK ==
  /\ rows \in [SysMailId -> {"none", "empty", "before", "due"}]
  /\ max_id \in 0..MaxSysMails
  /\ curr_mail_id \in 0..max_id
  /\ call \in [GmCall -> Calls]
  /\ created \in BOOLEAN
  /\ self_id \in 0..max_id
  /\ check \in [Heartbeat -> Checks]
  /\ got \in [SysMailId -> 0..Many]
  /\ overtaken \subseteq SysMailId
  /\ beside \in BOOLEAN

\* A player who knows of a system mail has been sent it, if it is due to him: a row is
\* filled before its id is announced (SysMail), and the id is stored after the loop
\* (CheckSystemMail). It does not hold of a row that was not yet filled when another call
\* announced a later one.
SysMailReaches ==
  \A i \in SysMailId : i <= self_id /\ rows[i] = "due" /\ i \notin overtaken => got[i] >= 1

\* Nobody is sent a system mail more than twice: again with the next one, as the loop begins
\* with the last mail known, and never after that, as long as the player's heartbeats are
\* handled one at a time (CheckSystemMail).
SysMailTwiceAtMost == ~ beside => \A i \in SysMailId : got[i] <= 2
=============================================================================
