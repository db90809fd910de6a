-------------------------------- MODULE Mail --------------------------------
(***************************************************************************)
(* The mails of one player (player_mail.go). Whoever sends him a mail,     *)
(* another player's handler, a guild, the hall itself, does it in his own  *)
(* goroutine: under receive_mail_locker the mail is added, the oldest one  *)
(* making room when there are too many, and gets its items one by one;     *)
(* after that it is among the new mails the player is notified of. The     *)
(* player's own handlers list and delete mails without that lock.          *)
(*                                                                         *)
(* Each access of db.Mails takes the row's lock. A mail's items are only   *)
(* counted; what a player sends is taken from him when all is attached.    *)
(***************************************************************************)
EXTENDS Integers, FiniteSets, FiniteSetsExt

CONSTANTS
  Sender,        \* goroutines in which a call of RealSendMail may be
  NoSender,      \* nobody
  Reader,        \* requests of the player: one may enter the game beside another
  MailMaxCount,  \* global_config.MailMaxCount
  MaxItems,      \* bound: items of a mail
  MaxMails       \* bound: mails in all

ASSUME MailAssumption ==
  /\ NoSender \notin Sender
  /\ MailMaxCount \in Nat \ {0}
  /\ MaxItems \in Nat
  /\ MaxMails \in Nat

VARIABLES
  mails,                \* keys of db.Mails
  attached,             \* mail -> its items
  mail_id,              \* db.MailCommon.CurrId
  receive_mail_locker,  \* who holds it
  new_mail_ids,
  sending,              \* where each call is, with which mail, and the items left
  listing,              \* readers in GetMailList: new mails cleared, list not yet made
  meant,                \* history: mail -> the items it is sent with
  unheard               \* history: mails successfully sent that no list or notice has had

mailVars == <<mails, attached, mail_id, receive_mail_locker, new_mail_ids, sending,
              listing, meant, unheard>>

MailId == 1..MaxMails
Locked == {"count", "evict", "remove", "add", "look", "attach", "unlock"}
Sending == [pc : {"idle", "cache"} \cup Locked, mail : 0..MaxMails, left : 0..MaxItems]

SendOf(place, m, n) == [pc |-> place, mail |-> m, left |-> n]
MovesTo(s, place) == sending' = [sending EXCEPT ![s].pc = place]
MovesWith(s, place, m, n) == sending' = [sending EXCEPT ![s] = SendOf(place, m, n)]

MailInit ==
  /\ mails = {}
  /\ attached = [m \in MailId |-> 0]
  /\ mail_id = 0
  /\ receive_mail_locker = NoSender
  /\ new_mail_ids = {}
  /\ sending = [s \in Sender |-> SendOf("idle", 0, 0)]
  /\ listing = {}
  /\ meant = [m \in MailId |-> 0]
  /\ unheard = {}

-----------------------------------------------------------------------------
(* RealSendMail *)

\* A slip: the lock is not waited for.
LockNever(s, n) ==
  /\ sending[s].pc = "idle" /\ mail_id < MaxMails
  /\ receive_mail_locker' = s
  /\ MovesWith(s, "count", 0, n)
  /\ UNCHANGED <<mails, attached, mail_id, new_mail_ids, meant, unheard>>

Lock(s, n) ==
  /\ sending[s].pc = "idle" /\ mail_id < MaxMails
  /\ receive_mail_locker = NoSender
  /\ receive_mail_locker' = s
  /\ MovesWith(s, "count", 0, n)
  /\ UNCHANGED <<mails, attached, mail_id, new_mail_ids, meant, unheard>>

\* new_mail: NumAll ...
CountMails(s) ==
  /\ sending[s].pc = "count"
  /\ MovesTo(s, IF Cardinality(mails) >= MailMaxCount THEN "evict" ELSE "add")
  /\ UNCHANGED <<mails, attached, mail_id, receive_mail_locker, new_mail_ids, meant, unheard>>

\* ... GetAllIndex, the first id ...
FindOldest(s) ==
  /\ sending[s].pc = "evict"
  /\ IF mails = {} THEN MovesTo(s, "add") ELSE MovesWith(s, "remove", Min(mails), sending[s].left)
  /\ UNCHANGED <<mails, attached, mail_id, receive_mail_locker, new_mail_ids, meant, unheard>>

\* ... which may be gone when it is removed ...
RemoveOldest(s) ==
  /\ sending[s].pc = "remove"
  /\ mails' = mails \ {sending[s].mail}
  /\ MovesTo(s, "add")
  /\ UNCHANGED <<attached, mail_id, receive_mail_locker, new_mail_ids, meant, unheard>>

\* ... and IncbyCurrId, Add.
AddMail(s) ==
  /\ sending[s].pc = "add"
  /\ mail_id' = mail_id + 1
  /\ mails' = mails \cup {mail_id'}
  /\ meant' = [meant EXCEPT ![mail_id'] = sending[s].left]
  /\ MovesWith(s, "look", mail_id', sending[s].left)
  /\ UNCHANGED <<attached, receive_mail_locker, new_mail_ids, unheard>>

\* attach_mail_item looks whether the mail is still there ...
LookForMail(s) ==
  /\ sending[s].pc = "look"
  /\ IF sending[s].left = 0 THEN MovesTo(s, "unlock")
     ELSE /\ sending[s].mail \in mails
          /\ MovesTo(s, "attach")
  /\ UNCHANGED <<mails, attached, mail_id, receive_mail_locker, new_mail_ids, meant, unheard>>

\* ... when it is not, or the sender has not got the item, the call ends; what has been
\* attached stays.
GiveUp(s) ==
  /\ sending[s].pc = "look" /\ sending[s].left > 0
  /\ receive_mail_locker' = NoSender
  /\ MovesTo(s, "idle")
  /\ UNCHANGED <<mails, attached, mail_id, new_mail_ids, meant, unheard>>

\* A slip: an item that cannot be attached is left out.
AttachPerhaps(s) ==
  /\ sending[s].pc = "attach"
  /\ \E n \in {0, 1} :
       attached' = [attached EXCEPT ![sending[s].mail] = IF sending[s].mail \in mails THEN @ + n ELSE @]
  /\ MovesWith(s, "look", sending[s].mail, sending[s].left - 1)
  /\ UNCHANGED <<mails, mail_id, receive_mail_locker, new_mail_ids, meant, unheard>>

\* ... SetAttachItemIds, SetAttachItemNums: the item counts from the second one on. When
\* the mail has gone since, only the log tells.
Attach(s) ==
  /\ sending[s].pc = "attach"
  /\ attached' = [attached EXCEPT ![sending[s].mail] = IF sending[s].mail \in mails THEN @ + 1 ELSE @]
  /\ MovesWith(s, "look", sending[s].mail, sending[s].left - 1)
  /\ UNCHANGED <<mails, mail_id, receive_mail_locker, new_mail_ids, meant, unheard>>

Unlock(s) ==
  /\ sending[s].pc = "unlock"
  /\ receive_mail_locker' = NoSender
  /\ MovesTo(s, "cache")
  /\ UNCHANGED <<mails, attached, mail_id, new_mail_ids, meant, unheard>>

\* A slip: the new mail takes the place of those before.
CacheOverOthers(s) ==
  /\ sending[s].pc = "cache"
  /\ new_mail_ids' = {sending[s].mail}
  /\ unheard' = unheard \cup {sending[s].mail}
  /\ MovesTo(s, "idle")
  /\ UNCHANGED <<mails, attached, mail_id, receive_mail_locker, meant>>

cache_new_mail(s) ==
  /\ sending[s].pc = "cache"
  /\ new_mail_ids' = new_mail_ids \cup {sending[s].mail}
  /\ unheard' = unheard \cup {sending[s].mail}
  /\ MovesTo(s, "idle")
  /\ UNCHANGED <<mails, attached, mail_id, receive_mail_locker, meant>>

SendStep(s) ==
  /\ \/ \E n \in 0..MaxItems : Lock(s, n)
     \/ CountMails(s) \/ FindOldest(s) \/ RemoveOldest(s) \/ AddMail(s)
     \/ LookForMail(s) \/ GiveUp(s) \/ Attach(s) \/ Unlock(s) \/ cache_new_mail(s)
  /\ UNCHANGED listing

-----------------------------------------------------------------------------
(* The player's handlers *)

\* GetMailList: clear_cache_new_mails ...
ClearNew(r) ==
  /\ r \notin listing
  /\ listing' = listing \cup {r}
  /\ new_mail_ids' = {}
  /\ UNCHANGED <<mails, unheard>>

\* ... and db.Mails.GetMailList, which deletes the mails whose time is over.
ShowMails(r, over) ==
  /\ r \in listing
  /\ listing' = listing \ {r}
  /\ mails' = mails \ over
  /\ unheard' = unheard \ mails
  /\ UNCHANGED new_mail_ids

\* With every answer (PopCurMsgData), the new mails that are still there.
CheckNewMail(r) ==
  /\ r \notin listing
  /\ unheard' = unheard \ (new_mail_ids \cap mails)
  /\ new_mail_ids' = {}
  /\ UNCHANGED <<mails, listing>>

\* One of the mails to be deleted.
DeleteMail(r, m) ==
  /\ r \notin listing
  /\ m \in mails
  /\ mails' = mails \ {m}
  /\ UNCHANGED <<new_mail_ids, listing, unheard>>

ReadStep(r) ==
  /\ \/ ClearNew(r) \/ CheckNewMail(r)
     \/ \E over \in SUBSET mails : ShowMails(r, over)
     \/ \E m \in mails : DeleteMail(r, m)
  /\ UNCHANGED <<attached, mail_id, receive_mail_locker, sending, meant>>

MailNext == (\E s \in Sender : SendStep(s)) \/ (\E r \in Reader : ReadStep(r))

MailSpec == MailInit /\ [][MailNext]_mailVars

-----------------------------------------------------------------------------
(* Properties *)

\* Every variable of the mails (player_mail.go) has its type; an id is used once.
MailTypeOK ==
  /\ mails \subseteq 1..mail_id
  /\ attached \in [MailId -> 0..MaxItems]
  /\ mail_id \in 0..MaxMails
  /\ receive_mail_locker \in Sender \cup {NoSender}
  /\ new_mail_ids \subseteq MailId
  /\ sending \in [Sender -> Sending]
  /\ listing \subseteq Reader
  /\ meant \in [MailId -> 0..MaxItems]
  /\ unheard \subseteq MailId

\* A player never has more than MailMaxCount mails, however many are sent to him at a
\* time: between counting and adding (new_mail) nobody else adds, and a mail that was to
\* make room and is deleted by the player meanwhile has made it.
MailsWithinLimit == Cardinality(mails) <= MailMaxCount

\* No mail gets lost on the way to the client: one that has been sent and is still there is
\* among the new ones, or has been told, by the notice of an answer or by the list that is
\* made after the new ones have been cleared (GetMailList, CheckNewMail).
NewMailIsTold == listing = {} => unheard \cap mails \subseteq new_mail_ids

\* A mail the client is going to be notified of has all its items; no later sender and no
\* failing one takes any away (RealSendMail, attach_mail_item).
NewMailIsWhole == \A m \in new_mail_ids \cap mails : attached[m] = meant[m]

\* A sender makes room by the oldest mail only, though the player deletes mails between
\* its being found and its being removed (new_mail).
OldestMakesRoom ==
  [][\A m \in mails : m \notin mails' /\ sending' # sending => \A n \in mails : m <= n]_mailVars
=============================================================================
