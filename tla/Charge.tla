------------------------------- MODULE Charge -------------------------------
(***************************************************************************)
(* Purchases of the hall server (pay.go, player_charge.go): the            *)
(* verification of a store's order against the orders kept in Redis, the   *)
(* credit that follows it, and the month cards, whose mails the goroutine  *)
(* of ChargeMonthCardManager sends day by day.                             *)
(*                                                                         *)
(* A purchase runs in the goroutine of its request or, when a GM sends the *)
(* card, in one of the rpc server's. The message lock of a player does not *)
(* cover the latter and is lost at a login (see PlayerSession), so any two *)
(* purchases may run at a time.                                            *)
(***************************************************************************)
EXTENDS Integers, Sequences, FiniteSets

CONSTANTS
  Payer,          \* players who buy
  Order,          \* orders issued by a store
  NoOrder,        \* the order of a purchase that a GM sends
  Purchase,       \* goroutines that may be inside a purchase
  CardDays,       \* MONTH_CARD_DAYS_NUM
  MaxBegun,       \* bound: purchases
  MaxDue          \* bound: days nobody has looked at a card

ASSUME ChargeAssumption ==
  /\ Payer # {}
  /\ NoOrder \notin Order
  /\ CardDays \in Nat \ {0}
  /\ MaxBegun \in Nat \ {0}
  /\ MaxDue \in Nat \ {0}

VARIABLES
  buy,             \* buy[r]: where purchase r is, for whom, of what
  is_paying,       \* players whose is_paying is 1
  orders,          \* fields of the Redis hash of the store
  send_num,        \* SendMailNum of the card in db.Pays, NoCard without one
  days,            \* GetDaysNumToLastSaveTime, Never when LastAwardTime is 0
  player_ids_chan, \* requests to the manager
  players_map,     \* players the manager looks after
  mgr,             \* where the manager's goroutine is
  begun,           \* history: purchases begun
  credited,        \* history: how often an order was credited
  loose,           \* history: orders that nothing protects any more
  bought,          \* history: cards credited to a player
  crossed,         \* history: players with two purchases of a card at a time
  mailed           \* history: mails sent to a player

chargeVars == <<buy, is_paying, orders, send_num, days, player_ids_chan,
                players_map, mgr, begun, credited, loose, bought, crossed, mailed>>

NoCard == -1
Never  == -1

Places == {"idle", "verify", "check", "save", "release", "credit",
           "award_time", "insert"}

\* What is bought: a bundle of goods, a first month card, or one for a player
\* who had a card before, as the look at his cards found.
Bundles == {"goods", "card", "renewal"}

Buys == [pc : Places, p : Payer, order : Order \cup {NoOrder}, what : Bundles]

Buying(place, p, order, what) == [pc |-> place, p |-> p, order |-> order, what |-> what]

AnyPayer == CHOOSE p \in Payer : TRUE
Idle     == Buying("idle", AnyPayer, NoOrder, "goods")

Managers == [pc : {"drain", "send", "award"}, todo : SUBSET Payer,
             gone : SUBSET Payer, p : Payer, left : 0 .. MaxDue,
             num : 0 .. MaxDue]

ChargeInit ==
  /\ buy = [r \in Purchase |-> Idle]
  /\ is_paying = {}
  /\ orders = {}
  /\ send_num = [p \in Payer |-> NoCard]
  /\ days = [p \in Payer |-> Never]
  /\ player_ids_chan = {}
  /\ players_map = {}
  /\ mgr = [pc |-> "drain", todo |-> {}, gone |-> {},
            p |-> AnyPayer, left |-> 0, num |-> 0]
  /\ begun = 0
  /\ credited = [o \in Order |-> 0]
  /\ loose = {}
  /\ bought = [p \in Payer |-> 0]
  /\ crossed = {}
  /\ mailed = [p \in Payer |-> 0]

At(r, place)  == buy[r].pc = place
GoTo(r, place) ==
  buy' = [buy EXCEPT ![r] = IF place = "idle" THEN Idle
                            ELSE Buying(place, @.p, @.order, @.what)]

-----------------------------------------------------------------------------
(* A purchase: _charge_with_bundle_id and what it calls.                   *)

CardInUse(p) == send_num[p] \in 0 .. CardDays - 1

\* Purchases of a card that have looked at the card and not yet credited it.
BuyingCard(p) == {r \in Purchase : /\ buy[r].p = p
                                   /\ buy[r].what # "goods"
                                   /\ buy[r].pc \notin {"idle", "award_time", "insert"}}

\* The look at the card comes first; a card in use refuses the purchase. An
\* order makes it a purchase at a store, without one it comes from a GM.
BeginCharge(r) ==
  /\ At(r, "idle")
  /\ begun < MaxBegun
  /\ begun' = begun + 1
  /\ \E p \in Payer, order \in Order \cup {NoOrder} :
       \E what \in {"goods", IF send_num[p] = NoCard THEN "card" ELSE "renewal"} :
         /\ what = "goods" => order # NoOrder
         /\ what # "goods" => ~ CardInUse(p)
         /\ buy' = [buy EXCEPT ![r] =
              Buying(IF order = NoOrder THEN "credit" ELSE "verify", p, order, what)]
         /\ crossed' = IF what # "goods" /\ BuyingCard(p) # {}
                       THEN crossed \cup {p} ELSE crossed
  /\ UNCHANGED <<is_paying, orders, send_num, days, player_ids_chan, players_map,
                 mgr, credited, loose, bought, mailed>>

\* A slip: the is_paying of the player is not looked at.
TryPayUnguarded(r) ==
  /\ At(r, "verify")
  /\ is_paying' = is_paying \cup {buy[r].p}
  /\ GoTo(r, "check")
  /\ UNCHANGED <<orders, send_num, days, player_ids_chan, players_map, mgr,
                 credited, loose, bought, crossed, begun, mailed>>

\* CompareAndSwap of is_paying; a player who is paying already is refused.
TryPay(r) ==
  /\ At(r, "verify")
  /\ is_paying' = is_paying \cup {buy[r].p}
  /\ GoTo(r, IF buy[r].p \in is_paying THEN "idle" ELSE "check")
  /\ UNCHANGED <<orders, send_num, days, player_ids_chan, players_map, mgr,
                 credited, loose, bought, crossed, begun, mailed>>

\* Purchases of other players that have found the order unused.
Rivals(r) == {s \in Purchase : /\ buy[s].pc = "save"
                               /\ buy[s].order = buy[r].order
                               /\ buy[s].p # buy[r].p}

\* check_google_order_exist, check_apple_order_exist: an error of Redis
\* counts as "not there".
CheckOrder(r) ==
  /\ At(r, "check")
  /\ \E error \in BOOLEAN :
       IF buy[r].order \in orders /\ ~ error
       THEN /\ GoTo(r, "idle")
            /\ is_paying' = is_paying \ {buy[r].p}
            /\ UNCHANGED loose
       ELSE /\ GoTo(r, "save")
            /\ loose' = IF error \/ Rivals(r) # {}
                        THEN loose \cup {buy[r].order} ELSE loose
            /\ UNCHANGED is_paying
  /\ UNCHANGED <<orders, send_num, days, player_ids_chan, players_map, mgr,
                 credited, bought, crossed, begun, mailed>>

\* The signature, or the store's answer, is not what it should be; Apple's
\* answer comes before the look at its orders.
VerifyFails(r) ==
  /\ buy[r].pc \in {"check", "save"}
  /\ GoTo(r, "idle")
  /\ is_paying' = is_paying \ {buy[r].p}
  /\ UNCHANGED <<orders, send_num, days, player_ids_chan, players_map, mgr,
                 credited, loose, bought, crossed, begun, mailed>>

\* google_pay_save, apple_pay_save: a failed HSET is only logged.
SaveOrder(r) ==
  /\ At(r, "save")
  /\ GoTo(r, "release")
  /\ \E error \in BOOLEAN :
       IF error
       THEN /\ loose' = loose \cup {buy[r].order}
            /\ UNCHANGED orders
       ELSE /\ orders' = orders \cup {buy[r].order}
            /\ UNCHANGED loose
  /\ UNCHANGED <<is_paying, send_num, days, player_ids_chan, players_map, mgr,
                 credited, bought, crossed, begun, mailed>>

ReleasePay(r) ==
  /\ At(r, "release")
  /\ GoTo(r, "credit")
  /\ is_paying' = is_paying \ {buy[r].p}
  /\ UNCHANGED <<orders, send_num, days, player_ids_chan, players_map, mgr,
                 credited, loose, bought, crossed, begun, mailed>>

\* Diamonds and items, and for a card SendMailNum: set to 0 when the bundle
\* was there at the look, added with it (unless it is there by now) otherwise.
Credit(r) ==
  LET p == buy[r].p IN
  /\ At(r, "credit")
  /\ credited' = [o \in Order |-> credited[o] + IF o = buy[r].order THEN 1 ELSE 0]
  /\ IF buy[r].what # "goods"
     THEN /\ GoTo(r, "award_time")
          /\ send_num' = [send_num EXCEPT ![p] =
                            IF buy[r].what = "renewal" \/ @ = NoCard THEN 0 ELSE @]
          /\ bought' = [bought EXCEPT ![p] = @ + 1]
     ELSE /\ GoTo(r, "idle")
          /\ UNCHANGED <<send_num, bought>>
  /\ UNCHANGED <<is_paying, orders, days, player_ids_chan, players_map, mgr,
                 loose, crossed, begun, mailed>>

\* LastAwardTime becomes 0, as it is in a new row.
ResetAwardTime(r) ==
  /\ At(r, "award_time")
  /\ GoTo(r, "insert")
  /\ days' = [days EXCEPT ![buy[r].p] = IF buy[r].what = "renewal" THEN Never ELSE @]
  /\ UNCHANGED <<is_paying, orders, send_num, player_ids_chan, players_map, mgr,
                 credited, loose, bought, crossed, begun, mailed>>

\* InsertPlayer: into the channel, whether the manager has him already or not.
InsertPlayer(r) ==
  /\ At(r, "insert")
  /\ GoTo(r, "idle")
  /\ player_ids_chan' = player_ids_chan \cup {buy[r].p}
  /\ UNCHANGED <<is_paying, orders, send_num, days, players_map, mgr, credited,
                 loose, bought, crossed, begun, mailed>>

-----------------------------------------------------------------------------
(* The manager: Run, _process_send_mails and charge_month_card_award.      *)

managerUnchanged == UNCHANGED <<buy, is_paying, orders, credited, loose, bought, crossed, begun>>

\* A slip: each pass begins with those in the channel only.
DrainOverOthers ==
  /\ mgr.pc = "drain"
  /\ players_map' = player_ids_chan
  /\ player_ids_chan' = {}
  /\ mgr' = [mgr EXCEPT !.pc = "send", !.todo = players_map', !.gone = {}]
  /\ managerUnchanged
  /\ UNCHANGED <<send_num, days, mailed>>

DrainPlayers ==
  /\ mgr.pc = "drain"
  /\ players_map' = players_map \cup player_ids_chan
  /\ player_ids_chan' = {}
  /\ mgr' = [mgr EXCEPT !.pc = "send", !.todo = players_map', !.gone = {}]
  /\ managerUnchanged
  /\ UNCHANGED <<send_num, days, mailed>>

DaysDue(p) == IF days[p] = Never THEN 1 ELSE days[p]

\* charge_has_month_card: a player without a card in use is to go; for another
\* one the days since the last award are counted.
LookAtCard(p) ==
  /\ mgr.pc = "send"
  /\ p \in mgr.todo
  /\ mgr' = IF CardInUse(p)
            THEN [mgr EXCEPT !.pc = "award", !.p = p, !.todo = @ \ {p},
                             !.left = DaysDue(p), !.num = DaysDue(p)]
            ELSE [mgr EXCEPT !.todo = @ \ {p}, !.gone = @ \cup {p}]
  /\ managerUnchanged
  /\ UNCHANGED <<send_num, days, player_ids_chan, players_map, mailed>>

\* A slip: one mail more than the card is good for.
SendCardMailsOver ==
  /\ mgr.pc = "award"
  /\ mgr.left > 0
  /\ mailed' = [mailed EXCEPT ![mgr.p] = @ + 1]
  /\ send_num' = [send_num EXCEPT ![mgr.p] = @ + 1]
  /\ mgr' = [mgr EXCEPT !.left = IF send_num[mgr.p] >= CardDays THEN 0 ELSE @ - 1]
  /\ managerUnchanged
  /\ UNCHANGED <<days, player_ids_chan, players_map>>

\* A mail for one day; the card's last one ends the loop.
SendCardMail ==
  /\ mgr.pc = "award"
  /\ mgr.left > 0
  /\ mailed' = [mailed EXCEPT ![mgr.p] = @ + 1]
  /\ send_num' = [send_num EXCEPT ![mgr.p] = @ + 1]
  /\ mgr' = [mgr EXCEPT !.left = IF send_num'[mgr.p] >= CardDays THEN 0 ELSE @ - 1]
  /\ managerUnchanged
  /\ UNCHANGED <<days, player_ids_chan, players_map>>

\* SetLastAwardTime(now), when there was a day to award.
AwardEnds ==
  /\ mgr.pc = "award"
  /\ mgr.left = 0
  /\ mgr' = [mgr EXCEPT !.pc = "send", !.num = 0]
  /\ days' = [days EXCEPT ![mgr.p] = IF mgr.num > 0 THEN 0 ELSE @]
  /\ managerUnchanged
  /\ UNCHANGED <<send_num, player_ids_chan, players_map, mailed>>

\* The players to go leave the map when all have been looked at.
DropPlayers ==
  /\ mgr.pc = "send"
  /\ mgr.todo = {}
  /\ players_map' = players_map \ mgr.gone
  /\ mgr' = [mgr EXCEPT !.pc = "drain", !.gone = {}]
  /\ managerUnchanged
  /\ UNCHANGED <<send_num, days, player_ids_chan, mailed>>

\* The time of MonthCardSendRewardTime comes round. A pass of the manager takes
\* no noticeable time: it uses one now_time throughout.
DayPasses ==
  /\ mgr.pc = "drain"
  /\ \E p \in Payer : days[p] \in 0 .. MaxDue - 1
  /\ days' = [p \in Payer |-> IF days[p] \in 0 .. MaxDue - 1 THEN days[p] + 1 ELSE days[p]]
  /\ managerUnchanged
  /\ UNCHANGED <<send_num, player_ids_chan, players_map, mgr, mailed>>

PurchaseStep(r) ==
  \/ BeginCharge(r) \/ TryPay(r) \/ CheckOrder(r) \/ VerifyFails(r) \/ SaveOrder(r)
  \/ ReleasePay(r) \/ Credit(r) \/ ResetAwardTime(r) \/ InsertPlayer(r)

ManagerStep ==
  \/ DrainPlayers
  \/ \E p \in Payer : LookAtCard(p)
  \/ SendCardMail
  \/ AwardEnds
  \/ DropPlayers

ChargeNext ==
  \/ \E r \in Purchase : PurchaseStep(r)
  \/ ManagerStep
  \/ DayPasses

ChargeSpec == ChargeInit /\ [][ChargeNext]_chargeVars

-----------------------------------------------------------------------------
(* Properties                                                              *)

\* Every variable of purchases and of the manager (pay.go, player_charge.go) is
\* of its type; SendMailNum stays within the days of a card.
ChargeTypeOK ==
  /\ buy \in [Purchase -> Buys]
  /\ is_paying \subseteq Payer
  /\ orders \subseteq Order
  /\ send_num \in [Payer -> {NoCard} \cup (0 .. CardDays)]
  /\ days \in [Payer -> {Never} \cup (0 .. MaxDue)]
  /\ player_ids_chan \subseteq Payer
  /\ players_map \subseteq Payer
  /\ mgr \in Managers
  /\ begun \in 0 .. MaxBegun
  /\ credited \in [Order -> Nat]
  /\ loose \subseteq Order
  /\ bought \in [Payer -> Nat]
  /\ crossed \subseteq Payer
  /\ mailed \in [Payer -> Nat]

\* An order of a store is credited once at most, however often and from
\* wherever the client sends it (verify_google_purchase_data): all that keeps
\* the check and the save of the order together is is_paying. It does not hold
\* for an order whose check or save met an error of Redis, nor when another
\* player sends the same order at the same time (loose).
OrderCreditedOnce == \A o \in Order \ loose : credited[o] <= 1

\* A player with a card in use is in the manager's map and stays there, or is in
\* the channel, or his purchase is about to put him there: otherwise no mail
\* would come for the days he has paid for (InsertPlayer, _process_send_mails).
CardHolderIsServed ==
  \A p \in Payer : CardInUse(p) =>
    \/ p \in players_map \ mgr.gone
    \/ p \in player_ids_chan
    \/ \E r \in Purchase : buy[r].p = p /\ buy[r].pc \in {"award_time", "insert"}

\* Every card gives the mails of its days, neither more nor fewer: the cards
\* before the present one have given all of theirs. It does not hold when two
\* purchases of a card have both looked before either was credited (crossed).
CardMailsAddUp ==
  \A p \in Payer \ crossed :
    IF bought[p] = 0 THEN mailed[p] = 0
    ELSE mailed[p] = CardDays * (bought[p] - 1) + send_num[p]
=============================================================================
