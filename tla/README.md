# A verification development of ih_server

`ih_server` is the server side of a mobile game, written in Go: hall servers (the
game itself), login servers (accounts), a center server (who is there), an rpc
server (calls between halls, GM commands) and Redis for what the halls share.
This directory holds TLA+ specifications of the parts that carry the server's own
logic, TLC configurations that model-check them, and proofs for TLAPS.

Paths such as `player.go` below are in `src/src/hall_server/` unless they say
otherwise.

## 1. The system

### 1.1 Components

| component | state | operations | hard because |
|---|---|---|---|
| connection timers (`conn_timer_wheel.go`) | ring of lists, index, players map, request channel | Insert, Remove (any goroutine), Run (one goroutine) | ring arithmetic over pauses of any length; two structures that must agree; bounded channel |
| player sessions (`msg_handler.go`, `player.go`, `player_manager.go`) | per player `is_lock`, `is_login`; id and uid maps | enter game, leave, reconnect, any other message; time-out; ban | one goroutine per HTTP request, timers and GM commands beside them; panics are recovered in three places |
| login tokens (`login_token.go`) | uid -> token, account -> uid; copy in Redis | sync from the login server, reconnect, binding of a new account | token checked at the start of a request, replaced inside it |
| database cache (`a_db_tables.go`, generated) | per table three maps of rows; per row flags and columns; the SQL table | AddRow, RemoveRow, GetRow, setters; Save; Loop; Shutdown; Preload | write-behind in many small steps, failing statements, crashes, two savers |
| player store (`a_db_ext.go`, `player_manager.go`) | id counter, Players table, id map | new player, save, restart | counter and players are saved by separate statements |
| the hall's links (`center_conn.go`, `login_conn*.go`; `src/src/login_server/hall_agent_manager.go`) | `login_conn_mgr`: an object per login server; at the login server an agent per hall | the center's list, add, remove; dial, run, lose; register, disconnect | a close that waits with a time-out; ends of one hall that overlap |
| center server (`src/src/center_server`) | login servers and halls that are connected; a hall's view of them | register, disconnect, broadcast | reconnections overtake disconnections; a list and a broadcast overtake each other |
| login server (`src/src/login_server`) | accounts, bans, hall agents | register, login, select server, bind account | look-up and addition of a row are separate steps |
| guilds (`guild*.go`) | rows of several players and guilds | found, ask, agree, quit, remove, appoint, dissolve | two rows under two locks |
| friends (`player_friend.go`) | friend lists of two players; a player's boss | ask, agree, refuse, remove; search, fight, sweep | two rows without a common lock; a boss met while it is being filled |
| payments (`pay.go`, `player_charge.go`) | orders in Redis; month cards; players with a card | verify, credit, card; a mail per day | check and save of an order are two calls; a goroutine works on the cards meanwhile |
| mail (`player_mail.go`, `rpc_gm_proc.go`) | a player's mails, new mails; system mails, the last id announced and the last one a player knows | send, list, notify, take, delete; GM's system mail, check with each heartbeat | senders hold a lock the player's handlers do not take; rows are filled and announced in steps |
| rank lists (`src/libs/utils/short_ranklist.go`, `player_role_power_rank.go`; `rank_list.go`) | sorted array and key map; the power last told of a player's first roles | update, delete, query; tell | two structures that must agree; who must be told of a change depends on the rank before and after |
| shared player lists (`src/src/share_data/account_player_list.go`) | a Redis field per uid | load, change, save | lost update between halls |
| battles, roles, items, campaign, shops, tasks ... | one player's row | one handler each | large, but sequential and driven by tables |

`PROJECT.json` lists every component, modelled or not, with the reason.

### 1.2 How they interact

- A client sends an HTTP request with a token and a list of messages.
  `client_msg_handler` checks the token against `login_token_mgr`, finds the player
  by uid and hands each message to its handler; a player message runs under the
  compare-and-swap lock `is_lock` of its player. When the messages are done, the
  request asks the timer goroutine, over a bounded channel, to restart the player's
  timer.
- The timer goroutine drains the channel, walks the lists whose seconds are over
  and calls `OnLogout` on their players. A panic there is recovered outside of its loop and ends it.
- The login server sends a token for a uid (`L2HSyncAccountToken`); the hall's
  `reconnect` makes a new one; the GM's ban, through the rpc server, logs a player
  out and writes a row of `BanPlayers`.
- All handlers change rows of the database cache in memory. `DBC.Loop` saves the
  tables in a fixed order, Global (the id counters) first, Players second, and leaves the rest
  of them when the save of one fails.
  `HallServer.Shutdown` saves once more and then has Loop make its last save.
- At a start `Preload` fills the cache and `on_preload` the id and uid maps.

### 1.3 What makes each one correct

- **Timers**: a player goes offline when HeartbeatInterval seconds have passed
  without a request, and only then; lists and map agree.
- **Sessions**: whoever is online has a timer or somebody who will give him one; a
  message handler has its player's lock and the lock is always given back; a uid
  keeps its player; every request is answered and silent players go offline, while the timer
  goroutine runs; the newest login holds the token.
- **Database cache**: what is not marked as changed is in the database; removed
  rows stay removed; a record never returns to older columns; every change is
  saved some time, the last ones at shutdown, when the save gets to the table.
- **Player store**: ids are unique over restarts; a saved player keeps his record;
  a player's changes go to the row that is saved.
- **Guilds**: no player is in two guilds; the guild's row and the player's agree; the
  president belongs to his guild; authority ends with the membership it was given in;
  the member limit holds.
- **Links**: a connection of the hall that may come up is in the hall's map, or a handler
  is closing it; a login server's agent of a hall is a connection the hall has.
- **Registry**: the center lists the login servers that are connected; a hall knows
  that list once nothing is under way, less the servers it has itself lost its link to.
- **Accounts**: the unique id a hall was told of an account stays the account's;
  a binding hands the players of one account to one other.
- **Friends**: a friendship has both rows or none; the limit holds; a boss is rewarded
  once, when all its monsters have fallen.
- **Purchases**: an order is credited once; who has a card gets the mails of its days,
  neither more nor fewer.
- **Rank lists**: the map leads to the items, the best stand first, an update moves one key and
  nobody else; every role of a player is ranked by its power, but for one that finds no place beside
  each key ranked unchecked, and what is told of the first places is what they are.
- **Mails**: the box keeps its limit and loses none but the oldest mail; a new mail is whole
  and the client is told of it; a system mail reaches whom it is due to, and nobody for ever.
- **Not yet modelled**: no hall's entry of a uid's player list is lost.

## 2. Modules

| module | models | state -> code |
|---|---|---|
| `ConnTimer` | the promise of the timers | `left`: seconds a player has left |
| `ConnTimerWheel` | `conn_timer_wheel.go` | the fields of `ConnTimerWheel`; `pc` is the place in `Run`; `offlined` the players of the last pass |
| `ConnTimerWheel_proofs` | proofs about it | |
| `PlayerSession` | requests, sessions, tokens, ban | `pc[r]`, `p_of[r]`, `uid[r]`: a request's goroutine; `is_lock`, `is_login`: `Player`; `id2players`, `uid2players`: `player_mgr`; `token`: `login_token_mgr`; `op_chan`, `timers`, `wheel`: the timers with the seconds left out, and their goroutine, which may have "ended" |
| `PlayerSession_proofs` | proofs about it | |
| `DbTable` | one table of the cache | `m_rows`, `m_new_rows`, `m_removed_rows`, `row` (flags and a version for the columns), `saver[s]` (where a `Save` is; Loop ends "closed" or, its last save not having come to this table, "cut"), `disk` (the SQL table) |
| `DbTable_proofs` | proofs about it | |
| `PlayerStore` | counter, Players table, id map; an instance of `DbTable` | `m_CurrentPlayerId` and its flag in memory, `CurrentPlayerId` in the database, `creator`: the enter-game handler of a new account |
| `PlayerStore_proofs` | proofs about it | |
| `Guild` | membership of guilds (`guild.go`) | `exist_type`, `president`, `members`, `asks`, `due`: the rows of `dbc.Guilds`; `guild_id`, `position`: the players' column Guild; `locked`: `join_guild_locker`; `h[p]`: where the handler of p's message is |
| `Guild_proofs` | proofs about it | |
| `HallLinks` | the hall's `LoginConnection`s and `LoginConnectionMgr`, the login server's `HallAgentManager` | `state`, `net`, `serverid`: an object and its node's connection; `id2loginconn`; `handler`: the goroutine that reads the center; `ends`, `id2agents`: the login server's side |
| `LoginRegistry` | the center's `LoginInfoManager`, `LoginAgentManager`, `HallAgentManager`, and what a hall makes of their messages | `lc`, `hc`: a connection's goroutine; `logins`, `id2agent`: the managers; `toHall`: the messages on the way; `known`: the keys of `login_conn_mgr`, which the center's messages and the loss of a link change |
| `Accounts` | `login_server.go`: register, login, bind | `accounts`, `unique_id`, `channel`, `bind_to`, `old_account`: the rows of `dbc.Accounts`; `req[r]`: a request's goroutine |
| `Logins_proofs` | proofs about `HallLinks`, `LoginRegistry` and `Accounts` | |
| `Friends` | friend asks, agreements, refusals, removals | `friends`, `friend_asks`: the columns of a player; `talk[p]`: where p's handler is, with whom, who is left |
| `FriendBoss` | the boss of a player: search, challenge, sweep, reward | `boss_id`, `refreshed`: columns of `db.FriendCommon`; `monsters`: the keys of `db.FriendBosss`; `fighting`: `fighing_friend_boss`; `fight[c]`: a challenger's goroutine; `search`, `coming`: the owner's search |
| `Charge` | `pay.go`, `player_charge.go`: verification, credit, month cards | `buy[r]`: a purchase's goroutine; `orders`: the Redis hash; `send_num`, `days`: a card's row; `player_ids_chan`, `players_map`, `mgr`: `ChargeMonthCardManager` |
| `Ranking` | the promise of a rank list | `value`, `rank` of a key |
| `ShortRankList` | `short_ranklist.go` | `items`, `curr_num`, `keys_map`: its fields |
| `RolePowerRank` | a player's roles by power; extends `ShortRankList` | `roles`: the keys of `db.Roles`; `power`: what `get_role_power` makes of the row; `told_powers`: what `rank_list_mgr` has been told; `to_load`, `loaded`: `LoadRolesPowerRankData`; `intruders`: the keys ranked that were no role |
| `Mail` | one player's box: `RealSendMail` and the handlers of mails | `mails`, `attached`, `mail_id`: the columns `db.Mails`, `db.MailCommon`; `receive_mail_locker`, `new_mail_ids`: `Player`; `sending[s]`: where a call is, with which mail, items left; `listing`: the handlers inside `GetMailList` |
| `SysMails` | system mails: `G2H_Proc.SysMail`, `CheckSystemMail` | `rows`, `max_id`: the table `SysMails`; `curr_mail_id`: `SysMailCommon`; `self_id`: `db.SysMail`; `call[g]`, `check[h]`: the goroutines |
| `PlayerData_proofs` | proofs about `ShortRankList`, `RolePowerRank`, `Mail` and `SysMails` | |
| `MCServices` | the ten components from `HallLinks` to `SysMails` side by side | `focus`: the one that moves |
| `HallServices_proofs` | proofs about `Friends`, `FriendBoss`, `Charge` and `MCServices` | |

Notes on the abstraction:

- Steps are cut where another goroutine can come in between: at channel
  operations, atomic operations, lock regions and SQL statements. What a goroutine
  does alone between two of them is one action.
- `ConnTimerWheel` keeps lists as sets of players. The order inside a list only
  orders the logouts of one pass. The pass looks the player of each timer up in
  `player_mgr`; that he is always found is `TimersAreKnown` of
  `PlayerSession`, which is proved. The pass itself is one step: nothing else touches the ring.
- In `PlayerSession` a token is represented by the login it descends from, so that
  "whose token is it" can be stated. A message handler is one of three kinds:
  leave, reconnect, or any other one (which changes data that is not in this
  module, and may panic). `EnterRefused` stands for every early return of the
  enter-game handler. A pass of the timers may find any running timer over.
  When the settlement in `OnLogout` panics, the goroutine of the timers ends for good (`WheelPanics`); the
  player's `is_login` is 0 by then. The channel fills after that, and requests, and a ban, may wait for ever.
- In `DbTable` the columns of a row are one version number; an INSERT fails for a
  key that is taken, an UPDATE of a key that is not there does nothing. A
  restart may come at any step and starts from `disk`; the history variables
  `failed`, `late`, `overlap` say what has happened since the start, so that the
  properties can name what they exclude. `quick` saves ignore `m_quit`. The other tables are
  what they can do to this one: `DBC.Save` may return before it comes to it (`SaveCutShort`), the last save too.
- `PlayerStore` uses one creating request at a time; concurrent creations are in
  `PlayerSession`.
- In `Guild` the handlers are cut at each store to another row, and where a lock is
  taken; checks before the first store are one step with `_get_guild`, which repairs what
  differs. Founding stores the guild's row and then the player's column (`guild.go:257`); the two are one step: a
  handler that came between would have to name the new guild's id before anybody has been told of it. The lists of a message are sets, taken in any
  order. Names, levels, logs, signing in and the waiting
  time after quitting are left out. `late` becomes true when a handler stores (or is bound to store, when a
  dissolving begins) something for a membership or presidency that has ended since it looked.
- In `HallLinks` the center is left open: any list, add or remove may come at any time,
  which is more than `LoginRegistry` sends. An object that was dialled in vain stays
  "stuck", since its loops never run. A close that times out (`ServerConn.Close` waits ten
  seconds) makes the login server `late`. `AddLogin` of a server without an address (`login_conn_mgr.go:79`), which
  takes the old object out of the map and makes no new one, is not modelled: login servers send the address they are configured with.
- `LoginRegistry` has one hall and one center; each end may lose a connection and make
  the next before the other end has noticed. A handler is cut where it takes a manager's
  lock or broadcasts. Of the messages between center and hall, what is on the way at a
  loss is lost, all else comes in order. The links themselves are those of `HallLinks`; here is the loss of one
  (`HallLosesLogin`), by which its key goes at any time and stays away until the center tells of the server.
- `Accounts` has a unique id for each request that generates one, and no password.
  `AddRow` of an account that is there by now is nil, or a row that `GetRow` will never give
  (`lost`), as the cache has it (see `DbTable`).
- `Friends` cuts a handler at each store to one of the two rows; the checks before the
  first store are one step. The ids of a message are a set, taken in any order.
- `FriendBoss` keeps a monster's life only as "stands" or "has fallen"; what a fight does is a choice. A
  sweep fights up to `MaxSweep` times in one go.
- `Charge` has both stores in one: they differ in the order of the store's answer and
  the look at the orders, which `VerifyFails` covers. An error of Redis may happen at each call. A day may pass whenever the manager
  is between two passes. A purchase by a GM has no order. The manager's look at a card reads three columns of its row
  (`player_charge.go:118`), one after the other; it is one step.
- The components of `MCServices` share no variable, but for the list that is once moved by any calls and once by the
  roles of a player. One of them moves in a behaviour and the
  others stay as they began, so that the states are the sum of theirs and not their product.
- `ShortRankList` is sequential: its user's lock is held. A call is one action. An item is a key and a
  value; that a better value comes first and an equal one behind is `Greater` of the code's items.
- In `RolePowerRank` a handler that changes a role is one action with the ranking at its end, as the
  player's requests are handled one at a time. A server that starts finds at most `MaxRoleCount`
  roles, as the handlers leave it. `item_upgrade` (`player_item.go:773`) ranks the role the request names without asking whether
  there is one (`RankStranger`); the power it is ranked by is whatever `roles_power` holds under the key, or nothing. `MaxUnranked` and
  `MaxIntruders` bound how many roles are changed unranked at a time, and how many such keys there ever are.
- In `Mail` a step is one call of the column `db.Mails`, which takes the row's lock; the items of a mail
  are counted. That `GetMailList` deletes from the map under a read lock only, beside others who
  read it, is a data race of the map itself (Go may stop the program) and is left out. An item is attached by two calls, ids and
  numbers; the items of a mail are read together, so that it counts from the second.
- `SysMails` follows one player. A row is what `CheckSystemMail` makes of it: not there, without a time of
  sending, sent before the player was created, or due. `got` counts the calls of `RealSendMail`; what becomes of
  each is `Mail`.

History variables (`offlined`, `logins`, `reentered`, `abandoned`, `failed`,
`late`, `overlap`, `behind`, `globalFailed`, in `Guild` `late`, `ended`, `crowded`; in `HallLinks` `late`, `doubled`; in `LoginRegistry` `lost`,
`overlap`, `raced`, `untold`; in `Accounts` `told`, `rushed`, `twice`; in `Friends` `asked`, `tangled`, `crowded`; in
`FriendBoss` `found`, `beaten`, `rewarded`, `early`; in `Charge` `begun`, `credited`, `loose`, `bought`,
`crossed`, `mailed`; in `RolePowerRank` `unranked`, `intruders`; in `Mail` `meant`, `unheard`; in `SysMails` `got`, `overtaken`,
`beside`; those that count are also bounds) do not occur in any guard that the
code does not have.

Definitions marked "a slip" are deliberate mistakes (a dropped guard, a missing
reset, an old index). `PROJECT.json` "mutants" names for every checked property the
slip that TLC finds to break it; the specifications never use them.

## 3. What is checked

| run | configuration | expected | shows |
|---|---|---|---|
| `wheel` | 2 players, interval 2 (ring of 6), channel 2, clock to 9 | pass | the ring implements `ConnTimer`: whom it puts offline, and when |
| `session` | 2 requests, 1 uid, channel 1, 2 players, 2 messages, 1 login | pass | timers, locks, panics; a uid keeps its player |
| `session_live` | the same with 1 player and 1 message, fairness | pass | every request is answered; silence ends sessions; both while the timer goroutine runs, and which requests are stuck when it has ended |
| `session_lock` | 2 messages, 2 logins | violation of `OneMessageAtATime` | `OnLogin` frees a lock it does not have |
| `session_token` | the same | violation of `NewestLoginHolds` | a reconnect in flight undoes a newer login |
| `db_table` | 2 ids, 2 row objects, 1 change, both savers, fairness | pass | no change lost, removed rows stay removed, every change saved but for saves cut short by another table |
| `db_shutdown` | 1 id, 2 changes, both savers | violation of `ShutdownSavesAll` | overlapping saves leave an older record behind |
| `player_store` | counter to 2, 3 row objects, 1 change, both savers | pass | the counter and the records of players over restarts |
| `player_ids` | one saver | violation of `IdIsFree` | a crash between the two saves has an id issued twice |
| `guild` | 3 players, 2 guilds of 2 members, 2 handlers at a time, 1 player per message, 1 request waiting | pass | both sides of a membership agree; one guild per player; authority |
| `guild_limit` | 4 players, 1 guild of 3 members, lists of 2, 2 requests waiting | pass | the member limit, but for two lists agreed at a time |
| `services` | `MCServices`: purchases of 2 players (1 order, 2 goroutines, 2 purchases, cards of 2 days, 3 days due); friendships of 2 players (limit 2, 5 asks); 2 challengers, 2 bosses of 2 monsters; 1 login server with 3 links; 2 login server ids with 2 connections and a hall with 2, 3 messages on the way; 3 accounts, 3 requests; a list of 3 places for 4 keys with values to 2, and 4 roles for it with 2 places told, 1 role changed unranked at a time and 1 key ranked that is no role; a box of 1 mail, 2 senders and 2 requests of the player, 3 mails of an item or none; 2 calls of the GM and 2 heartbeats, 3 system mails | pass | the properties of the ten components, each but for what it names; the list implements `Ranking` |

Bounds and why they are enough:

- *wheel*: with interval 2 the ring has 6 lists, the clock goes to 9, so a pause can
  be shorter than, equal to and longer than the ring, from the index -1, from 0 and
  from others after one or two passes; two players share lists or not. For other
  sizes there are the proofs.
- *session*: two requests of one uid are what the races need (double creation, two
  messages, a reconnect against a login); the third party is the timer goroutine
  or the ban, which are always there. A channel of one place is full at once, so
  that every send can block. Two messages per request let a request enter and then
  leave, or lose its player.
- *db_table*: two ids let one row fail while another goes on; two objects let an id
  be removed and added again; one change after the INSERT needs an UPDATE. The proofs lift these bounds
  for all but `ChangesAreSaved`.
- *player_store*: with ids to 2 and three creations an id is issued again after a
  restart, and a third creation follows. The proofs lift these bounds.
- *guild*: the races are between two handlers about a third player, or about one of their own;
  two guilds let a player ask one and join or found the other. The room for two, so that agreeing meets a full
  guild; *guild_limit* has two lists for one free place. The proofs lift these bounds. Both runs follow a behaviour up to
  its first late store (`UpToLateStore`): nothing is claimed of what comes after, and
  TLC shows that a late store does break the agreement of rows (it is the hazard of
  `guild.go:1335` and `:1262`).
- *services*: an order is sent twice by one player or once each by two, after an error or
  side by side; a card of two days is bought, half used, used up and bought again while the
  manager is at it, and more days can be due than it has. Whether a friendship has both rows concerns two
  players; five asks let them befriend each other and themselves, part and ask again, a message name both, and one of them,
  whose list is full, be passed over. What a third one would add, two agreements about the last place of a list from
  different players, is left to the proofs. Two challengers meet one boss, and a second boss
  is found while the first is fought. Three links of one login server let an old one leave while
  the next runs and a third is dialled; what two servers would add is only what `ListComes` closes, and the proofs have any number. Two connections of
  one login server, or of two, and a hall that
  reconnects once: a list, an addition and a removal are then on the way together. Three requests for three
  accounts let two make or bind an account at a time while a third logs in to it.
  A fourth key meets a full list; three places let an item be shifted past one and past
  two others, both ways, and out of the middle; values let two be equal. Two places told and a third let a role enter
  and leave them. One key ranked unchecked in a list of three keeps the third role of a full bag out. A box of one and three mails let one sender make
  room while the other waits, more than once, and a mail be evicted or
  deleted while it is looked for. An item lets a sender fail before it is attached. Two requests of the player let a
  notice come between the two steps of a list. Three system mails let the first be unfilled while a second is announced and a third sent twice; two
  heartbeats at a time are what the lock freed by `OnLogin` allows. The proofs
  lift all these bounds for all of these properties.

Deadlock is checked in every run but those of `Guild`, which come to an end when the guilds
the bound allows are founded and dissolved, `services`, where the bounds (requests,
connections, purchases, asks) end every behaviour, and `session` and `session_live`, where the system itself may stop:
the timer goroutine has ended by a panic, the channel is full, and all requests and a ban wait for room in it.

Fairness:

- `PlayerSession`: goroutines are scheduled by the Go runtime, so each enabled step of
  a request, of the timer goroutine and of a ban that has begun is taken some
  time. A send on a full channel waits in a queue of senders, first come first
  served, hence strong fairness for those that send. A timer whose player asks for
  nothing is found over after some seconds (`ConnTimer`), hence `WheelFinds`. There
  is no fairness for clients, logins, GM commands and panics. The step by which a panic ends the timer goroutine
  is not part of the goroutine's fair step either; after it that step is never enabled again. `Answered` excepts a
  request that then waits at the full channel (`Stuck`), and no other: one that needs no timer, or finds room, is answered.
- `DbTable`: the goroutines of Loop and Shutdown run on and a statement returns,
  with success or an error. There is none for handlers and restarts. That a save comes to this table is not
  in the fairness, as a table before it may fail each time; `ChangesAreSaved` has it as its premise, that saves come to it
  again and again until Loop ends. A last save that is cut short is the one way left to lose a change.

### 3.1 Disagreements between the code and what it says

The four runs that expect a violation are described with their quotes in
`PROJECT.json` "findings":

1. `OnLogin` (`player.go:366`) stores 0 in `is_lock`; `msg_handler.go:190` has it that a
   message is not processed while the previous one is.
2. `reconnect` (`player_manager.go:638`) sets a token without comparing; the newer of two
   logins is then told that it has logged in elsewhere.
3. `HallServer.Shutdown`'s save (`hall_server.go:226`) runs beside Loop's; "saving all
   data" (`a_db_tables.go:201`) does not hold.
4. The id counter is saved before and apart from the players: after a crash it may
   be behind, and `Add2IdMap` reports an id twice (`player_manager.go:72`).

Their passing counterparts (`LockHolds`, `CleanRowsAreSaved`, `CounterCatchesUp`, and `DiskNeverGoesBack` and
`PlayersHaveTheirRows`, which are proved) show that nothing else breaks these
properties: each names the one exception.

## 4. What is proved

`ConnTimerWheel_proofs`, under `ConnTimerWheelAssumption` (interval, channel
capacity and clock bound are positive):

- `TypeCorrect`: `Spec => []TypeOK`.
- `ListsAgree`: `Spec => []ListsMatchPlayers`.
- `TimersWithinInterval`: `Spec => []WithinInterval`.
- `WheelImplementsTimers`: `Spec => KeepsTimers`, that is, the ring implements
  `ConnTimer` under the mapping `left <- TimeLeft`.

The inductive invariant is the conjunction of the type invariant, of
`ListsMatchPlayers` and of `WithinInterval` (with what they need of the first pass).
None of the last two is inductive alone: a pass that moves the index by d
keeps the timers it does not visit within the interval only because it visits
exactly those at most d ahead, and it clears their entries only because the lists
and the map agree. The refinement is proved action by action; the pass is the
interesting one, with the lemmas about `Ahead` (what an index that moves by d does to
the distance) and `Visited` (exactly the lists whose distance is at most the elapsed
seconds) carrying the arithmetic modulo the ring.

`PlayerSession_proofs`, under `PlayerSessionAssumption` (the bounds and the channel's
capacity are positive), for any sets of requests and uids:

- `TypeCorrect`: `Spec => []TypeOK`.
- `TimersKnown`: `Spec => []TimersAreKnown`.
- `UidsKeepPlayers`: `Spec => UidKeepsPlayer`.
- `NoLockStays`, `LockKeepsMessagesApart`: `Spec => []NoLockLeftBehind`, `Spec => []LockHolds`.
- `OnlineIsTended`: `Spec => []OnlineHasTimer`.

Three invariants carry them besides the types. `PlayersKnown` says that every player a request, the
ban, the timer goroutine, a timer or the uid map names is in the id map, and which places of a
request have a player; `TimersAreKnown` alone is not inductive, because the requests to
the timers come from `p_of`. `OneHolder`
says that all requests inside a handler of a player who was not logged in anew are one and
the same, and that the lock is then taken; together with `NoLockLeftBehind` it is
inductive, because `TakeLock` needs the lock free, which by `OneHolder` means that
nobody is inside. `OnlineHasTimer` is inductive relative to `TypeOK` and `PlayersKnown`; the proof
has one step per action, and three lemmas say what a request for a restart, a request for a
removal and the serving of a request do to `HasTimer`, that is, to the last word the channel
has on a player.

`Logins_proofs` on `HallLinks`, for any sets of login servers and links (`HallLinksAssumption`: the
name of no link is none of theirs): `LinksTypeCorrect`; `AgentsCorrect` (`[]AgentsReachHalls`),
by an invariant over the ends that are registered; `LinksCorrect` (`[]LinksAreKnown`). Its
invariant `LinksInv` says what each state of an object goes with, that an entry of the map has the
server id of its key, what the handler still has to close, and that for each server there is at
most one object that may come up, in the map or held by the handler. That an object is dropped from
the map by its own `OnDisconnect` only is what breaks when a close times out: then the handler has gone on and the
next object is in the map, hence the exception `late`.

`Logins_proofs` on `LoginRegistry`, for any servers, connections and length of the channel: `RegistryTypeCorrect`,
`ListCorrect` (`[]ListIsOfTheConnected`), `KnownCorrect` (`[]HallKnowsTheList`). An entry is removed by
the connection that added it or by id; `OverlapKnown`, that connections of one server which are there at a
time are in `overlap`, shows that a removal by id harms only the excused. What a hall knows is what it has
been told (`Told`, the keys and those lost since) less what it has lost (`KeysApart`: no lost key is there), so that the loss of a link
changes neither what it has been told nor the argument. That argument is stated over `WillKnow`, that is, what it will have been told when it has read
all that is on the way to it. With it `KnowInv` is inductive: of a server no connection of which is between its change to the manager and its broadcast,
the hall will know just if it is listed (`SettledIsKnown`); one that is being added it will know by
now (`AddedIsKnown`), and one being taken away is no longer listed (`GoneIsUnlisted`). A list that waits
to be sent is that of the moment (`ListIsFresh`), since whatever changes it is `raced` (`RacesAreSeen`).

`Logins_proofs` on `Accounts`, for any accounts and requests: `AccountsTypeCorrect`, `ToldUidsCorrect`
(`[]ToldUidsHold`), `BindingsCorrect` (`[]BindingsHold`). `AccountsInv` has three parts. `RowInv` says what a row looks like
from its request's point of view: an account without a row is blank but for what `AddRow` brings
(`RowlessIsBlank`), a request past its `AddRow` finds the row (`PastAddHasRow`), one request adds it at most
(`OneAdder`). `MakeInv`: outside of `rushed` one request makes an account (`OneMaker`) and finds the row as it left it
(`MakerAlone`), and what a binding has read of the old account is still its id (`ReadsTheUid`, `BoundHasUid`).
`BindInv`: the account that is bound is of a channel (`BinderHasChannel`) and is marked before the new one is
made (`BinderMarks`); outside of `twice` one request binds it, and a guest's has no other account yet (`OneBinder`,
`GuestIsFree`), whence `GuestBindsOne`, of which the bound on a cardinality is a consequence.

`HallServices_proofs` on `FriendBoss`, for any challengers, monsters and bounds: `BossTypeCorrect`, `BossFallsOnceCorrect`
(`[]BossFallsOnce`). `BossInv`: one challenger at a time is past the compare-and-swap
(`OneFighter`), he fights the boss that is there (`BossOfTheFight`, `BossIsAlive`), and the
monsters that stand and those that have fallen are together all of it (`MonstersLeft`, `MonstersFell`),
unless it was met `early`; so that who finds none left is the only one to reward.

`HallServices_proofs` on `Friends`, for any finite set of players and any limit: `FriendsTypeCorrect`,
`FriendshipsCorrect` (`[]FriendshipsAreMutual`), `FriendLimitCorrect` (`[]FriendsWithinLimit`). The first needs,
besides the property, that a handler between its two stores has made the first (`FirstRowStands`)
and that a pair that is joined and parted at a time is known (`TangledKnown`). The second
counts, beside the friends a player has, the places his own handler has reserved when it
counted (`Room`), and one reservation for who is about to add him; two reservations make him `crowded`.

`HallServices_proofs` on `Charge`, under `ChargeAssumption`, for any players, orders, goroutines, days and bounds:
`ChargeTypeCorrect`, `OrderCorrect` (`[]OrderCreditedOnce`), `HolderCorrect` (`[]CardHolderIsServed`). Types hold
only with `AwardsACard`: the manager sends a mail only for a card in use, since a new purchase can
only reset the number. `PayInv` says that of one player at most one purchase is between
the compare-and-swap of `is_paying` and its release; with it `OrderInv` is inductive: of an order that is
not `loose` one purchase at most is between the look that found it unused and the credit, the order is
then not yet credited, and it is saved when it is. `CardHolderIsServed` is inductive relative to the types.
`CardMailsCorrect` (`[]CardMailsAddUp`) rests on `CardInv`: of a player who is not `crossed` one purchase of a card at
most is between its look at the card and its credit (`OneLooks`), so that what it saw, no card or one used
up, is still so when it is credited (`LookHolds`).

`DbTable_proofs`, under `DbTableAssumption` (there are ids and rows, and no savers but Loop and Shutdown):
`TypeCorrect`, `CleanCorrect` (`[]CleanRowsAreSaved`), `RemovedCorrect` (`[]RemovedRowsGo`), `RecordsCorrect`
(`DiskNeverGoesBack`). Two invariants hold whatever overlaps: `RowsFit`, that every object a map, a record or a saver
names has been created and stands under its own id, and that a new row has not been fetched; and `SaversFit`,
that a saver has rows or a statement at hand only where it saves. `Apart` holds while no two saves overlap. One
saver saves, and none gives up (`QuickAtLast`), so that a save is through all its rows when it goes on. What it has at
hand is the row of its id or a removed one (`Stands`), and its statement is as new as the row unless
the row has changed (`StmtFits`). A row that is not new is on record or being inserted (`OnRecord`), and a
new row in `m_rows` is at hand (`NewAtHand`); an UPDATE therefore finds its record. The subtle part is an
id whose row is removed and added again while a save runs. Its record is there still when the new row is
fetched (`RemovedOnRecord`), so that the INSERT fails (`Reborn`), and the next DELETE hits a row only of an id
that has failed (`DeletesFit`). `NotOlder` adds that versions grow from record to statement to row.

`Guild_proofs`, under `GuildAssumption` (finitely many players, a positive limit and bounds): `TypeCorrect`,
`OneGuildCorrect` (`OneGuildAtATime`), `RowsCorrect` (`[]RowsAgree`), `PresidentCorrect` (`[]PresidentBelongs`),
`AuthorityCorrect` (`[]AuthorityIsLawful`), `LimitCorrect` (`[]MembersWithinLimit`). The argument has three layers.

- `Types` and `Facts` hold whatever is late: what a handler at a place has at hand (`HandlersOK`),
  that the guilds in the rows have been founded (`GuildsOK`), that who is founding has an id left (`IdsLeft`),
  and of `join_guild_locker` that it is taken while a handler joins the player or founds for him (`LocksHeld`), one
  at a time (`OneHolds`), and that the player has no guild meanwhile (`JoinersAreFree`). The last gives
  `OneGuildAtATime`: the look under the lock is still true at the store.
- `Sound` holds up to the first late store. `Agree` is `RowsAgree`; it is inductive
  only with `Founded` (who is being founded for is in no other guild's list), `Governs` (who acts as the president
  is the president) and `PresidentsStay` (a president is a member and not the target of a handler that strikes off or clears), `AuthorityHasGuild` and
  `OnePresident` (the position is
  that of the row's president, or of who is handing over).
- `Limits`, up to the same store, counts for a guild that is not `crowded`: the members not being struck off (`Counted`), and the
  players of an agreed list still to be added (`Pending`). `OneAgrees` has one list at a time, `Listed` that its players are no
  members yet, `Room` that both counts together stay within the limit, and `Within` is the property.

The proof of the last one changed the property. It used to count every member, and the run agreed; but with five players and
three handlers an officer strikes a member off, the president hands over to that member before his kick has ended, a third is
agreed in on the free place, and `_get_guild` (`guild.go:430`) puts the new president back: five members of four. What is true, and
proved, is that those who are being struck off do not count.

`PlayerStore_proofs`, under `PlayerStoreAssumption` (there is an id, and a row), for any set of savers: `TypeCorrect`,
`RowsCorrect` (`[]PlayersHaveTheirRows`), `CounterCorrect` (`[]CounterCatchesUp`), `SavedPlayersCorrect` (`SavedPlayerStays`).
The Players table is an instance of `DbTable`, but the lemmas of `DbTable_proofs` are of no use here: tlapm does not take them
through an instance, and the store adds a row under an id that has one already when the id is issued twice, which
`DbTable` excludes. What takes their place is simpler, as players are never removed (`NothingRemoved`).

- `Stands` holds whatever overlaps, fails or is issued twice: a row in either map stands under its own id (`RowsStand`), and
  what a save has at hand (`AtHandStand`) and what is on record (`RecordsStand`) is the row `m_rows` has of that id. A statement
  that meets a record is therefore one of the same row, which is `SavedPlayerStays`.
- `StoreInv` holds unless the server came up with the counter `behind`. An id with a row has been issued, and is not that of
  a creator yet to add his row (`RowsAreIssued`), whose id is within the counter (`CreatorIsCounted`); so a new row never
  hides another player's. What the creator has added is what `GetRow` finds until it is mapped (`AddedIsFound`).
- `CountInv` holds but for failed statements of the Global row and overlapping saves. Global is saved before the Players of the
  same save (`SavesInOrder`), one saver saves (`OneSaves`), counter and record only grow (`CounterGrows`), and an id that has been
  marked is on record, waits with the flag, or is in a statement (`MarkedAreRecorded`).

An id is marked before its row is added; that makes an id with a row a marked one, so that the last two give `CounterCatchesUp`.

`PlayerData_proofs` on `ShortRankList`, for any keys, places and values: `RankListTypes`, `RankListMap` (`[]MapLeadsToItems`), `RankListOrder`
(`[]BestFirst`), `RankListRanks` (`KeepsRanking`: the list implements `Ranking`). The three invariants are inductive only
together (`RankInv`). Every insertion, shift and deletion is one move: whoever stood at i stands at `Dest(from, to, i)` then, an
operator of which a few lemmas of arithmetic are needed (it is one to one, keeps the order, and misses `to`). The place where the
code's loop stops is the one right for the value (`RightPlace`), so that the map follows (`MappedFollows`) and the order stays (`InOrder`); for `Ranking` it
says whom the key comes behind (`PutIsPut`, `TakeIsTake`).

On `RolePowerRank`: `RolePowerTypes`, `RolePowerTold` (`[]TopIsTold`), `RolePowerRanked` (`[]RolesAreRanked`), and `RolePowerUsesList`: a behaviour of
the roles is one of the list, so that what is proved of the list holds of a player's roles. `PowerInv` adds to the list's invariant that
the bag holds at most as many roles as the list has places (`BagOK`), that a key that is ranked and no role is an intruder (`StrangersKnown`), and
what `RolesAreRanked` says of the roles that are missing: they are not in the list (`MissingAbsent`), and are no more than the intruders (`MissingFew`).
A role is refused only by a full list (`UpdateRefused`); as the bag has no more roles than the list has places, such a list misses at most as many roles as
there are strangers in it (`FullListMisses`, a matter of cardinalities), so that the count still holds when the role joins those missing (`MissingStayFew`). Without
intruders every role finds a place (`RoomForARole`). That what is told is right after a change rests on `PutBehindTop`
and `TakeBehindTop`: when the key stands behind the first places before and after, these are untouched.

On `Mail`, under `MailAssumption` (the box has a place; nobody is no sender), for any senders, readers, items and mails: `MailInvariant`, `MailTypeCorrect`,
`MailsWithinLimitAlways`, `NewMailIsWholeAlways`, `OldestMakesRoomAlways`, `NewMailIsToldAlways`. In `MailInv` a sender between lock and unlock holds
the lock (`SenderOK`),
hence the others are outside (`OthersOutside`); two senders never have the same mail (`Apart`); what is attached and what is left make up
what was meant, as long as the mail is there; and no id above the counter has been used (`BoxOK`). The types need all of that: that
no more than `MaxItems` are attached follows from what is left. `RoomInv` has the limit: a sender who is to remove a mail finds it there, or the
player has made the room (`RoomFor`), and the mail is still the oldest, since nobody else adds. That there is an oldest one at all is `LeastOfNaturals`, from
the well-foundedness of strict inclusion on the subsets of a finite set, as induction is out of reach. `NewMailIsTold` is inductive relative to `MailInv`: an id that
is added is new, so that it has not been waited for.

On `SysMails`, under `SysMailsAssumption` (the bound is a natural number), for any calls and heartbeats: `SysMailsTypeCorrect`,
`SysMailReachesAlways`, `SysMailTwiceAtMostAlways`.
`AllReached` says of three ids, the stored one, the one a check has read and the one before the next it sends, that the player has been sent
what is due up to there (`Reached`), and of these and of the one announced that every row up to there is filled, or known as overtaken
(`FilledUpTo`); a row filled late is then never one the player has passed. `InLine`, while no two checks are under way: what each mail can have been
sent is a function of
the stored id and the next one (`Most`), which a check that stores leaves as it is.

`HallServices_proofs` on `MCServices`: by `ServicesAreTheirParts` every behaviour of the composition is one of the specification of each
component: a step of the one in focus is its step, and leaves the variables of the others as they are. The list needs an
invariant for that (`RolesInv`: the list is a list, and where the roles move, `PowerInv` holds), since a role's step is one of
the list only for a power within the bound. `ServicesTypeCorrect` (`[]ServicesTypeOK`) then puts the theorems on types together.

What is proved and no run checks: `ListsMatchPlayers` and `WithinInterval`, which `KeepsTimers` needs; `TimersAreKnown`, `PresidentBelongs`,
`PlayersHaveTheirRows`, `DiskNeverGoesBack`, `FriendsWithinLimit`, `OldestMakesRoom`, `MapLeadsToItems` and `BestFirst`. TLC had found each of them to
hold before it was proved; now the theorem says more than the run did, and the time of the runs goes to the properties above.

Only model-checked: liveness (fairness is out of TLAPS's reach here: `ChangesAreSaved`, `Answered`,
`SilenceEndsSessions`). Every other property of a passing run is stated by a theorem. The runs that expect a
violation have nothing to prove.

## 5. Not modelled

The handlers of the game itself (battles, roles, items, shops ...) are sequential
code over one player's row and the game's tables; they appear as "a message" in
`PlayerSession` and "a change" in `DbTable`. The wire formats, compression, HTTPS and logs are
left out. More than half of the source lines are of three kinds that a model states once or not at all: the
generated tables of `a_db_tables.go` (the same code for each of some forty tables, `DbTable` models
one), the generated protocol code, and the loaders of the game's tables; most of the rest are those handlers. What the modules cover
is therefore a small share of the lines.

Of the parts that are in the modules' reach:

- In `Mail` the taking of a mail's items (`GetMailAttachedItems`), which changes nothing of what is in the module. That an item is taken once is not
  claimed: `IsGetAttached` is set and sent to the client, and no handler asks for it. The items a player sends, taken from him when all are attached;
  what a mail says.
- The lists of a uid's players in Redis, which halls read, change and write back (two at once lose an
  entry; nothing promises that the list is complete).
- The restart of the token table (`login_token.go:59` restores the token of each uid and not the account), and
  `BattleSaves`, saved after the players that name them (`a_db_tables.go:21349`).
- The other rank lists (`rank_list.go`, a skip list) and the matching of players by power.
- In `Charge` a restart (the manager is filled from the players' rows), the first-charge award and vip
  levels; in `Friends` points, assist roles and the list of recommendations.
- In `HallLinks` that the hall dials a lost login server again: `OnDisconnect` sets
  FORCE_CLOSE for every reason, so that it does not until the center tells of the server anew.
- In `Accounts` passwords, bans, `select_server`; in `LoginRegistry` the halls' and rpc servers' own lists.

The list with reasons is in `PROJECT.json`.

## 6. Plan

Done: `ConnTimer`, `ConnTimerWheel`, `PlayerSession`, `DbTable`, `PlayerStore`, `Guild`; the services `HallLinks`,
`LoginRegistry`, `Accounts`, `Friends`, `FriendBoss`, `Charge`; a player's data `ShortRankList`, `RolePowerRank`, `Mail`, `SysMails`.

Left, in this order:

1. `HallLinks` composed with `LoginRegistry`: a hall ends up connected to the login servers
   that stay up, under fairness.
2. `UidPlayerList`: read, change, write back of a Redis field.
3. The stages of a guild's boss, names, levels and donations of `Guild`.
4. The skip list of `rank_list.go` against `Ranking`.
