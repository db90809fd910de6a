-------------------------------- MODULE Guild --------------------------------
(***************************************************************************)
(* Membership of the guilds of a hall server.  Who belongs to a guild is   *)
(* written down twice: in the guild's row (members, president, requests to *)
(* join) and in the player's (guild id, position).  The handlers of        *)
(* guild.go check the one and change both, store by store.  Nothing keeps  *)
(* the handlers of two players apart but join_guild_locker, which a player *)
(* has for joining and founding only.                                      *)
(*                                                                         *)
(* A player's own messages are processed one at a time (module             *)
(* PlayerSession has the exception), so a handler is named by its player.  *)
(* A dismissed guild is dissolved by whichever handler looks at it first   *)
(* once its time is over; a handler that has dissolved a guild begins anew *)
(* with what it was asked to do.  Names, levels, donations, logs and the   *)
(* guild's chat are left out.                                              *)
(***************************************************************************)
EXTENDS Integers, FiniteSets, TLC

CONSTANTS
  Player,
  NoPlayer,
  MemberNum,    \* the member limit of a guild's level
  MaxGuildId,   \* bound: guilds founded
  MaxBusy,      \* bound: handlers at work at a time
  MaxList,      \* bound: players named in one message
  MaxAsks       \* bound: requests to join that wait

ASSUME GuildAssumption ==
  /\ IsFiniteSet(Player)
  /\ NoPlayer \notin Player
  /\ MemberNum \in Nat \ {0}
  /\ MaxGuildId \in Nat \ {0}
  /\ MaxBusy \in Nat \ {0}
  /\ MaxList \in Nat \ {0}
  /\ MaxAsks \in Nat \ {0}

VARIABLES
  (* rows of dbc.Guilds *)
  next_id,      \* Global.CurrentGuildId
  exist_type,   \* guild -> state of its row
  due,          \* guilds whose DismissTime is 0 or long enough ago
  president, members, asks,
  (* the column Guild of the players *)
  guild_id, position,
  (* handlers *)
  locked,       \* players whose join_guild_locker is taken
  h,            \* player -> [pc, g, list, t], the handler of the player's message
  (* history *)
  late,         \* whether a handler has stored, or will, what no longer holds (see Late)
  ended,        \* guilds whose dissolving has begun
  crowded       \* guilds where two lists of new members were agreed at a time

rowVars == <<next_id, exist_type, due, president, members, asks>>
playerVars == <<guild_id, position>>
histVars == <<late, ended, crowded>>
vars == <<next_id, exist_type, due, president, members, asks, guild_id, position,
          locked, h, late, ended, crowded>>

-----------------------------------------------------------------------------
GuildId == 1..MaxGuildId
NoGuild == 0
List == {list \in SUBSET Player : Cardinality(list) \in 1..MaxList}
Pc == {"idle", "create", "create_pos", "agree", "agree_wait", "agree_id",
       "quit", "quit_clear", "kick", "kick_out", "kick_clear", "officer", "officer_set",
       "change", "change_old", "change_new", "dismiss", "cancel", "dissolve", "empty"}

\* Types; the guilds that have a row are those whose ids were handed out
\* (GetNextGuildId, AddRow).
TypeOK ==
  /\ next_id \in 0..MaxGuildId
  /\ exist_type \in [GuildId -> {"absent", "none", "will_delete", "deleted"}]
  /\ \A g \in GuildId : exist_type[g] = "absent" <=> g > next_id
  /\ due \in SUBSET GuildId
  /\ president \in [GuildId -> Player \cup {NoPlayer}]
  /\ members \in [GuildId -> SUBSET Player]
  /\ asks \in [GuildId -> SUBSET Player]
  /\ guild_id \in [Player -> GuildId \cup {NoGuild}]
  /\ position \in [Player -> {"member", "officer", "president"}]
  /\ locked \in SUBSET Player
  /\ h \in [Player -> [pc : Pc, g : GuildId \cup {NoGuild}, list : SUBSET Player,
                       t : Player \cup {NoPlayer}]]
  /\ late \in BOOLEAN
  /\ ended \in SUBSET GuildId
  /\ crowded \in SUBSET GuildId

-----------------------------------------------------------------------------
(* Helpers *)

Handler(pc, g, list, t) == [pc |-> pc, g |-> g, list |-> list, t |-> t]
Idle == Handler("idle", NoGuild, {}, NoPlayer)

\* A message of p is taken up.
Free(p) == h[p] = Idle /\ Cardinality({q \in Player : h[q] # Idle}) < MaxBusy

Becomes(p, handler) == h' = [h EXCEPT ![p] = handler]
At(p, from, to) == h[p].pc = from /\ h' = [h EXCEPT ![p].pc = to]

\* p's handler is done with t; with the last one on its list it ends.
TakesNext(p, t, pc) ==
  Becomes(p, IF h[p].list \subseteq {t} THEN Idle
             ELSE Handler(pc, h[p].g, h[p].list \ {t}, NoPlayer))

Exists(g) == exist_type[g] \in {"none", "will_delete"}
Overdue(g) == exist_type[g] = "will_delete" /\ g \in due

\* GetGuild finds g and has nothing to dissolve.
GetGuild(g) == g # NoGuild /\ Exists(g) /\ ~Overdue(g)

\* What _get_guild makes of g's president and p's position where they differ.
PresidentAfter(p, g) == IF position[p] = "president" THEN p ELSE president[g]
PositionAfter(p, g) ==
  IF position[p] = "member" /\ president[g] = p THEN "president" ELSE position[p]

\* A store is late if it is meant for a membership, or a presidency, that has ended
\* since the handler looked; what _get_guild then makes of it is as well, and
\* whatever is yet to be stored for a guild when its dissolving begins.
Late(wrong) == late' = (late \/ wrong)

\* _get_guild, with the checks of the handler up to its first store or loop taken as
\* one step: the guild of p's message, with what it puts right on the way.
GetGuildOf(p, is_president) ==
  LET g == guild_id[p] IN
  /\ Free(p)
  /\ GetGuild(g)
  /\ is_president => president[g] = p
  /\ president' = [president EXCEPT ![g] = PresidentAfter(p, g)]
  /\ position' = [position EXCEPT ![p] = PositionAfter(p, g)]
  /\ members' = [members EXCEPT ![g] = IF PresidentAfter(p, g) = p THEN @ \cup {p} ELSE @]
  /\ Late(PresidentAfter(p, g) # president[g])

\* clear_guild_data of t, whose name has been struck off a guild's row before.
Clear(t) ==
  /\ guild_id' = [guild_id EXCEPT ![t] = NoGuild]
  /\ position' = [position EXCEPT ![t] = "member"]
  /\ Late(\E g \in GuildId : t \in members[g])

\* t has left g, or a handler that removes him is past its checks.
Left(t, g) ==
  \/ t \notin members[g]
  \/ \E q \in Player : /\ h[q].pc \in {"quit", "quit_clear", "kick_out", "kick_clear"}
                       /\ h[q].t = t /\ h[q].g = g

\* A position is stored for t, as a member of g or as its president.
SetPosition(t, g, to) ==
  /\ position' = [position EXCEPT ![t] = to]
  /\ Late(guild_id[t] # g \/ (to = "president" /\ (president[g] # t \/ Left(t, g))))

\* t's name is struck off the members of g.
Strike(t, g) == members' = [members EXCEPT ![g] = @ \ {t}]

-----------------------------------------------------------------------------
(* CreateGuild *)

Creating == {q \in Player : h[q].pc = "create"}

\* A slip: the player's guild is not looked at.
CreateBeginsUnchecked(p) ==
  /\ Free(p)
  /\ p \notin locked
  /\ next_id + Cardinality(Creating) < MaxGuildId
  /\ locked' = locked \cup {p}
  /\ Becomes(p, Handler("create", NoGuild, {}, NoPlayer))
  /\ UNCHANGED <<rowVars, playerVars, histVars>>

\* The locker is taken; the player has no guild, or one that is deleted.
CreateBegins(p) ==
  /\ Free(p)
  /\ p \notin locked
  /\ guild_id[p] # NoGuild => ~Exists(guild_id[p])
  /\ next_id + Cardinality(Creating) < MaxGuildId
  /\ locked' = locked \cup {p}
  /\ Becomes(p, Handler("create", NoGuild, {}, NoPlayer))
  /\ UNCHANGED <<rowVars, playerVars, histVars>>

\* A slip: the counter keeps its value.
CreateRowOldId(p) ==
  LET g == next_id + 1 IN
  /\ h[p].pc = "create"
  /\ Becomes(p, Handler("create_pos", g, {}, NoPlayer))
  /\ exist_type' = [exist_type EXCEPT ![g] = "none"]
  /\ president' = [president EXCEPT ![g] = p]
  /\ members' = [members EXCEPT ![g] = {p}]
  /\ guild_id' = [guild_id EXCEPT ![p] = g]
  /\ UNCHANGED <<next_id, due, asks, position, locked, histVars>>

\* GetNextGuildId, AddRow, the row's fields and the player's guild id.
CreateRow(p) ==
  LET g == next_id + 1 IN
  /\ h[p].pc = "create"
  /\ Becomes(p, Handler("create_pos", g, {}, NoPlayer))
  /\ next_id' = g
  /\ exist_type' = [exist_type EXCEPT ![g] = "none"]
  /\ president' = [president EXCEPT ![g] = p]
  /\ members' = [members EXCEPT ![g] = {p}]
  /\ guild_id' = [guild_id EXCEPT ![p] = g]
  /\ UNCHANGED <<due, asks, position, locked, histVars>>

CreatePosition(p) ==
  /\ h[p].pc = "create_pos"
  /\ Becomes(p, Idle)
  /\ SetPosition(p, h[p].g, "president")
  /\ locked' = locked \ {p}
  /\ UNCHANGED <<rowVars, guild_id, ended, crowded>>

-----------------------------------------------------------------------------
(* guild_ask_join (the time a player has to wait after a guild is over by then);   *)
(* guild_agree_join with is_refuse                                                  *)

Ask(p, g) ==
  /\ Free(p)
  /\ guild_id[p] = NoGuild
  /\ GetGuild(g)
  /\ p \notin members[g]
  /\ Cardinality({ask \in Player \X GuildId : ask[1] \in asks[ask[2]]}) < MaxAsks
  /\ asks' = [asks EXCEPT ![g] = @ \cup {p}]
  /\ UNCHANGED <<next_id, exist_type, due, president, members, playerVars, locked, h, histVars>>

Refuse(p, list) ==
  /\ GetGuildOf(p, FALSE)
  /\ position'[p] # "member"
  /\ asks' = [asks EXCEPT ![guild_id[p]] = @ \ list]
  /\ UNCHANGED <<next_id, exist_type, due, guild_id, locked, h, ended, crowded>>

(* guild_agree_join *)

AgreePc == {"agree", "agree_wait", "agree_id"}

\* A slip: the players on the list are not counted.
AgreeBeginsUncounted(p, list) ==
  LET g == guild_id[p] IN
  /\ GetGuildOf(p, FALSE)
  /\ Cardinality(members'[g]) <= MemberNum
  /\ position'[p] # "member"
  /\ Becomes(p, Handler("agree", g, list, NoPlayer))
  /\ crowded' = IF \E q \in Player : h[q].pc \in AgreePc /\ h[q].g = g
                THEN crowded \cup {g} ELSE crowded
  /\ UNCHANGED <<next_id, exist_type, due, asks, guild_id, locked, ended>>

\* There is room for all on the list, and the player has the authority.
AgreeBegins(p, list) ==
  LET g == guild_id[p] IN
  /\ GetGuildOf(p, FALSE)
  /\ Cardinality(members'[g]) + Cardinality(list) <= MemberNum
  /\ position'[p] # "member"
  /\ Becomes(p, Handler("agree", g, list, NoPlayer))
  /\ crowded' = IF \E q \in Player : h[q].pc \in AgreePc /\ h[q].g = g
                THEN crowded \cup {g} ELSE crowded
  /\ UNCHANGED <<next_id, exist_type, due, asks, guild_id, locked, ended>>

\* Whether t has asked and is no member yet is looked up before the lock is taken.
AgreeChecks(p, t) ==
  LET g == h[p].g IN
  /\ h[p].pc = "agree"
  /\ t \in h[p].list
  /\ IF t \in asks[g] \ members[g]
     THEN Becomes(p, Handler("agree_wait", g, h[p].list, t))
     ELSE TakesNext(p, t, "agree")
  /\ UNCHANGED <<rowVars, playerVars, locked, histVars>>

\* A slip: under the lock nothing is looked up again.
AgreeAddsUnchecked(p) ==
  LET g == h[p].g
      t == h[p].t IN
  /\ h[p].pc = "agree_wait"
  /\ t \notin locked
  /\ locked' = locked \cup {t}
  /\ members' = [members EXCEPT ![g] = @ \cup {t}]
  /\ Becomes(p, Handler("agree_id", g, h[p].list, t))
  /\ UNCHANGED <<next_id, exist_type, due, president, asks, playerVars, histVars>>

\* t's locker is free and t has no guild: the first of the two stores.  The locker
\* is kept for the second.
AgreeAdds(p) ==
  LET g == h[p].g
      t == h[p].t IN
  /\ h[p].pc = "agree_wait"
  /\ t \notin locked
  /\ guild_id[t] = NoGuild
  /\ locked' = locked \cup {t}
  /\ members' = [members EXCEPT ![g] = @ \cup {t}]
  /\ Becomes(p, Handler("agree_id", g, h[p].list, t))
  /\ UNCHANGED <<next_id, exist_type, due, president, asks, playerVars, histVars>>

\* t has a guild by now.
AgreeIsTooLate(p) ==
  /\ h[p].pc = "agree_wait"
  /\ h[p].t \notin locked
  /\ guild_id[h[p].t] # NoGuild
  /\ TakesNext(p, h[p].t, "agree")
  /\ UNCHANGED <<rowVars, playerVars, locked, histVars>>

AgreeSetsId(p) ==
  LET g == h[p].g
      t == h[p].t IN
  /\ h[p].pc = "agree_id"
  /\ guild_id' = [guild_id EXCEPT ![t] = g]
  /\ locked' = locked \ {t}
  /\ asks' = [asks EXCEPT ![g] = @ \ {t}]
  /\ Late(t \notin members[g])
  /\ TakesNext(p, t, "agree")
  /\ UNCHANGED <<next_id, exist_type, due, president, members, position, ended, crowded>>

-----------------------------------------------------------------------------
(* guild_quit *)

QuitBegins(p) ==
  /\ GetGuildOf(p, FALSE)
  /\ president'[guild_id[p]] # p
  /\ Becomes(p, Handler("quit", guild_id[p], {}, p))
  /\ UNCHANGED <<next_id, exist_type, due, asks, guild_id, locked, ended, crowded>>

QuitStrikes(p) ==
  /\ At(p, "quit", "quit_clear")
  /\ Strike(p, h[p].g)
  /\ UNCHANGED <<next_id, exist_type, due, president, asks, playerVars, locked, histVars>>

\* A slip: the position stays.
QuitClearsId(p) ==
  /\ h[p].pc = "quit_clear"
  /\ Becomes(p, Idle)
  /\ guild_id' = [guild_id EXCEPT ![p] = NoGuild]
  /\ UNCHANGED <<rowVars, position, locked, histVars>>

QuitClears(p) ==
  /\ h[p].pc = "quit_clear"
  /\ Becomes(p, Idle)
  /\ Clear(p)
  /\ UNCHANGED <<rowVars, locked, ended, crowded>>

-----------------------------------------------------------------------------
(* guild_kick_member *)

KickBegins(p, list) ==
  /\ GetGuildOf(p, FALSE)
  /\ position'[p] # "member"
  /\ Becomes(p, Handler("kick", guild_id[p], list, NoPlayer))
  /\ UNCHANGED <<next_id, exist_type, due, asks, guild_id, locked, ended, crowded>>

\* A slip: officers and the president are kicked as well.
KickChecksNoPosition(p, t) ==
  LET g == h[p].g IN
  /\ h[p].pc = "kick"
  /\ t \in h[p].list
  /\ IF t # p /\ t \in members[g]
     THEN Becomes(p, Handler("kick_out", g, h[p].list, t))
     ELSE TakesNext(p, t, "kick")
  /\ UNCHANGED <<rowVars, playerVars, locked, histVars>>

\* Officers and the president, and whoever is no member, stay.
KickChecks(p, t) ==
  LET g == h[p].g IN
  /\ h[p].pc = "kick"
  /\ t \in h[p].list
  /\ IF t # p /\ t \in members[g] /\ position[t] = "member"
     THEN Becomes(p, Handler("kick_out", g, h[p].list, t))
     ELSE TakesNext(p, t, "kick")
  /\ UNCHANGED <<rowVars, playerVars, locked, histVars>>

KickStrikes(p) ==
  /\ At(p, "kick_out", "kick_clear")
  /\ Strike(h[p].t, h[p].g)
  /\ UNCHANGED <<next_id, exist_type, due, president, asks, playerVars, locked, histVars>>

\* A slip: the kicked player's data is left as it is.
KickForgets(p) ==
  /\ h[p].pc = "kick_clear"
  /\ TakesNext(p, h[p].t, "kick")
  /\ UNCHANGED <<rowVars, playerVars, locked, histVars>>

KickClears(p) ==
  /\ h[p].pc = "kick_clear"
  /\ Clear(h[p].t)
  /\ TakesNext(p, h[p].t, "kick")
  /\ UNCHANGED <<rowVars, locked, ended, crowded>>

-----------------------------------------------------------------------------
(* guild_set_officer: the president makes members officers, or officers members.   *)
(* Which of the two is left open until a player's position is stored; a message    *)
(* with two players that differ stands for two messages.                           *)

OfficerBegins(p, list) ==
  /\ GetGuildOf(p, TRUE)
  /\ Becomes(p, Handler("officer", guild_id[p], list, NoPlayer))
  /\ UNCHANGED <<next_id, exist_type, due, asks, guild_id, locked, ended, crowded>>

OfficerChecks(p, t) ==
  LET g == h[p].g IN
  /\ h[p].pc = "officer"
  /\ t \in h[p].list
  /\ IF t # p /\ t \in members[g]
     THEN Becomes(p, Handler("officer_set", g, h[p].list, t))
     ELSE TakesNext(p, t, "officer")
  /\ UNCHANGED <<rowVars, playerVars, locked, histVars>>

OfficerSets(p) ==
  /\ h[p].pc = "officer_set"
  /\ \E to \in {"member", "officer"} : SetPosition(h[p].t, h[p].g, to)
  /\ TakesNext(p, h[p].t, "officer")
  /\ UNCHANGED <<rowVars, guild_id, locked, ended, crowded>>

(* guild_change_president *)

ChangeBegins(p, t) ==
  /\ GetGuildOf(p, TRUE)
  /\ t # p
  /\ t \in members'[guild_id[p]]
  /\ Becomes(p, Handler("change", guild_id[p], {}, t))
  /\ UNCHANGED <<next_id, exist_type, due, asks, guild_id, locked, ended, crowded>>

ChangePresident(p) ==
  LET g == h[p].g
      t == h[p].t IN
  /\ At(p, "change", "change_old")
  /\ president' = [president EXCEPT ![g] = t]
  /\ Late(Left(t, g))
  /\ UNCHANGED <<next_id, exist_type, due, members, asks, playerVars, locked, ended, crowded>>

\* A slip: the old president keeps his position.
ChangeOldKeeping(p) ==
  /\ At(p, "change_old", "change_new")
  /\ UNCHANGED <<rowVars, playerVars, locked, histVars>>

ChangeOld(p) ==
  /\ At(p, "change_old", "change_new")
  /\ SetPosition(p, h[p].g, "member")
  /\ UNCHANGED <<rowVars, guild_id, locked, ended, crowded>>

ChangeNew(p) ==
  /\ h[p].pc = "change_new"
  /\ SetPosition(h[p].t, h[p].g, "president")
  /\ Becomes(p, Idle)
  /\ UNCHANGED <<rowVars, guild_id, locked, ended, crowded>>

-----------------------------------------------------------------------------
(* guild_dismiss, guild_cancel_dismiss *)

\* The guild is not dismissed yet: SetDismissTime(now).
DismissBegins(p) ==
  /\ GetGuildOf(p, TRUE)
  /\ exist_type[guild_id[p]] = "none"
  /\ due' = due \ {guild_id[p]}
  /\ Becomes(p, Handler("dismiss", guild_id[p], {}, NoPlayer))
  /\ UNCHANGED <<next_id, exist_type, asks, guild_id, locked, ended, crowded>>

Dismiss(p) ==
  /\ h[p].pc = "dismiss"
  /\ exist_type' = [exist_type EXCEPT ![h[p].g] = "will_delete"]
  /\ Becomes(p, Idle)
  /\ UNCHANGED <<next_id, due, president, members, asks, playerVars, locked, histVars>>

\* SetDismissTime(0): to anybody who looks at the guild now its time is over.
CancelBegins(p) ==
  /\ GetGuildOf(p, TRUE)
  /\ exist_type[guild_id[p]] = "will_delete"
  /\ due' = due \cup {guild_id[p]}
  /\ Becomes(p, Handler("cancel", guild_id[p], {}, NoPlayer))
  /\ UNCHANGED <<next_id, exist_type, asks, guild_id, locked, ended, crowded>>

Cancel(p) ==
  /\ h[p].pc = "cancel"
  /\ exist_type' = [exist_type EXCEPT ![h[p].g] = "none"]
  /\ Becomes(p, Idle)
  /\ UNCHANGED <<next_id, due, president, members, asks, playerVars, locked, histVars>>

\* GuildDismissWaitingSeconds have passed.
TimePasses(g) ==
  /\ exist_type[g] = "will_delete"
  /\ g \notin due
  /\ due' = due \cup {g}
  /\ UNCHANGED <<next_id, exist_type, president, members, asks, playerVars, locked, h, histVars>>

(* _guild_get_dismiss_remain_seconds, in any handler of any player *)

DissolveBegins(p, g) ==
  /\ Free(p)
  /\ Overdue(g)
  /\ Becomes(p, Handler("dissolve", g, members[g], NoPlayer))
  /\ ended' = ended \cup {g}
  /\ Late(\E q \in Player : h[q].g = g)
  /\ UNCHANGED <<rowVars, playerVars, locked, crowded>>

\* The players' data is cleared before the guild's row is.
DissolveClears(p, t) ==
  /\ h[p].pc = "dissolve"
  /\ t \in h[p].list
  /\ guild_id' = [guild_id EXCEPT ![t] = NoGuild]
  /\ position' = [position EXCEPT ![t] = "member"]
  /\ Late(\E g \in GuildId \ {h[p].g} : t \in members[g])
  /\ h' = [h EXCEPT ![p].list = @ \ {t}]
  /\ UNCHANGED <<rowVars, locked, ended, crowded>>

DissolveDeletes(p) ==
  /\ At(p, "dissolve", "empty")
  /\ h[p].list = {}
  /\ exist_type' = [exist_type EXCEPT ![h[p].g] = "deleted"]
  /\ UNCHANGED <<next_id, due, president, members, asks, playerVars, locked, histVars>>

\* Members.Clear, AskLists.Clear.
DissolveEmpties(p) ==
  /\ h[p].pc = "empty"
  /\ members' = [members EXCEPT ![h[p].g] = {}]
  /\ asks' = [asks EXCEPT ![h[p].g] = {}]
  /\ Becomes(p, Idle)
  /\ UNCHANGED <<next_id, exist_type, due, president, playerVars, locked, histVars>>

-----------------------------------------------------------------------------
Init ==
  /\ next_id = 0
  /\ exist_type = [g \in GuildId |-> "absent"]
  /\ due = GuildId
  /\ president = [g \in GuildId |-> NoPlayer]
  /\ members = [g \in GuildId |-> {}]
  /\ asks = [g \in GuildId |-> {}]
  /\ guild_id = [p \in Player |-> NoGuild]
  /\ position = [p \in Player |-> "member"]
  /\ locked = {}
  /\ h = [p \in Player |-> Idle]
  /\ late = FALSE
  /\ ended = {}
  /\ crowded = {}

\* Any other message of a guild member, and one that is refused after _get_guild.
Look(p) ==
  /\ GetGuildOf(p, FALSE)
  /\ UNCHANGED <<next_id, exist_type, due, asks, guild_id, locked, h, ended, crowded>>

Joining(p) ==
  \/ CreateBegins(p) \/ CreateRow(p) \/ CreatePosition(p)
  \/ \E g \in GuildId : Ask(p, g)
  \/ \E list \in List : Refuse(p, list) \/ AgreeBegins(p, list)
  \/ \E t \in Player : AgreeChecks(p, t)
  \/ AgreeAdds(p) \/ AgreeIsTooLate(p) \/ AgreeSetsId(p)

Leaving(p) ==
  \/ QuitBegins(p) \/ QuitStrikes(p) \/ QuitClears(p)
  \/ \E list \in List : KickBegins(p, list)
  \/ \E t \in Player : KickChecks(p, t)
  \/ KickStrikes(p) \/ KickClears(p)

Governing(p) ==
  \/ \E list \in List : OfficerBegins(p, list)
  \/ \E t \in Player : OfficerChecks(p, t) \/ ChangeBegins(p, t)
  \/ OfficerSets(p) \/ ChangePresident(p) \/ ChangeOld(p) \/ ChangeNew(p)
  \/ Look(p)

Ending(p) ==
  \/ DismissBegins(p) \/ Dismiss(p) \/ CancelBegins(p) \/ Cancel(p)
  \/ \E g \in GuildId : DissolveBegins(p, g)
  \/ \E t \in Player : DissolveClears(p, t)
  \/ DissolveDeletes(p) \/ DissolveEmpties(p)

Next ==
  \/ \E p \in Player : Joining(p) \/ Leaving(p) \/ Governing(p) \/ Ending(p)
  \/ \E g \in GuildId : TimePasses(g)

Spec == Init /\ [][Next]_vars

Symmetry == Permutations(Player)

\* Bound: a behaviour is followed up to its first late store.
UpToLateStore == ~late

-----------------------------------------------------------------------------
(* Properties *)

\* What the guild's row and the player's say of a membership agrees (guild_agree_join,
\* guild_quit, guild_kick_member), but for a guild whose dissolving has begun and the
\* moment between the two stores of a handler; nothing but a late store breaks it.
RowsAgree ==
  ~late => \A p \in Player, g \in GuildId \ ended :
    \/ p \in members[g] <=> guild_id[p] = g
    \/ \E q \in Player : /\ h[q].pc \in {"agree_id", "quit_clear", "kick_clear"}
                         /\ h[q].t = p /\ h[q].g = g

\* Nobody goes from one guild to another while the first exists: founding and joining
\* look under join_guild_locker (CreateGuild, guild_agree_join).
OneGuildAtATime ==
  [][\A p \in Player :
       guild_id[p] # NoGuild /\ guild_id'[p] \notin {NoGuild, guild_id[p]}
         => guild_id[p] \in ended]_vars

\* A guild has its president among its members, who can neither quit (guild_quit) nor
\* be kicked (guild_kick_member), but for the moment when the presidency changes hands.
PresidentBelongs ==
  ~late => \A g \in GuildId \ ended : Exists(g) =>
    \/ president[g] \in members[g]
    \/ \E q \in Player : h[q].pc \in {"change_old", "change_new"} /\ h[q].g = g

\* Authority ends with the membership it was given in: an officer or a president
\* has a guild, and the president's position is his whom the guild's row names
\* (clear_guild_data, guild_change_president).
AuthorityIsLawful ==
  ~late => \A p \in Player :
    LET g == guild_id[p]
        changing == {q \in Player : h[q].pc \in {"change_old", "change_new"}} IN
    /\ position[p] # "member" => g # NoGuild
    /\ position[p] = "president" /\ changing = {} => president[g] = p

\* The players of g who are being kicked, their names struck off already.
Struck(g) == {t \in Player : \E q \in Player : h[q].pc = "kick_clear" /\ h[q].t = t /\ h[q].g = g}

\* A guild has no more members than its level allows, unless two lists of new
\* members were agreed at a time (guild_agree_join counts before its loop).  Who was
\* made president as he was struck off is put back when he looks at his guild
\* (_get_guild); he does not count, for the kick has yet to end, as a late store.
MembersWithinLimit ==
  ~late => \A g \in GuildId \ (crowded \cup ended) :
             Cardinality(members[g] \ Struck(g)) <= MemberNum
=============================================================================
