----------------------------- MODULE Guild_proofs -----------------------------
(***************************************************************************)
(* The guilds, for any number of players, guilds and handlers: types, one  *)
(* guild at a time, and, up to the first late store, both sides of a       *)
(* membership, the president's place, authority and the limit of members.  *)
(***************************************************************************)
EXTENDS Guild, FiniteSetTheorems, TLAPS

(***************************************************************************)
(* Types.                                                                  *)
(***************************************************************************)

Handlers == [pc : Pc, g : GuildId \cup {NoGuild}, list : SUBSET Player, t : Player \cup {NoPlayer}]

HandlersType == h \in [Player -> Handlers]

RowsType ==
  /\ next_id \in 0..MaxGuildId
  /\ exist_type \in [GuildId -> {"absent", "none", "will_delete", "deleted"}]
  /\ \A g \in GuildId : exist_type[g] = "absent" <=> g > next_id
  /\ due \in SUBSET GuildId
  /\ president \in [GuildId -> Player \cup {NoPlayer}]
  /\ members \in [GuildId -> SUBSET Player]
  /\ asks \in [GuildId -> SUBSET Player]

PlayersType ==
  /\ guild_id \in [Player -> GuildId \cup {NoGuild}]
  /\ position \in [Player -> {"member", "officer", "president"}]

FlagsType ==
  /\ locked \in SUBSET Player
  /\ late \in BOOLEAN
  /\ ended \in SUBSET GuildId
  /\ crowded \in SUBSET GuildId

Types == HandlersType /\ RowsType /\ PlayersType /\ FlagsType

LEMMA TypesAre == TypeOK <=> Types
BY Zenon DEF TypeOK, Types, HandlersType, Handlers, RowsType, PlayersType, FlagsType

LEMMA Ids == /\ GuildId \subseteq Nat /\ NoGuild = 0 /\ NoGuild \notin GuildId
             /\ MaxGuildId \in Nat /\ MemberNum \in Nat
BY GuildAssumption DEF GuildId, NoGuild

(***************************************************************************)
(* How a handler moves.                                                    *)
(***************************************************************************)

Others(p) == \A q \in Player \ {p} : h'[q] = h[q]

Moves(p, pc, g, list, t) ==
  /\ h'[p].pc = pc /\ h'[p].g = g /\ h'[p].list = list /\ h'[p].t = t
  /\ Others(p)

LEMMA HandlerFields ==
  ASSUME HandlersType, NEW p \in Player
  PROVE  /\ h[p].pc \in Pc /\ h[p].g \in GuildId \cup {NoGuild}
         /\ h[p].list \in SUBSET Player /\ h[p].t \in Player \cup {NoPlayer}
BY DEF HandlersType, Handlers

LEMMA HandlerType ==
  ASSUME NEW pc \in Pc, NEW g \in GuildId \cup {NoGuild}, NEW list \in SUBSET Player,
         NEW t \in Player \cup {NoPlayer}
  PROVE  /\ Handler(pc, g, list, t) \in Handlers
         /\ Handler(pc, g, list, t).pc = pc /\ Handler(pc, g, list, t).g = g
         /\ Handler(pc, g, list, t).list = list /\ Handler(pc, g, list, t).t = t
BY DEF Handler, Handlers

LEMMA IdleIs == Idle \in Handlers /\ Idle.pc = "idle" /\ Idle.g = NoGuild
                /\ Idle.list = {} /\ Idle.t = NoPlayer
BY HandlerType DEF Idle, Pc

LEMMA Replaced ==
  ASSUME HandlersType, NEW p \in Player, NEW b \in Handlers, Becomes(p, b)
  PROVE  HandlersType' /\ Moves(p, b.pc, b.g, b.list, b.t)
<1>1. h' = [h EXCEPT ![p] = b]
  BY DEF Becomes
<1> QED  BY <1>1 DEF HandlersType, Moves, Others

LEMMA BecomesDoes ==
  ASSUME HandlersType, NEW p \in Player, NEW pc \in Pc, NEW g \in GuildId \cup {NoGuild},
         NEW list \in SUBSET Player, NEW t \in Player \cup {NoPlayer},
         Becomes(p, Handler(pc, g, list, t))
  PROVE  HandlersType' /\ Moves(p, pc, g, list, t)
<1> DEFINE b == Handler(pc, g, list, t)
<1>1. b \in Handlers /\ b.pc = pc /\ b.g = g /\ b.list = list /\ b.t = t
  BY HandlerType
<1>2. Becomes(p, b)
  OBVIOUS
<1> HIDE DEF b
<1> QED  BY <1>1, <1>2, Replaced

LEMMA RestsDoes ==
  ASSUME HandlersType, NEW p \in Player, Becomes(p, Idle)
  PROVE  HandlersType' /\ Moves(p, "idle", NoGuild, {}, NoPlayer)
BY IdleIs, Replaced

LEMMA AtDoes ==
  ASSUME HandlersType, NEW p \in Player, NEW from, NEW to \in Pc, At(p, from, to)
  PROVE  /\ HandlersType' /\ h[p].pc = from
         /\ Moves(p, to, h[p].g, h[p].list, h[p].t)
<1>1. h[p] \in Handlers /\ h' = [h EXCEPT ![p] = [h[p] EXCEPT !.pc = to]]
  BY DEF At, HandlersType
<1>2. [h[p] EXCEPT !.pc = to] \in Handlers
  BY <1>1 DEF Handlers
<1>3. h'[p] = [h[p] EXCEPT !.pc = to] /\ Others(p) /\ HandlersType'
  BY <1>1, <1>2 DEF HandlersType, Others
<1>4. h'[p].pc = to /\ h'[p].g = h[p].g /\ h'[p].list = h[p].list /\ h'[p].t = h[p].t
  BY <1>1, <1>3 DEF Handlers
<1> QED  BY <1>3, <1>4 DEF Moves, At

LEMMA TakesNextDoes ==
  ASSUME HandlersType, NEW p \in Player, NEW t, NEW pc \in Pc, TakesNext(p, t, pc)
  PROVE  /\ HandlersType'
         /\ \/ Moves(p, "idle", NoGuild, {}, NoPlayer)
            \/ Moves(p, pc, h[p].g, h[p].list \ {t}, NoPlayer)
<1>1. CASE h[p].list \subseteq {t}
  BY <1>1, RestsDoes DEF TakesNext
<1>2. CASE ~ h[p].list \subseteq {t}
  <2>1. Becomes(p, Handler(pc, h[p].g, h[p].list \ {t}, NoPlayer))
    BY <1>2 DEF TakesNext
  <2>2. /\ h[p].g \in GuildId \cup {NoGuild} /\ h[p].list \ {t} \in SUBSET Player
        /\ NoPlayer \in Player \cup {NoPlayer}
    BY HandlerFields
  <2> QED  BY <2>1, <2>2, BecomesDoes
<1> QED  BY <1>1, <1>2

(***************************************************************************)
(* What handlers know, whatever is late.                                   *)
(***************************************************************************)

\* The handlers that have picked a player.
Picked == {"agree_wait", "agree_id", "quit", "quit_clear", "kick_out", "kick_clear",
           "officer_set", "change", "change_old", "change_new"}

HandlersOK ==
  \A p \in Player :
    /\ h[p].g <= next_id
    /\ h[p].pc \notin {"idle", "create"} => h[p].g # NoGuild
    /\ h[p].pc \in Picked => h[p].t \in Player
    /\ h[p].pc \in {"quit", "quit_clear"} => h[p].t = p
    /\ h[p].pc = "officer_set" => h[p].t # p
    /\ h[p].pc \in {"dissolve", "empty"} => h[p].g \in ended

GuildsOK ==
  /\ \A p \in Player : guild_id[p] <= next_id
  /\ \A g \in ended : g <= next_id
  /\ \A g \in GuildId : exist_type[g] = "deleted" => g \in ended

IdsLeft == next_id + Cardinality(Creating) <= MaxGuildId

\* Whose join_guild_locker is held, and by which handler.
Holds(q, p) ==
  \/ q = p /\ h[q].pc \in {"create", "create_pos"}
  \/ h[q].pc = "agree_id" /\ h[q].t = p

LocksHeld == \A p, q \in Player : Holds(q, p) => p \in locked

OneHolds == \A p, q, r \in Player : Holds(q, p) /\ Holds(r, p) => q = r

JoinersAreFree ==
  \A p \in Player :
    /\ h[p].pc = "agree_id" => guild_id[h[p].t] = NoGuild
    /\ h[p].pc = "create" => guild_id[p] = NoGuild \/ guild_id[p] \in ended

Facts == HandlersOK /\ GuildsOK /\ IdsLeft /\ LocksHeld /\ OneHolds /\ JoinersAreFree

(***************************************************************************)
(* What holds up to the first late store.                                  *)
(***************************************************************************)

Between(p, g) ==
  \E q \in Player : h[q].pc \in {"agree_id", "quit_clear", "kick_clear"} /\ h[q].t = p /\ h[q].g = g

Agree == \A p \in Player, g \in GuildId \ ended :
           (p \in members[g] <=> guild_id[p] = g) \/ Between(p, g)

\* A guild whose founder is not in office yet is his alone.
Founded ==
  \A p \in Player : h[p].pc = "create_pos" =>
    /\ members[h[p].g] = {p} /\ president[h[p].g] = p /\ guild_id[p] = h[p].g
    /\ exist_type[h[p].g] = "none"
    /\ \A q \in Player \ {p} : h[q].g # h[p].g /\ guild_id[q] # h[p].g

Governs == \A p \in Player : h[p].pc \in {"officer", "officer_set", "change"} => president[h[p].g] = p

Changing(g) == \E q \in Player : h[q].pc \in {"change_old", "change_new"} /\ h[q].g = g

Leaves(p, g) ==
  \E q \in Player : /\ h[q].pc \in {"quit", "quit_clear", "kick_out", "kick_clear"}
                    /\ h[q].t = p /\ h[q].g = g

InOffice(p, g) ==
  /\ p \in members[g] /\ guild_id[p] = g /\ ~ Leaves(p, g)
  /\ position[p] = "president" \/ h[p].pc = "create_pos"

PresidentsStay ==
  \A g \in GuildId \ ended : Exists(g) /\ ~ Changing(g) =>
    president[g] \in Player /\ InOffice(president[g], g)

AuthorityHasGuild == \A p \in Player : position[p] # "member" => guild_id[p] # NoGuild

OnePresident ==
  \A p \in Player : position[p] = "president" =>
    president[guild_id[p]] = p \/ h[p].pc = "change_old"

Sound == Agree /\ Founded /\ Governs /\ PresidentsStay /\ AuthorityHasGuild /\ OnePresident

\* The members of g that no kick has struck off before.
Counted(g) == members[g] \ Struck(g)

OneAgrees ==
  \A g \in GuildId \ crowded : \A p, q \in Player :
    h[p].pc \in AgreePc /\ h[p].g = g /\ h[q].pc \in AgreePc /\ h[q].g = g => p = q

\* Who is picked of a list is on it; of whom is agreed, these are yet to be added.
Listed == \A p \in Player : h[p].pc \in {"agree_wait", "agree_id"} => h[p].t \in h[p].list

Pending(p) == h[p].list \ (IF h[p].pc = "agree_id" THEN {h[p].t} ELSE {})

Room ==
  \A p \in Player, g \in GuildId \ (crowded \cup ended) :
    h[p].pc \in AgreePc /\ h[p].g = g =>
      Cardinality(Counted(g)) + Cardinality(Pending(p)) <= MemberNum

Within == \A g \in GuildId \ (crowded \cup ended) : Cardinality(Counted(g)) <= MemberNum

Limits == OneAgrees /\ Listed /\ Room /\ Within

(***************************************************************************)
(* The facts after a step.                                                 *)
(***************************************************************************)

Joins == {"create", "create_pos", "agree_id"}

\* What HandlersOK says of a handler.
Fits(p, pc, g, t) ==
  /\ g <= next_id
  /\ pc \notin {"idle", "create"} => g # NoGuild
  /\ pc \in Picked => t \in Player
  /\ pc \in {"quit", "quit_clear"} => t = p
  /\ pc = "officer_set" => t # p
  /\ pc \in {"dissolve", "empty"} => g \in ended

LEMMA HandlersFit == HandlersOK <=> \A p \in Player : Fits(p, h[p].pc, h[p].g, h[p].t)
BY DEF HandlersOK, Fits

\* Nothing but the ends of guilds and of memberships is new.
Shrinks ==
  /\ next_id' = next_id /\ locked' = locked /\ ended \subseteq ended'
  /\ \A q \in Player : guild_id'[q] \in {guild_id[q], NoGuild}

LEMMA GuildsShrink ==
  ASSUME Types, Types', GuildsOK, Shrinks, \A g \in ended' \ ended : g <= next_id,
         \A g \in GuildId : exist_type'[g] = "deleted" => exist_type[g] = "deleted" \/ g \in ended
  PROVE  GuildsOK'
<1>1. next_id \in Nat /\ NoGuild = 0
  BY Ids DEF Types, RowsType
<1>2. \A q \in Player : guild_id'[q] <= next_id'
  BY <1>1 DEF GuildsOK, Shrinks
<1>3. \A g \in ended' : g <= next_id'
  BY DEF GuildsOK, Shrinks
<1>4. \A g \in GuildId : exist_type'[g] = "deleted" => g \in ended'
  BY DEF GuildsOK, Shrinks
<1> QED  BY <1>2, <1>3, <1>4 DEF GuildsOK

LEMMA FactsAfterMove ==
  ASSUME Types, Types', Facts, Shrinks, GuildsOK',
         NEW p \in Player, NEW pc, NEW g, NEW list, NEW t, Moves(p, pc, g, list, t),
         h[p].pc \notin Joins, pc \notin Joins, Fits(p, pc, g, t)'
  PROVE  Facts'
<1> USE DEF Joins
<1>1. HandlersOK'
  <2> SUFFICES ASSUME NEW q \in Player  PROVE Fits(q, h[q].pc, h[q].g, h[q].t)'
    BY HandlersFit DEF HandlersOK, Fits
  <2>1. CASE q = p
    BY <2>1 DEF Moves, Fits
  <2>2. CASE q # p
    <3>1. h'[q] = h[q] /\ Fits(q, h[q].pc, h[q].g, h[q].t)
      BY <2>2, HandlersFit DEF Moves, Others, Facts
    <3> QED  BY <3>1 DEF Fits, Shrinks
  <2> QED  BY <2>1, <2>2
<1>2. IdsLeft'
  <2>1. Creating' = Creating
    BY DEF Creating, Moves, Others
  <2> QED  BY <2>1 DEF Facts, IdsLeft, Shrinks
<1>3. \A q, r \in Player : Holds(q, r)' => Holds(q, r)
  BY DEF Holds, Moves, Others
<1>4. LocksHeld' /\ OneHolds'
  BY <1>3 DEF LocksHeld, OneHolds, Facts, Shrinks
<1>5. JoinersAreFree'
  <2> SUFFICES ASSUME NEW q \in Player
               PROVE  /\ h'[q].pc = "agree_id" => guild_id'[h'[q].t] = NoGuild
                      /\ h'[q].pc = "create" => guild_id'[q] = NoGuild \/ guild_id'[q] \in ended'
    BY DEF JoinersAreFree
  <2>1. CASE q = p
    BY <2>1 DEF Moves
  <2>2. CASE q # p
    <3>1. h'[q] = h[q]
      BY <2>2 DEF Moves, Others
    <3>2. h[q].pc = "agree_id" => h[q].t \in Player
      BY DEF Facts, HandlersOK, Picked
    <3> QED  BY <3>1, <3>2 DEF Facts, JoinersAreFree, Shrinks
  <2> QED  BY <2>1, <2>2
<1> QED  BY <1>1, <1>2, <1>4, <1>5 DEF Facts

LEMMA FactsStay ==
  ASSUME Facts, Types, h' = h, next_id' = next_id, exist_type' = exist_type, guild_id' = guild_id,
         locked' = locked, ended' = ended
  PROVE  Facts'
<1>1. HandlersOK' /\ GuildsOK'
  BY DEF Facts, HandlersOK, GuildsOK
<1>2. IdsLeft'
  <2>1. Creating' = Creating
    BY DEF Creating
  <2> QED  BY <2>1 DEF Facts, IdsLeft
<1>3. LocksHeld' /\ OneHolds'
  BY DEF Facts, LocksHeld, OneHolds, Holds
<1>4. JoinersAreFree'
  BY DEF Facts, JoinersAreFree
<1> QED  BY <1>1, <1>2, <1>3, <1>4 DEF Facts

(***************************************************************************)
(* The handlers that begin by looking up the player's guild.               *)
(***************************************************************************)

\* How they leave the guild, if nothing was late.
LooksOnly(p, g) ==
  /\ president' = president
  /\ \A q \in Player \ {p} : position'[q] = position[q]
  /\ \/ position'[p] = position[p]
     \/ president[g] = p /\ position[p] = "member" /\ position'[p] = "president"
  /\ \A k \in GuildId \ {g} : members'[k] = members[k]
  /\ \/ members'[g] = members[g]
     \/ president[g] = p /\ members'[g] = members[g] \cup {p}
  /\ ~ late

LEMMA GetGuildDoes ==
  ASSUME Types, NEW p \in Player, NEW b \in BOOLEAN, GetGuildOf(p, b)
  PROVE  /\ guild_id[p] \in GuildId /\ Exists(guild_id[p]) /\ h[p].pc = "idle" /\ h[p] = Idle
         /\ president' \in [GuildId -> Player \cup {NoPlayer}]
         /\ members' \in [GuildId -> SUBSET Player]
         /\ position' \in [Player -> {"member", "officer", "president"}]
         /\ late' \in BOOLEAN
         /\ b => president[guild_id[p]] = p
         /\ ~ late' => LooksOnly(p, guild_id[p])
<1> DEFINE g == guild_id[p]
<1> USE DEF Types, RowsType, PlayersType, FlagsType
<1>1. g \in GuildId /\ Exists(g) /\ h[p] = Idle
  BY DEF GetGuildOf, GetGuild, Free
<1>2. h[p].pc = "idle"
  BY <1>1, IdleIs
<1>3. PresidentAfter(p, g) \in Player \cup {NoPlayer}
  BY <1>1 DEF PresidentAfter
<1>4. PositionAfter(p, g) \in {"member", "officer", "president"}
  BY <1>1 DEF PositionAfter
<1>5. /\ president' = [president EXCEPT ![g] = PresidentAfter(p, g)]
      /\ position' = [position EXCEPT ![p] = PositionAfter(p, g)]
      /\ members' = [members EXCEPT ![g] = IF PresidentAfter(p, g) = p THEN @ \cup {p} ELSE @]
      /\ Late(PresidentAfter(p, g) # president[g])
      /\ b => president[g] = p
  BY DEF GetGuildOf
<1>6. /\ president' \in [GuildId -> Player \cup {NoPlayer}]
      /\ position' \in [Player -> {"member", "officer", "president"}]
  BY <1>1, <1>3, <1>4, <1>5
<1>7. members' \in [GuildId -> SUBSET Player]
  BY <1>1, <1>5
<1>8. late' \in BOOLEAN
  BY <1>5 DEF Late
<1>9. ASSUME ~ late'  PROVE LooksOnly(p, g)
  <2>1. ~ late /\ PresidentAfter(p, g) = president[g]
    BY <1>5, <1>9 DEF Late
  <2>2. president' = president
    BY <1>1, <1>5, <2>1
  <2>3. \A k \in GuildId \ {g} : members'[k] = members[k]
    BY <1>5, <1>1
  <2>4. \/ members'[g] = members[g]
        \/ president[g] = p /\ members'[g] = members[g] \cup {p}
    BY <1>5, <1>1, <2>1
  <2>5. /\ \A q \in Player \ {p} : position'[q] = position[q]
        /\ \/ position'[p] = position[p]
           \/ president[g] = p /\ position[p] = "member" /\ position'[p] = "president"
    BY <1>5 DEF PositionAfter
  <2> QED  BY <2>1, <2>2, <2>3, <2>4, <2>5 DEF LooksOnly
<1> QED  BY <1>1, <1>2, <1>5, <1>6, <1>7, <1>8, <1>9

\* A handler that begins may do so with these.
Begins == {"agree", "quit", "kick", "officer", "change", "dismiss", "cancel"}

BeginsAs(p, g, pc, list, t) ==
  /\ pc \in Begins
  /\ Moves(p, pc, g, list, t)
  /\ pc = "quit" => t = p /\ president'[g] # p
  /\ pc = "change" => t \in Player
  /\ pc \in {"officer", "change"} => president[g] = p

\* Who looks is no founder on his way, and his guild no such founder's.
LEMMA LooksAtNoFoundedGuild ==
  ASSUME Types, Founded, NEW p \in Player, h[p].pc = "idle", guild_id[p] \in GuildId
  PROVE  \A q \in Player : h[q].pc = "create_pos" => q # p /\ h[q].g # guild_id[p]
BY DEF Founded

LEMMA SoundAfterLook ==
  ASSUME Types, Types', Facts, Sound,
         NEW p \in Player, guild_id[p] \in GuildId, h[p].pc = "idle", LooksOnly(p, guild_id[p]),
         guild_id' = guild_id, exist_type' = exist_type, ended' = ended,
         \/ h' = h
         \/ \E pc \in Pc, list \in SUBSET Player, t \in Player \cup {NoPlayer} :
              BeginsAs(p, guild_id[p], pc, list, t)
  PROVE  Sound'
<1> DEFINE g == guild_id[p]
<1> USE DEF Begins
<1>1. \A q \in Player \ {p} : h'[q] = h[q]
  BY DEF BeginsAs, Moves, Others
<1>2. \/ h'[p] = h[p]
      \/ h'[p].pc \in Begins /\ h'[p].g = g
  BY DEF BeginsAs, Moves
<1>3. /\ h'[p].pc = "quit" => h'[p].t = p /\ president[g] # p
      /\ h'[p].pc \in {"officer", "change"} => president[g] = p
  BY DEF BeginsAs, Moves, LooksOnly
<1>4. \A q \in Player, k \in GuildId : q \in members[k] => q \in members'[k]
  BY DEF LooksOnly, Types, RowsType
<1>5. \A q \in Player, k \in GuildId : q \in members'[k] => q \in members[k] \/ (q = p /\ k = g)
  BY DEF LooksOnly, Types, RowsType
<1>6. \A q \in Player, k \in GuildId : Between(q, k) => Between(q, k)'
  BY <1>1, <1>2 DEF Between
<1>7. Agree'
  <2> SUFFICES ASSUME NEW q \in Player, NEW k \in GuildId \ ended
               PROVE  ((q \in members'[k] <=> guild_id[q] = k) \/ Between(q, k)')
    BY DEF Agree
  <2>1. (q \in members[k] <=> guild_id[q] = k) \/ Between(q, k)
    BY DEF Sound, Agree
  <2> QED  BY <2>1, <1>4, <1>5, <1>6
<1>8. Founded'
  <2>1. \A q \in Player : h[q].pc = "create_pos" => q # p /\ h[q].g # g
    BY LooksAtNoFoundedGuild DEF Sound
  <2> SUFFICES ASSUME NEW q \in Player, h'[q].pc = "create_pos"
               PROVE  /\ members'[h'[q].g] = {q} /\ president'[h'[q].g] = q /\ guild_id'[q] = h'[q].g
                      /\ exist_type'[h'[q].g] = "none"
                      /\ \A r \in Player \ {q} : h'[r].g # h'[q].g /\ guild_id'[r] # h'[q].g
    BY DEF Founded
  <2>2. h'[q] = h[q] /\ q # p /\ h[q].g # g
    BY <1>1, <1>2, <2>1
  <2>3. /\ members[h[q].g] = {q} /\ president[h[q].g] = q /\ guild_id[q] = h[q].g
        /\ exist_type[h[q].g] = "none"
        /\ \A r \in Player \ {q} : h[r].g # h[q].g /\ guild_id[r] # h[q].g
    BY <2>2 DEF Sound, Founded
  <2>4. h[q].g \in GuildId
    BY <2>2, <2>3, HandlerFields, Ids DEF Types, Facts, HandlersOK
  <2>5. members'[h[q].g] = members[h[q].g]
    BY <2>2, <2>4 DEF LooksOnly
  <2>6. \A r \in Player \ {q} : h'[r].g # h[q].g
    BY <1>1, <1>2, <2>2, <2>3
  <2> QED  BY <2>2, <2>3, <2>5, <2>6 DEF LooksOnly
<1>9. Governs'
  BY <1>1, <1>2, <1>3 DEF Sound, Governs, LooksOnly
<1>10. \A k \in GuildId : Changing(k) => Changing(k)'
  BY <1>1, <1>2 DEF Changing
<1>11. \A q \in Player, k \in GuildId : Leaves(q, k)' => Leaves(q, k) \/ (q = p /\ k = g /\ president[g] # p)
  BY <1>1, <1>2, <1>3 DEF Leaves
<1>12. PresidentsStay'
  <2> SUFFICES ASSUME NEW k \in GuildId \ ended, Exists(k)', ~ Changing(k)'
               PROVE  \E r \in Player : r = president'[k] /\ InOffice(r, k)'
    BY DEF PresidentsStay, InOffice
  <2>1. PICK r \in Player : r = president[k] /\ InOffice(r, k)
    BY <1>10 DEF Sound, PresidentsStay, Exists
  <2>2. r \in members'[k] /\ guild_id'[r] = k
    BY <2>1, <1>4 DEF InOffice
  <2>3. ~ Leaves(r, k)'
    BY <2>1, <1>11 DEF InOffice
  <2>4. position[r] = "president" => position'[r] = "president"
    BY DEF LooksOnly
  <2>5. h[r].pc = "create_pos" => h'[r].pc = "create_pos"
    BY <1>1, <2>1
  <2>6. r = president'[k]
    BY <2>1 DEF LooksOnly
  <2>7. InOffice(r, k)'
    BY <2>1, <2>2, <2>3, <2>4, <2>5 DEF InOffice
  <2> QED  BY <2>6, <2>7
<1>13. AuthorityHasGuild'
  BY Ids DEF Sound, AuthorityHasGuild, LooksOnly
<1>14. OnePresident'
  BY <1>1, <1>2 DEF Sound, OnePresident, LooksOnly
<1> QED  BY <1>7, <1>8, <1>9, <1>12, <1>13, <1>14 DEF Sound

(***************************************************************************)
(* What the proofs keep, and the steps that keep it.                       *)
(***************************************************************************)

Inv == Types /\ Facts /\ (~ late => Sound)

LEMMA InvAfterLook ==
  ASSUME Inv, NEW p \in Player, NEW b \in BOOLEAN, GetGuildOf(p, b),
         next_id' = next_id, exist_type' = exist_type, guild_id' = guild_id, locked' = locked,
         ended' = ended, due' \in SUBSET GuildId, crowded' \in SUBSET GuildId,
         asks' \in [GuildId -> SUBSET Player],
         \/ h' = h
         \/ /\ HandlersType'
            /\ \E pc \in Pc, list \in SUBSET Player, t \in Player \cup {NoPlayer} :
                 BeginsAs(p, guild_id[p], pc, list, t)
  PROVE  Inv'
<1>1. Types /\ Facts
  BY DEF Inv
<1>2. /\ guild_id[p] \in GuildId /\ h[p].pc = "idle"
      /\ president' \in [GuildId -> Player \cup {NoPlayer}]
      /\ members' \in [GuildId -> SUBSET Player]
      /\ position' \in [Player -> {"member", "officer", "president"}]
      /\ late' \in BOOLEAN
      /\ ~ late' => LooksOnly(p, guild_id[p])
  BY <1>1, GetGuildDoes
<1>3. HandlersType'
  BY <1>1 DEF Types, HandlersType
<1>4. RowsType'
  BY <1>1, <1>2 DEF Types, RowsType
<1>5. PlayersType' /\ FlagsType'
  BY <1>1, <1>2 DEF Types, PlayersType, FlagsType
<1>6. Types'
  BY <1>3, <1>4, <1>5 DEF Types
<1>7. Facts'
  <2>1. CASE h' = h
    BY <2>1, <1>1, FactsStay
  <2>2. CASE \E pc \in Pc, list \in SUBSET Player, t \in Player \cup {NoPlayer} :
               BeginsAs(p, guild_id[p], pc, list, t)
    <3>1. PICK pc \in Pc, list \in SUBSET Player, t \in Player \cup {NoPlayer} :
            BeginsAs(p, guild_id[p], pc, list, t)
      BY <2>2
    <3>2. Shrinks
      BY DEF Shrinks
    <3>3. GuildsOK'
      BY <3>2, <1>1, <1>6, GuildsShrink DEF Facts
    <3>4. PICK g \in GuildId : g = guild_id[p]
      BY <1>2
    <3>5. Fits(p, pc, g, t)'
      BY <3>1, <3>4, <1>1, <1>2, Ids DEF BeginsAs, Begins, Fits, Facts, GuildsOK, Picked
    <3>6. Moves(p, pc, g, list, t) /\ pc \notin Joins /\ h[p].pc \notin Joins
      BY <3>1, <3>4, <1>2 DEF BeginsAs, Begins, Joins
    <3> QED  BY <3>2, <3>3, <3>5, <3>6, <1>1, <1>6, FactsAfterMove
  <2> QED  BY <2>1, <2>2
<1>8. ASSUME ~ late'  PROVE Sound'
  <2>1. LooksOnly(p, guild_id[p]) /\ Sound
    BY <1>2, <1>8 DEF LooksOnly, Inv
  <2> QED  BY <2>1, <1>1, <1>2, <1>6, SoundAfterLook
<1> QED  BY <1>6, <1>7, <1>8 DEF Inv

\* Steps of handlers that look, and of those that ask.
LEMMA StartKeeps ==
  ASSUME Inv, NEW p \in Player, NEW b \in BOOLEAN, GetGuildOf(p, b),
         NEW pc \in Begins, NEW list \in SUBSET Player, NEW t \in Player \cup {NoPlayer},
         Becomes(p, Handler(pc, guild_id[p], list, t)),
         pc = "quit" => t = p /\ president'[guild_id[p]] # p,
         pc = "change" => t \in Player,
         pc \in {"officer", "change"} => b,
         next_id' = next_id, exist_type' = exist_type, guild_id' = guild_id, locked' = locked,
         ended' = ended, due' \in SUBSET GuildId, crowded' \in SUBSET GuildId,
         asks' \in [GuildId -> SUBSET Player]
  PROVE  Inv'
<1>1. Types
  BY DEF Inv
<1>2. guild_id[p] \in GuildId /\ (b => president[guild_id[p]] = p)
  BY <1>1, GetGuildDoes
<1>3. pc \in Pc
  BY DEF Begins, Pc
<1>4. HandlersType' /\ Moves(p, pc, guild_id[p], list, t)
  BY <1>1, <1>2, <1>3, BecomesDoes DEF Types
<1>5. BeginsAs(p, guild_id[p], pc, list, t)
  BY <1>2, <1>4 DEF BeginsAs
<1>6. HandlersType' /\ \E c \in Pc, l \in SUBSET Player, s \in Player \cup {NoPlayer} :
                         BeginsAs(p, guild_id[p], c, l, s)
  BY <1>3, <1>4, <1>5
<1> QED  BY <1>6, InvAfterLook

LEMMA LookKeeps ==
  ASSUME Inv, NEW p \in Player,
         \/ Look(p)
         \/ \E list \in List : \/ Refuse(p, list) \/ AgreeBegins(p, list) \/ KickBegins(p, list)
                               \/ OfficerBegins(p, list)
         \/ \E t \in Player : ChangeBegins(p, t)
         \/ QuitBegins(p) \/ DismissBegins(p) \/ CancelBegins(p)
  PROVE  Inv'
<1>0. Types
  BY DEF Inv
<1>a. /\ due \in SUBSET GuildId /\ crowded \in SUBSET GuildId
      /\ asks \in [GuildId -> SUBSET Player] /\ NoPlayer \in Player \cup {NoPlayer}
      /\ p \in Player \cup {NoPlayer} /\ {} \in SUBSET Player
  BY <1>0 DEF Types, RowsType, FlagsType
<1> USE DEF Begins
<1>1. CASE Look(p)
  BY <1>1, <1>a, InvAfterLook DEF Look
<1>2. ASSUME NEW list \in List, Refuse(p, list)  PROVE Inv'
  <2>1. /\ GetGuildOf(p, FALSE) /\ asks' \in [GuildId -> SUBSET Player]
        /\ next_id' = next_id /\ exist_type' = exist_type /\ guild_id' = guild_id /\ locked' = locked
        /\ ended' = ended /\ due' = due /\ crowded' = crowded /\ h' = h
    BY <1>2, <1>a DEF Refuse
  <2> QED  BY <2>1, <1>a, InvAfterLook
<1>3. ASSUME NEW list \in List, AgreeBegins(p, list)  PROVE Inv'
  <2>1. guild_id[p] \in GuildId /\ list \in SUBSET Player
    BY <1>0, <1>3, GetGuildDoes DEF AgreeBegins, List
  <2>2. crowded' \in SUBSET GuildId
    BY <1>3, <1>a, <2>1 DEF AgreeBegins
  <2>3. /\ GetGuildOf(p, FALSE) /\ Becomes(p, Handler("agree", guild_id[p], list, NoPlayer))
        /\ next_id' = next_id /\ exist_type' = exist_type /\ guild_id' = guild_id /\ locked' = locked
        /\ ended' = ended /\ due' = due /\ asks' = asks
    BY <1>3 DEF AgreeBegins
  <2> QED  BY <2>1, <2>2, <2>3, <1>a, StartKeeps
<1>4. ASSUME NEW list \in List, KickBegins(p, list)  PROVE Inv'
  <2>1. list \in SUBSET Player
    BY DEF List
  <2>2. /\ GetGuildOf(p, FALSE) /\ Becomes(p, Handler("kick", guild_id[p], list, NoPlayer))
        /\ next_id' = next_id /\ exist_type' = exist_type /\ guild_id' = guild_id /\ locked' = locked
        /\ ended' = ended /\ due' = due /\ asks' = asks /\ crowded' = crowded
    BY <1>4 DEF KickBegins
  <2> QED  BY <2>1, <2>2, <1>a, StartKeeps
<1>5. ASSUME NEW list \in List, OfficerBegins(p, list)  PROVE Inv'
  <2>1. list \in SUBSET Player
    BY DEF List
  <2>2. /\ GetGuildOf(p, TRUE) /\ Becomes(p, Handler("officer", guild_id[p], list, NoPlayer))
        /\ next_id' = next_id /\ exist_type' = exist_type /\ guild_id' = guild_id /\ locked' = locked
        /\ ended' = ended /\ due' = due /\ asks' = asks /\ crowded' = crowded
    BY <1>5 DEF OfficerBegins
  <2> QED  BY <2>1, <2>2, <1>a, StartKeeps
<1>6. ASSUME NEW t \in Player, ChangeBegins(p, t)  PROVE Inv'
  <2>1. /\ GetGuildOf(p, TRUE) /\ Becomes(p, Handler("change", guild_id[p], {}, t))
        /\ next_id' = next_id /\ exist_type' = exist_type /\ guild_id' = guild_id /\ locked' = locked
        /\ ended' = ended /\ due' = due /\ asks' = asks /\ crowded' = crowded
    BY <1>6 DEF ChangeBegins
  <2> QED  BY <2>1, <1>a, StartKeeps
<1>7. CASE QuitBegins(p)
  <2>1. /\ GetGuildOf(p, FALSE) /\ Becomes(p, Handler("quit", guild_id[p], {}, p))
        /\ president'[guild_id[p]] # p
        /\ next_id' = next_id /\ exist_type' = exist_type /\ guild_id' = guild_id /\ locked' = locked
        /\ ended' = ended /\ due' = due /\ asks' = asks /\ crowded' = crowded
    BY <1>7 DEF QuitBegins
  <2> QED  BY <2>1, <1>a, StartKeeps
<1>8. CASE DismissBegins(p)
  <2>1. /\ GetGuildOf(p, TRUE) /\ Becomes(p, Handler("dismiss", guild_id[p], {}, NoPlayer))
        /\ next_id' = next_id /\ exist_type' = exist_type /\ guild_id' = guild_id /\ locked' = locked
        /\ ended' = ended /\ due' = due \ {guild_id[p]} /\ asks' = asks /\ crowded' = crowded
    BY <1>8 DEF DismissBegins
  <2> QED  BY <2>1, <1>a, StartKeeps
<1>9. CASE CancelBegins(p)
  <2>1. /\ GetGuildOf(p, TRUE) /\ Becomes(p, Handler("cancel", guild_id[p], {}, NoPlayer))
        /\ next_id' = next_id /\ exist_type' = exist_type /\ guild_id' = guild_id /\ locked' = locked
        /\ ended' = ended /\ due' = due \cup {guild_id[p]} /\ asks' = asks /\ crowded' = crowded
    BY <1>9 DEF CancelBegins
  <2>2. guild_id[p] \in GuildId
    BY <1>0, <2>1, GetGuildDoes
  <2> QED  BY <2>1, <2>2, <1>a, StartKeeps
<1> QED  BY <1>1, <1>2, <1>3, <1>4, <1>5, <1>6, <1>7, <1>8, <1>9

LEMMA AskKeeps ==
  ASSUME Inv, \/ \E p \in Player, g \in GuildId : Ask(p, g)
              \/ \E g \in GuildId : TimePasses(g)
              \/ UNCHANGED vars
  PROVE  Inv'
<1>1. /\ next_id' = next_id /\ exist_type' = exist_type /\ president' = president
      /\ members' = members /\ guild_id' = guild_id /\ position' = position /\ locked' = locked
      /\ h' = h /\ late' = late /\ ended' = ended /\ crowded' = crowded
  BY DEF Ask, TimePasses, vars, playerVars, histVars
<1>2. Types /\ Facts
  BY DEF Inv
<1>3. asks' \in [GuildId -> SUBSET Player] /\ due' \in SUBSET GuildId
  <2>1. asks \in [GuildId -> SUBSET Player] /\ due \in SUBSET GuildId
    BY <1>2 DEF Types, RowsType
  <2>2. ASSUME NEW p \in Player, NEW g \in GuildId, Ask(p, g)
        PROVE  asks' \in [GuildId -> SUBSET Player] /\ due' = due
    BY <2>1, <2>2 DEF Ask
  <2>3. ASSUME NEW g \in GuildId, TimePasses(g)  PROVE asks' = asks /\ due' \in SUBSET GuildId
    BY <2>1, <2>3 DEF TimePasses
  <2> QED  BY <2>1, <2>2, <2>3 DEF vars
<1>4. Types'
  BY <1>1, <1>2, <1>3 DEF Types, HandlersType, RowsType, PlayersType, FlagsType
<1>5. Facts'
  BY <1>1, <1>2, FactsStay
<1>6. ASSUME Sound  PROVE Sound'
  <2>1. Agree' /\ Founded' /\ Governs'
    BY <1>1, <1>6 DEF Sound, Agree, Between, Founded, Governs
  <2>2. PresidentsStay'
    BY <1>1, <1>6 DEF Sound, PresidentsStay, Exists, Changing, InOffice, Leaves
  <2>3. AuthorityHasGuild' /\ OnePresident'
    BY <1>1, <1>6 DEF Sound, AuthorityHasGuild, OnePresident
  <2> QED  BY <2>1, <2>2, <2>3 DEF Sound
<1> QED  BY <1>1, <1>4, <1>5, <1>6 DEF Inv

(***************************************************************************)
(* Steps in which a handler goes on and no membership changes.             *)
(***************************************************************************)

Betweens == {"agree_id", "quit_clear", "kick_clear"}
Changes == {"change_old", "change_new"}

RowsRest ==
  /\ president' = president /\ members' = members
  /\ guild_id' = guild_id /\ position' = position

\* No handler but p's moves, and what Sound says of handlers holds of its new place.
GoesOn(p, pc, g, list, t) ==
  /\ Moves(p, pc, g, list, t)
  /\ h[p].pc \notin {"create_pos"} \cup Betweens \cup Changes
  /\ pc \notin {"create_pos", "quit", "quit_clear", "kick_clear"}
  /\ \A q \in Player : h[q].pc = "create_pos" => g # h[q].g
  /\ pc \in {"officer", "officer_set", "change"} => president[g] = p
  /\ pc = "kick_out" => position[t] = "member" /\ g = h[p].g

LEMMA SoundAfterMove ==
  ASSUME Types, Facts, Sound, RowsRest,
         NEW p \in Player, NEW pc, NEW g, NEW list, NEW t, GoesOn(p, pc, g, list, t),
         ended \subseteq ended',
         \A k \in GuildId : Exists(k)' => Exists(k) \/ k \in ended',
         \A k \in GuildId : exist_type'[k] = exist_type[k] \/ k = h[p].g
  PROVE  Sound'
<1> USE DEF Betweens, Changes
<1>1. /\ \A q \in Player \ {p} : h'[q] = h[q]
      /\ h'[p].pc = pc /\ h'[p].g = g /\ h'[p].t = t
      /\ h[p].pc # "create_pos" /\ pc # "create_pos"
  BY DEF GoesOn, Moves, Others
<1>2. Agree'
  <2>1. \A q \in Player, k \in GuildId : Between(q, k) => Between(q, k)'
    BY <1>1 DEF Between, GoesOn
  <2> QED  BY <2>1 DEF Sound, Agree, RowsRest
<1>3. Founded'
  <2> SUFFICES ASSUME NEW q \in Player, h'[q].pc = "create_pos"
               PROVE  /\ members'[h'[q].g] = {q} /\ president'[h'[q].g] = q /\ guild_id'[q] = h'[q].g
                      /\ exist_type'[h'[q].g] = "none"
                      /\ \A r \in Player \ {q} : h'[r].g # h'[q].g /\ guild_id'[r] # h'[q].g
    BY DEF Founded
  <2>1. q # p /\ h'[q] = h[q] /\ h[q].pc = "create_pos"
    BY <1>1
  <2>2. /\ members[h[q].g] = {q} /\ president[h[q].g] = q /\ guild_id[q] = h[q].g
        /\ exist_type[h[q].g] = "none"
        /\ \A r \in Player \ {q} : h[r].g # h[q].g /\ guild_id[r] # h[q].g
    BY <2>1 DEF Sound, Founded
  <2>3. h[q].g \in GuildId /\ h[q].g # h[p].g /\ h[q].g # g
    BY <2>1, <2>2, HandlerFields DEF Types, Facts, HandlersOK, GoesOn
  <2>4. \A r \in Player \ {q} : h'[r].g # h[q].g
    BY <1>1, <2>2, <2>3
  <2> QED  BY <2>1, <2>2, <2>3, <2>4 DEF RowsRest
<1>4. Governs'
  BY <1>1 DEF Sound, Governs, GoesOn, RowsRest
<1>5. PresidentsStay'
  <2>1. \A k \in GuildId : Changing(k) => Changing(k)'
    BY <1>1 DEF Changing, GoesOn
  <2> SUFFICES ASSUME NEW k \in GuildId \ ended', Exists(k)', ~ Changing(k)'
               PROVE  \E r \in Player : r = president'[k] /\ InOffice(r, k)'
    BY DEF PresidentsStay
  <2>2. PICK r \in Player : r = president[k] /\ InOffice(r, k)
    BY <2>1 DEF Sound, PresidentsStay
  <2>3. ASSUME Leaves(r, k)'  PROVE FALSE
    <3>1. pc = "kick_out" /\ t = r /\ g = k
      BY <2>2, <2>3, <1>1 DEF InOffice, Leaves, GoesOn
    <3>2. position[r] = "member" /\ h[p].g = k /\ h[r].pc = "create_pos" /\ r # p
      BY <3>1, <2>2, <1>1 DEF InOffice, GoesOn
    <3>3. h[r].g = k
      BY <3>2, <2>2 DEF Sound, Founded, InOffice
    <3> QED  BY <3>2, <3>3 DEF Sound, Founded
  <2>4. InOffice(r, k)'
    BY <2>2, <2>3, <1>1 DEF InOffice, RowsRest
  <2> QED  BY <2>2, <2>4 DEF RowsRest
<1>6. AuthorityHasGuild'
  BY DEF Sound, AuthorityHasGuild, RowsRest
<1>7. OnePresident'
  BY <1>1 DEF Sound, OnePresident, RowsRest, GoesOn
<1> QED  BY <1>2, <1>3, <1>4, <1>5, <1>6, <1>7 DEF Sound

\* Where a handler stays with its guild, or leaves it, no founder is in the way.
LEMMA NoFounderThere ==
  ASSUME Types, Facts, Founded, NEW p \in Player, h[p].pc # "create_pos",
         NEW g, g = h[p].g \/ g = NoGuild
  PROVE  \A q \in Player : h[q].pc = "create_pos" => g # h[q].g
BY DEF Founded, Facts, HandlersOK

LEMMA InvAfterMove ==
  ASSUME Inv, RowsRest, NEW p \in Player, NEW pc, NEW g, NEW list, NEW t,
         Moves(p, pc, g, list, t), h[p].pc \notin Joins, pc \notin Joins, Fits(p, pc, g, t)',
         ~ late' => ~ late /\ (Sound => GoesOn(p, pc, g, list, t)),
         next_id' = next_id, locked' = locked, ended \subseteq ended', ended' \in SUBSET GuildId,
         \A k \in ended' \ ended : k <= next_id,
         due' \in SUBSET GuildId, crowded' \in SUBSET GuildId, asks' \in [GuildId -> SUBSET Player],
         HandlersType', late' \in BOOLEAN,
         exist_type' \in [GuildId -> {"absent", "none", "will_delete", "deleted"}],
         \A k \in GuildId : exist_type'[k] = "absent" <=> exist_type[k] = "absent",
         \A k \in GuildId : exist_type'[k] = "deleted" => exist_type[k] = "deleted" \/ k \in ended,
         \A k \in GuildId : Exists(k)' => Exists(k) \/ k \in ended',
         \A k \in GuildId : exist_type'[k] = exist_type[k] \/ k = h[p].g
  PROVE  Inv'
<1>1. Types /\ Facts
  BY DEF Inv
<1>2. RowsType'
  BY <1>1 DEF Types, RowsType, RowsRest
<1>3. PlayersType' /\ FlagsType'
  BY <1>1 DEF Types, PlayersType, FlagsType, RowsRest
<1>4. Types'
  BY <1>2, <1>3 DEF Types
<1>5. Shrinks
  BY DEF Shrinks, RowsRest
<1>6. GuildsOK'
  BY <1>1, <1>4, <1>5, GuildsShrink DEF Facts
<1>7. Facts'
  BY <1>1, <1>4, <1>5, <1>6, FactsAfterMove
<1>8. ASSUME ~ late'  PROVE Sound'
  <2>1. Sound /\ GoesOn(p, pc, g, list, t)
    BY <1>8 DEF Inv
  <2> QED  BY <2>1, <1>1, SoundAfterMove
<1> QED  BY <1>4, <1>7, <1>8 DEF Inv

\* A handler that looks at the next player on its list: it takes him, or is done with
\* him, or has no other.
Checking == {"agree", "agree_wait", "kick", "officer"}

Looked(p, to, g, list, t) ==
  /\ Moves(p, to, g, list, t)
  /\ \/ to = "idle" /\ g = NoGuild
     \/ to \in {"agree", "kick", "officer"} /\ g = h[p].g
     \/ to \in {"agree_wait", "kick_out", "officer_set"} /\ t \in Player /\ g = h[p].g
  /\ to \in {"officer", "officer_set"} => h[p].pc = "officer"
  /\ to = "kick_out" => position[t] = "member"
  /\ to = "officer_set" => t # p

LEMMA LookedKeeps ==
  ASSUME Inv, NEW p \in Player, h[p].pc \in Checking, HandlersType',
         UNCHANGED <<rowVars, playerVars, locked, histVars>>,
         NEW to, NEW g, NEW list, NEW t, Looked(p, to, g, list, t)
  PROVE  Inv'
<1> USE DEF Checking
<1>1. /\ next_id' = next_id /\ exist_type' = exist_type /\ due' = due /\ asks' = asks
      /\ locked' = locked /\ late' = late /\ ended' = ended /\ crowded' = crowded
      /\ president' = president /\ members' = members /\ guild_id' = guild_id
      /\ position' = position
  BY DEF rowVars, playerVars, histVars
<1>2. RowsRest
  BY <1>1 DEF RowsRest
<1>3. Types /\ Facts
  BY DEF Inv
<1>4. Moves(p, to, g, list, t) /\ to \notin Joins /\ h[p].pc \notin Joins
  BY DEF Looked, Joins
<1>5. h[p].g <= next_id /\ h[p].g # NoGuild /\ next_id \in Nat
  BY <1>3, Ids DEF Facts, HandlersOK, Types, RowsType
<1>6. Fits(p, to, g, t)'
  BY <1>1, <1>5, Ids DEF Fits, Looked, Picked
<1>7. ASSUME Sound  PROVE GoesOn(p, to, g, list, t)
  <2>1. \A q \in Player : h[q].pc = "create_pos" => g # h[q].g
    BY <1>3, <1>7, NoFounderThere DEF Sound, Looked
  <2>2. h[p].pc = "officer" => president[h[p].g] = p
    BY <1>7 DEF Sound, Governs
  <2>3. to \in {"officer", "officer_set", "change"} => president[g] = p
    BY <2>2 DEF Looked
  <2> QED  BY <2>1, <2>3, <1>4 DEF GoesOn, Looked, Betweens, Changes
<1>8. /\ due' \in SUBSET GuildId /\ crowded' \in SUBSET GuildId /\ ended' \in SUBSET GuildId
      /\ asks' \in [GuildId -> SUBSET Player] /\ late' \in BOOLEAN
      /\ exist_type' \in [GuildId -> {"absent", "none", "will_delete", "deleted"}]
  BY <1>1, <1>3 DEF Types, RowsType, FlagsType
<1>9. \A k \in GuildId : Exists(k)' <=> Exists(k)
  BY <1>1 DEF Exists
<1>10. /\ ended \subseteq ended' /\ (\A k \in ended' \ ended : k <= next_id)
       /\ (~ late' => ~ late /\ (Sound => GoesOn(p, to, g, list, t)))
  BY <1>1, <1>7
<1>11. /\ \A k \in GuildId : exist_type'[k] = "absent" <=> exist_type[k] = "absent"
       /\ \A k \in GuildId : exist_type'[k] = "deleted" => exist_type[k] = "deleted" \/ k \in ended
       /\ \A k \in GuildId : exist_type'[k] = exist_type[k] \/ k = h[p].g
       /\ \A k \in GuildId : Exists(k)' => Exists(k) \/ k \in ended'
  BY <1>1, <1>9
<1> QED  BY <1>1, <1>2, <1>4, <1>6, <1>8, <1>10, <1>11, InvAfterMove

LEMMA CheckKeeps ==
  ASSUME Inv, NEW p \in Player,
         \/ \E t \in Player : AgreeChecks(p, t) \/ KickChecks(p, t) \/ OfficerChecks(p, t)
         \/ AgreeIsTooLate(p)
  PROVE  Inv'
<1>1. HandlersType
  BY DEF Inv, Types
<1>2. h[p].g \in GuildId \cup {NoGuild} /\ h[p].list \in SUBSET Player
  BY <1>1, HandlerFields
<1>3. ASSUME NEW t, NEW pc \in {"agree", "kick", "officer"}, TakesNext(p, t, pc),
             h[p].pc \in Checking, pc = "officer" => h[p].pc = "officer",
             UNCHANGED <<rowVars, playerVars, locked, histVars>>
      PROVE  Inv'
  <2>1. pc \in Pc
    BY DEF Pc
  <2>2. /\ HandlersType'
        /\ \/ Moves(p, "idle", NoGuild, {}, NoPlayer)
           \/ Moves(p, pc, h[p].g, h[p].list \ {t}, NoPlayer)
    BY <1>1, <1>3, <2>1, TakesNextDoes
  <2>3. \E to, g, list, s : Looked(p, to, g, list, s)
    <3>1. CASE Moves(p, "idle", NoGuild, {}, NoPlayer)
      <4>1. Looked(p, "idle", NoGuild, {}, NoPlayer)
        BY <3>1 DEF Looked
      <4> QED  BY <4>1
    <3>2. CASE Moves(p, pc, h[p].g, h[p].list \ {t}, NoPlayer)
      <4>1. Looked(p, pc, h[p].g, h[p].list \ {t}, NoPlayer)
        BY <1>3, <3>2 DEF Looked
      <4> QED  BY <4>1
    <3> QED  BY <2>2, <3>1, <3>2
  <2>4. PICK to, g, list, s : Looked(p, to, g, list, s)
    BY <2>3
  <2> QED  BY <1>3, <2>2, <2>4, LookedKeeps
<1>4. ASSUME NEW t \in Player, NEW pc \in {"agree_wait", "kick_out", "officer_set"},
             Becomes(p, Handler(pc, h[p].g, h[p].list, t)),
             h[p].pc \in Checking, pc = "officer_set" => h[p].pc = "officer" /\ t # p,
             pc = "kick_out" => position[t] = "member",
             UNCHANGED <<rowVars, playerVars, locked, histVars>>
      PROVE  Inv'
  <2>1. pc \in Pc
    BY DEF Pc
  <2>2. HandlersType' /\ Moves(p, pc, h[p].g, h[p].list, t)
    BY <1>1, <1>2, <1>4, <2>1, BecomesDoes
  <2>3. Looked(p, pc, h[p].g, h[p].list, t)
    BY <1>4, <2>2 DEF Looked
  <2>4. PICK g, list : Looked(p, pc, g, list, t)
    BY <2>3
  <2> QED  BY <1>4, <2>2, <2>4, LookedKeeps
<1>5. ASSUME NEW t \in Player, AgreeChecks(p, t)  PROVE Inv'
  <2>1. CASE Becomes(p, Handler("agree_wait", h[p].g, h[p].list, t))
    BY <2>1, <1>4, <1>5 DEF AgreeChecks, Checking
  <2>2. CASE TakesNext(p, t, "agree")
    BY <2>2, <1>3, <1>5 DEF AgreeChecks, Checking
  <2> QED  BY <2>1, <2>2, <1>5 DEF AgreeChecks
<1>6. ASSUME NEW t \in Player, KickChecks(p, t)  PROVE Inv'
  <2>1. CASE position[t] = "member" /\ Becomes(p, Handler("kick_out", h[p].g, h[p].list, t))
    BY <2>1, <1>4, <1>6 DEF KickChecks, Checking
  <2>2. CASE TakesNext(p, t, "kick")
    BY <2>2, <1>3, <1>6 DEF KickChecks, Checking
  <2> QED  BY <2>1, <2>2, <1>6 DEF KickChecks
<1>7. ASSUME NEW t \in Player, OfficerChecks(p, t)  PROVE Inv'
  <2>1. CASE t # p /\ Becomes(p, Handler("officer_set", h[p].g, h[p].list, t))
    BY <2>1, <1>4, <1>7 DEF OfficerChecks, Checking
  <2>2. CASE TakesNext(p, t, "officer")
    BY <2>2, <1>3, <1>7 DEF OfficerChecks, Checking
  <2> QED  BY <2>1, <2>2, <1>7 DEF OfficerChecks
<1>8. CASE AgreeIsTooLate(p)
  BY <1>3, <1>8 DEF AgreeIsTooLate, Checking
<1> QED  BY <1>5, <1>6, <1>7, <1>8

\* Dismissal, and the guild's row once its players have left it.
RowStates == {"absent", "none", "will_delete", "deleted"}

LEMMA StateKeeps ==
  ASSUME Inv, NEW p \in Player, h[p].pc \in {"dismiss", "cancel", "dissolve"},
         UNCHANGED <<next_id, due, president, members, asks, playerVars, locked, histVars>>,
         NEW to \in RowStates \ {"absent"}, to = "deleted" => h[p].pc = "dissolve",
         exist_type' = [exist_type EXCEPT ![h[p].g] = to],
         HandlersType', NEW pc, NEW g, NEW list, NEW t, Moves(p, pc, g, list, t),
         \/ pc = "idle" /\ g = NoGuild
         \/ pc = "empty" /\ g = h[p].g /\ h[p].pc = "dissolve"
  PROVE  Inv'
<1> USE DEF RowStates
<1>1. /\ next_id' = next_id /\ due' = due /\ asks' = asks /\ locked' = locked /\ late' = late
      /\ ended' = ended /\ crowded' = crowded /\ president' = president /\ members' = members
      /\ guild_id' = guild_id /\ position' = position
  BY DEF playerVars, histVars
<1>2. RowsRest
  BY <1>1 DEF RowsRest
<1>3. Types /\ Facts
  BY DEF Inv
<1>4. h[p].g \in GuildId /\ h[p].g <= next_id /\ next_id \in Nat /\ h[p].g # NoGuild
  BY <1>3, Ids, HandlerFields DEF Facts, HandlersOK, Types, RowsType
<1>5. h[p].pc \notin Joins /\ pc \notin Joins
  BY DEF Joins
<1>6. h[p].pc = "dissolve" => h[p].g \in ended
  BY <1>3 DEF Facts, HandlersOK
<1>7. Fits(p, pc, g, t)'
  BY <1>1, <1>4, <1>6, Ids DEF Fits, Picked
<1>8. ASSUME Sound  PROVE GoesOn(p, pc, g, list, t)
  <2>1. \A q \in Player : h[q].pc = "create_pos" => g # h[q].g
    BY <1>3, <1>8, NoFounderThere DEF Sound
  <2> QED  BY <2>1 DEF GoesOn, Betweens, Changes
<1>9. exist_type \in [GuildId -> RowStates] /\ exist_type' \in [GuildId -> RowStates]
  BY <1>3, <1>4 DEF Types, RowsType
<1>10. /\ exist_type[h[p].g] # "absent" /\ exist_type'[h[p].g] = to
       /\ \A k \in GuildId : exist_type'[k] = exist_type[k] \/ k = h[p].g
  <2>1. exist_type[h[p].g] # "absent"
    <3>1. /\ \A k \in GuildId : exist_type[k] = "absent" <=> k > next_id
          /\ h[p].g \in Nat
      BY <1>3, <1>4, Ids DEF Types, RowsType
    <3> QED  BY <3>1, <1>4
  <2> QED  BY <2>1, <1>4, <1>9
<1>11. /\ \A k \in GuildId : exist_type'[k] = "absent" <=> exist_type[k] = "absent"
       /\ \A k \in GuildId : exist_type'[k] = "deleted" => exist_type[k] = "deleted" \/ k \in ended
  BY <1>6, <1>10
<1>12. \A k \in GuildId : Exists(k)' => Exists(k) \/ k \in ended'
  <2>1. exist_type[h[p].g] = "deleted" => h[p].g \in ended
    BY <1>3, <1>4 DEF Facts, GuildsOK
  <2> QED  BY <2>1, <1>1, <1>9, <1>10 DEF Exists
<1>13. /\ due' \in SUBSET GuildId /\ crowded' \in SUBSET GuildId /\ ended' \in SUBSET GuildId
       /\ asks' \in [GuildId -> SUBSET Player] /\ late' \in BOOLEAN
  BY <1>1, <1>3 DEF Types, RowsType, FlagsType
<1>14. /\ ended \subseteq ended' /\ (\A k \in ended' \ ended : k <= next_id)
       /\ (~ late' => ~ late /\ (Sound => GoesOn(p, pc, g, list, t)))
  BY <1>1, <1>8
<1> QED  BY <1>1, <1>2, <1>5, <1>7, <1>9, <1>10, <1>11, <1>12, <1>13, <1>14, InvAfterMove

LEMMA DismissKeeps ==
  ASSUME Inv, NEW p \in Player, Dismiss(p) \/ Cancel(p) \/ DissolveDeletes(p)
  PROVE  Inv'
<1>1. HandlersType
  BY DEF Inv, Types
<1>2. CASE Dismiss(p)
  <2>1. HandlersType' /\ Moves(p, "idle", NoGuild, {}, NoPlayer)
    BY <1>1, <1>2, RestsDoes DEF Dismiss
  <2> QED  BY <1>2, <2>1, StateKeeps DEF Dismiss, RowStates
<1>3. CASE Cancel(p)
  <2>1. HandlersType' /\ Moves(p, "idle", NoGuild, {}, NoPlayer)
    BY <1>1, <1>3, RestsDoes DEF Cancel
  <2> QED  BY <1>3, <2>1, StateKeeps DEF Cancel, RowStates
<1>4. CASE DissolveDeletes(p)
  <2>1. /\ HandlersType' /\ h[p].pc = "dissolve"
        /\ Moves(p, "empty", h[p].g, h[p].list, h[p].t)
    BY <1>1, <1>4, AtDoes DEF DissolveDeletes, Pc
  <2>2. PICK g, list, t : g = h[p].g /\ Moves(p, "empty", g, list, t)
    BY <2>1
  <2> QED  BY <1>4, <2>1, <2>2, StateKeeps DEF DissolveDeletes, RowStates
<1> QED  BY <1>2, <1>3, <1>4

LEMMA DissolveBeginsKeeps ==
  ASSUME Inv, NEW p \in Player, NEW g \in GuildId, DissolveBegins(p, g)
  PROVE  Inv'
<1>1. /\ next_id' = next_id /\ exist_type' = exist_type /\ due' = due /\ asks' = asks
      /\ locked' = locked /\ crowded' = crowded /\ president' = president /\ members' = members
      /\ guild_id' = guild_id /\ position' = position
      /\ ended' = ended \cup {g} /\ exist_type[g] = "will_delete" /\ h[p] = Idle
      /\ Late(\E q \in Player : h[q].g = g)
      /\ Becomes(p, Handler("dissolve", g, members[g], NoPlayer))
  BY DEF DissolveBegins, rowVars, playerVars, Overdue, Free
<1>2. RowsRest
  BY <1>1 DEF RowsRest
<1>3. Types /\ Facts
  BY DEF Inv
<1>4. h[p].pc = "idle"
  BY <1>1, IdleIs
<1>5. members[g] \in SUBSET Player /\ g <= next_id /\ g # NoGuild
  BY <1>1, <1>3, Ids DEF Types, RowsType
<1>6. "dissolve" \in Pc
  BY DEF Pc
<1>7. HandlersType' /\ Moves(p, "dissolve", g, members[g], NoPlayer)
  BY <1>1, <1>3, <1>5, <1>6, BecomesDoes DEF Types
<1>8. PICK list : Moves(p, "dissolve", g, list, NoPlayer)
  BY <1>7
<1>9. h[p].pc \notin Joins /\ "dissolve" \notin Joins
  BY <1>4 DEF Joins
<1>10. Fits(p, "dissolve", g, NoPlayer)'
  BY <1>1, <1>5 DEF Fits, Picked
<1>11. ASSUME ~ late'  PROVE ~ late /\ (Sound => GoesOn(p, "dissolve", g, list, NoPlayer))
  <2>1. ~ late /\ \A q \in Player : h[q].g # g
    BY <1>1, <1>11 DEF Late
  <2> QED  BY <2>1, <1>4, <1>8 DEF GoesOn, Betweens, Changes
<1>12. /\ due' \in SUBSET GuildId /\ crowded' \in SUBSET GuildId /\ ended' \in SUBSET GuildId
       /\ asks' \in [GuildId -> SUBSET Player]
       /\ exist_type' \in [GuildId -> {"absent", "none", "will_delete", "deleted"}]
  BY <1>1, <1>3 DEF Types, RowsType, FlagsType
<1>13. late' \in BOOLEAN
  BY <1>1, <1>3 DEF Late, Types, FlagsType
<1>14. \A k \in GuildId : Exists(k)' <=> Exists(k)
  BY <1>1 DEF Exists
<1>15. ended \subseteq ended' /\ (\A k \in ended' \ ended : k <= next_id)
  BY <1>1, <1>5
<1>16. /\ \A k \in GuildId : exist_type'[k] = "absent" <=> exist_type[k] = "absent"
       /\ \A k \in GuildId : exist_type'[k] = "deleted" => exist_type[k] = "deleted" \/ k \in ended
       /\ \A k \in GuildId : exist_type'[k] = exist_type[k] \/ k = h[p].g
       /\ \A k \in GuildId : Exists(k)' => Exists(k) \/ k \in ended'
  BY <1>1, <1>14
<1> QED  BY <1>1, <1>2, <1>7, <1>8, <1>9, <1>10, <1>11, <1>12, <1>13, <1>15, <1>16, InvAfterMove

(***************************************************************************)
(* Steps that store a position or the presidency.                          *)
(***************************************************************************)

LEMMA InvAfterStore ==
  ASSUME Inv, Types', Shrinks, exist_type' = exist_type, ended' = ended,
         NEW p \in Player, NEW pc, NEW g, NEW list, NEW t, Moves(p, pc, g, list, t),
         h[p].pc \notin Joins, pc \notin Joins, Fits(p, pc, g, t)',
         ~ late' => ~ late /\ (Sound => Sound')
  PROVE  Inv'
<1>1. Types /\ Facts
  BY DEF Inv
<1>2. GuildsOK'
  BY <1>1, GuildsShrink DEF Facts
<1>3. Facts'
  BY <1>1, <1>2, FactsAfterMove
<1> QED  BY <1>3 DEF Inv

LEMMA FoundedStays ==
  ASSUME Types, Facts, Founded, NEW p \in Player, NEW pc, NEW g, NEW list, NEW t,
         Moves(p, pc, g, list, t), h[p].pc # "create_pos", pc # "create_pos",
         g = h[p].g \/ g = NoGuild,
         \A k \in GuildId : k # h[p].g =>
           members'[k] = members[k] /\ president'[k] = president[k] /\ exist_type'[k] = exist_type[k],
         \A q \in Player : guild_id'[q] \in {guild_id[q], NoGuild, h[p].g},
         \A q \in Player : h[q].pc = "create_pos" => guild_id'[q] = guild_id[q]
  PROVE  Founded'
<1> SUFFICES ASSUME NEW q \in Player, h'[q].pc = "create_pos"
             PROVE  /\ members'[h'[q].g] = {q} /\ president'[h'[q].g] = q /\ guild_id'[q] = h'[q].g
                    /\ exist_type'[h'[q].g] = "none"
                    /\ \A r \in Player \ {q} : h'[r].g # h'[q].g /\ guild_id'[r] # h'[q].g
  BY DEF Founded
<1>1. q # p /\ h'[q] = h[q] /\ h[q].pc = "create_pos"
  BY DEF Moves, Others
<1>2. /\ members[h[q].g] = {q} /\ president[h[q].g] = q /\ guild_id[q] = h[q].g
      /\ exist_type[h[q].g] = "none"
      /\ \A r \in Player \ {q} : h[r].g # h[q].g /\ guild_id[r] # h[q].g
  BY <1>1 DEF Founded
<1>3. h[q].g \in GuildId /\ h[q].g # NoGuild /\ h[q].g # h[p].g /\ h[q].g # g
  BY <1>1, <1>2, HandlerFields DEF Types, Facts, HandlersOK
<1>4. \A r \in Player \ {q} : h'[r].g # h[q].g
  BY <1>2, <1>3 DEF Moves, Others
<1>5. \A r \in Player \ {q} : guild_id'[r] # h[q].g
  BY <1>2, <1>3
<1> QED  BY <1>1, <1>2, <1>3, <1>4, <1>5

\* A president other than the one whose office is changed stays in it.
LEMMA OfficesStay ==
  ASSUME PresidentsStay, NEW p \in Player, NEW pc, NEW g, NEW list, NEW t,
         Moves(p, pc, g, list, t), h[p].pc # "create_pos",
         pc \notin {"quit", "quit_clear", "kick_out", "kick_clear"},
         exist_type' = exist_type, ended' = ended, guild_id' = guild_id, members' = members,
         NEW k \in GuildId \ ended, Exists(k), ~ Changing(k), president'[k] = president[k],
         position[president[k]] = "president" => position'[president[k]] = "president"
  PROVE  president'[k] \in Player /\ \E r \in Player : r = president'[k] /\ InOffice(r, k)'
<1>1. PICK r \in Player : r = president[k] /\ InOffice(r, k)
  BY DEF PresidentsStay
<1>2. ~ Leaves(r, k)'
  BY <1>1 DEF InOffice, Leaves, Moves, Others
<1>3. h[r].pc = "create_pos" => h'[r].pc = "create_pos"
  BY DEF Moves, Others
<1>4. InOffice(r, k)'
  BY <1>1, <1>2, <1>3 DEF InOffice
<1> QED  BY <1>1, <1>4

LEMMA OfficerSetsKeeps ==
  ASSUME Inv, NEW p \in Player, OfficerSets(p)
  PROVE  Inv'
<1>1. Types /\ Facts
  BY DEF Inv
<1>2. h[p].pc = "officer_set" /\ h[p].t \in Player /\ h[p].t # p /\ h[p].g # NoGuild /\ h[p].g <= next_id
  BY <1>1 DEF OfficerSets, Facts, HandlersOK, Picked
<1>3. PICK t \in Player : t = h[p].t
  BY <1>2
<1>4. PICK g \in GuildId : g = h[p].g
  BY <1>1, <1>2, HandlerFields DEF Types
<1>5. PICK to \in {"member", "officer"} : SetPosition(t, g, to)
  BY <1>3, <1>4 DEF OfficerSets
<1>6. /\ position' = [position EXCEPT ![t] = to] /\ Late(guild_id[t] # g)
      /\ next_id' = next_id /\ exist_type' = exist_type /\ due' = due /\ asks' = asks
      /\ locked' = locked /\ crowded' = crowded /\ president' = president /\ members' = members
      /\ guild_id' = guild_id /\ ended' = ended
  BY <1>5 DEF OfficerSets, SetPosition, rowVars, Late
<1>7. /\ HandlersType'
      /\ \E pc, k, list : /\ Moves(p, pc, k, list, NoPlayer)
                          /\ \/ pc = "idle" /\ k = NoGuild
                             \/ pc = "officer" /\ k = g
  <2>1. TakesNext(p, t, "officer") /\ "officer" \in Pc
    BY <1>3 DEF OfficerSets, Pc
  <2>2. /\ HandlersType'
        /\ \/ Moves(p, "idle", NoGuild, {}, NoPlayer)
           \/ Moves(p, "officer", g, h[p].list \ {t}, NoPlayer)
    BY <2>1, <1>1, <1>4, TakesNextDoes DEF Types
  <2> QED  BY <2>2
<1>8. PICK pc, k, list : /\ Moves(p, pc, k, list, NoPlayer)
                         /\ \/ pc = "idle" /\ k = NoGuild
                            \/ pc = "officer" /\ k = g
  BY <1>7
<1>9. Types'
  <2>1. RowsType' /\ FlagsType'
    BY <1>1, <1>6 DEF Types, RowsType, FlagsType, Late
  <2>2. PlayersType'
    BY <1>1, <1>6 DEF Types, PlayersType
  <2> QED  BY <1>7, <2>1, <2>2 DEF Types
<1>10. Shrinks
  BY <1>6 DEF Shrinks
<1>11. Fits(p, pc, k, NoPlayer)'
  BY <1>1, <1>2, <1>4, <1>6, <1>8, Ids DEF Fits, Picked, Types, RowsType
<1>12. ASSUME ~ late', Sound  PROVE Sound'
  <2>1. guild_id[t] = g /\ president[g] = p
    BY <1>2, <1>4, <1>6, <1>12 DEF Late, Sound, Governs
  <2>2. Agree'
    <3>1. \A q \in Player, j \in GuildId : Between(q, j) => Between(q, j)'
      BY <1>2, <1>8 DEF Between, Moves, Others
    <3> QED  BY <3>1, <1>6, <1>12 DEF Sound, Agree
  <2>3. Founded'
    BY <1>1, <1>2, <1>4, <1>6, <1>8, <1>12, FoundedStays DEF Sound
  <2>4. Governs'
    BY <1>4, <1>6, <1>8, <1>12, <2>1 DEF Sound, Governs, Moves, Others
  <2>5. PresidentsStay'
    <3>1. \A j \in GuildId : Changing(j) => Changing(j)'
      BY <1>2, <1>8 DEF Changing, Moves, Others
    <3> SUFFICES ASSUME NEW j \in GuildId \ ended, Exists(j)', ~ Changing(j)'
                 PROVE  \E r \in Player : r = president'[j] /\ InOffice(r, j)'
      BY <1>6 DEF PresidentsStay
    <3>2. Exists(j) /\ ~ Changing(j)
      BY <3>1, <1>6 DEF Exists
    <3>3. president[j] # t
      BY <3>2, <1>2, <1>3, <1>12, <2>1 DEF Sound, PresidentsStay, InOffice
    <3>4. position'[president[j]] = position[president[j]]
      BY <3>2, <3>3, <1>6, <1>12 DEF Sound, PresidentsStay
    <3> QED  BY <3>2, <3>4, <1>2, <1>6, <1>8, <1>12, OfficesStay DEF Sound
  <2>6. AuthorityHasGuild'
    BY <1>2, <1>4, <1>6, <1>12, <2>1 DEF Sound, AuthorityHasGuild
  <2>7. OnePresident'
    <3> SUFFICES ASSUME NEW q \in Player, position'[q] = "president"
                 PROVE  president[guild_id[q]] = q \/ h'[q].pc = "change_old"
      BY <1>6 DEF OnePresident
    <3>1. position[q] = "president"
      BY <1>1, <1>6 DEF Types, PlayersType
    <3> QED  BY <3>1, <1>2, <1>8, <1>12 DEF Sound, OnePresident, Moves, Others
  <2> QED  BY <2>2, <2>3, <2>4, <2>5, <2>6, <2>7 DEF Sound
<1>13. h[p].pc \notin Joins /\ pc \notin Joins
  BY <1>2, <1>8 DEF Joins
<1>14. ~ late' => ~ late /\ (Sound => Sound')
  BY <1>6, <1>12 DEF Late
<1> QED  BY <1>6, <1>8, <1>9, <1>10, <1>11, <1>13, <1>14, InvAfterStore

LEMMA ChangePresidentKeeps ==
  ASSUME Inv, NEW p \in Player, ChangePresident(p)
  PROVE  Inv'
<1>1. Types /\ Facts
  BY DEF Inv
<1>2. h[p].pc = "change" /\ h[p].t \in Player /\ h[p].g # NoGuild /\ h[p].g <= next_id
  BY <1>1 DEF ChangePresident, At, Facts, HandlersOK, Picked
<1>3. PICK t \in Player : t = h[p].t
  BY <1>2
<1>4. PICK g \in GuildId : g = h[p].g
  BY <1>1, <1>2, HandlerFields DEF Types
<1>6. /\ president' = [president EXCEPT ![g] = t] /\ Late(Left(t, g))
      /\ next_id' = next_id /\ exist_type' = exist_type /\ due' = due /\ asks' = asks
      /\ locked' = locked /\ crowded' = crowded /\ members' = members
      /\ guild_id' = guild_id /\ position' = position /\ ended' = ended
  BY <1>3, <1>4 DEF ChangePresident, playerVars, Late
<1>7. HandlersType' /\ \E list : Moves(p, "change_old", g, list, t)
  BY <1>1, <1>3, <1>4, AtDoes DEF ChangePresident, Pc, Types
<1>8. PICK list : Moves(p, "change_old", g, list, t)
  BY <1>7
<1>9. Types'
  <2>1. RowsType' /\ FlagsType'
    BY <1>1, <1>6 DEF Types, RowsType, FlagsType, Late
  <2>2. PlayersType'
    BY <1>1, <1>6 DEF Types, PlayersType
  <2> QED  BY <1>7, <2>1, <2>2 DEF Types
<1>10. Shrinks
  BY <1>6 DEF Shrinks
<1>11. Fits(p, "change_old", g, t)'
  BY <1>2, <1>4, <1>6, Ids DEF Fits, Picked
<1>12. ASSUME ~ late', Sound  PROVE Sound'
  <2>1. president[g] = p
    BY <1>2, <1>4, <1>12 DEF Sound, Governs
  <2>2. president'[g] = t /\ \A k \in GuildId \ {g} : president'[k] = president[k]
    BY <1>1, <1>6 DEF Types, RowsType
  <2>3. Agree'
    <3>1. \A q \in Player, j \in GuildId : Between(q, j) => Between(q, j)'
      BY <1>2, <1>8 DEF Between, Moves, Others
    <3> QED  BY <3>1, <1>6, <1>12 DEF Sound, Agree
  <2>4. Founded'
    BY <1>1, <1>2, <1>4, <1>6, <1>8, <1>12, <2>2, FoundedStays DEF Sound
  <2>5. Governs'
    <3> SUFFICES ASSUME NEW q \in Player, h'[q].pc \in {"officer", "officer_set", "change"}
                 PROVE  president'[h'[q].g] = q
      BY DEF Governs
    <3>1. q # p /\ h'[q] = h[q]
      BY <1>8 DEF Moves, Others
    <3>2. president[h[q].g] = q /\ h[q].g # g
      BY <3>1, <2>1, <1>12 DEF Sound, Governs
    <3>3. h[q].g \in GuildId
      BY <3>1, <1>1, HandlerFields DEF Facts, HandlersOK, Types
    <3> QED  BY <3>1, <3>2, <3>3, <2>2
  <2>6. PresidentsStay'
    <3>1. \A j \in GuildId : Changing(j) => Changing(j)'
      BY <1>2, <1>8 DEF Changing, Moves, Others
    <3>2. Changing(g)'
      BY <1>8 DEF Changing, Moves
    <3> SUFFICES ASSUME NEW j \in GuildId \ ended, Exists(j)', ~ Changing(j)'
                 PROVE  \E r \in Player : r = president'[j] /\ InOffice(r, j)'
      BY <1>6 DEF PresidentsStay
    <3>3. Exists(j) /\ ~ Changing(j) /\ j # g
      BY <3>1, <3>2, <1>6 DEF Exists
    <3> QED  BY <3>3, <1>2, <1>6, <1>8, <1>12, <2>2, OfficesStay DEF Sound
  <2>7. AuthorityHasGuild'
    BY <1>6, <1>12 DEF Sound, AuthorityHasGuild
  <2>8. OnePresident'
    <3> SUFFICES ASSUME NEW q \in Player, position[q] = "president"
                 PROVE  president'[guild_id[q]] = q \/ h'[q].pc = "change_old"
      BY <1>6 DEF OnePresident
    <3>1. president[guild_id[q]] = q \/ h[q].pc = "change_old"
      BY <1>12 DEF Sound, OnePresident
    <3>2. CASE q = p
      BY <3>2, <1>8 DEF Moves
    <3>3. CASE q # p
      <4>1. h'[q] = h[q] /\ guild_id[q] \in GuildId
        BY <3>3, <1>1, <1>8, <1>12 DEF Moves, Others, Sound, AuthorityHasGuild, Types, PlayersType
      <4> QED  BY <4>1, <3>1, <3>3, <2>1, <2>2
    <3> QED  BY <3>2, <3>3
  <2> QED  BY <2>3, <2>4, <2>5, <2>6, <2>7, <2>8 DEF Sound
<1>13. h[p].pc \notin Joins /\ "change_old" \notin Joins
  BY <1>2 DEF Joins
<1>14. ~ late' => ~ late /\ (Sound => Sound')
  BY <1>6, <1>12 DEF Late
<1> QED  BY <1>6, <1>8, <1>9, <1>10, <1>11, <1>13, <1>14, InvAfterStore

LEMMA ChangeOldKeeps ==
  ASSUME Inv, NEW p \in Player, ChangeOld(p)
  PROVE  Inv'
<1>1. Types /\ Facts
  BY DEF Inv
<1>2. h[p].pc = "change_old" /\ h[p].t \in Player /\ h[p].g # NoGuild /\ h[p].g <= next_id
  BY <1>1 DEF ChangeOld, At, Facts, HandlersOK, Picked
<1>3. PICK t \in Player : t = h[p].t
  BY <1>2
<1>4. PICK g \in GuildId : g = h[p].g
  BY <1>1, <1>2, HandlerFields DEF Types
<1>6. /\ position' = [position EXCEPT ![p] = "member"] /\ Late(guild_id[p] # g)
      /\ next_id' = next_id /\ exist_type' = exist_type /\ due' = due /\ asks' = asks
      /\ locked' = locked /\ crowded' = crowded /\ president' = president /\ members' = members
      /\ guild_id' = guild_id /\ ended' = ended
  BY <1>4 DEF ChangeOld, SetPosition, rowVars, Late
<1>7. HandlersType' /\ \E list : Moves(p, "change_new", g, list, t)
  BY <1>1, <1>3, <1>4, AtDoes DEF ChangeOld, Pc, Types
<1>8. PICK list : Moves(p, "change_new", g, list, t)
  BY <1>7
<1>9. Types'
  <2>1. RowsType' /\ FlagsType'
    BY <1>1, <1>6 DEF Types, RowsType, FlagsType, Late
  <2>2. PlayersType'
    BY <1>1, <1>6 DEF Types, PlayersType
  <2> QED  BY <1>7, <2>1, <2>2 DEF Types
<1>10. Shrinks
  BY <1>6 DEF Shrinks
<1>11. Fits(p, "change_new", g, t)'
  BY <1>2, <1>4, <1>6, Ids DEF Fits, Picked
<1>12. ASSUME ~ late', Sound  PROVE Sound'
  <2>1. guild_id[p] = g
    BY <1>6, <1>12 DEF Late
  <2>2. position'[p] = "member" /\ \A q \in Player \ {p} : position'[q] = position[q]
    BY <1>1, <1>6 DEF Types, PlayersType
  <2>3. Agree'
    <3>1. \A q \in Player, j \in GuildId : Between(q, j) => Between(q, j)'
      BY <1>2, <1>8 DEF Between, Moves, Others
    <3> QED  BY <3>1, <1>6, <1>12 DEF Sound, Agree
  <2>4. Founded'
    BY <1>1, <1>2, <1>4, <1>6, <1>8, <1>12, FoundedStays DEF Sound
  <2>5. Governs'
    BY <1>6, <1>8, <1>12 DEF Sound, Governs, Moves, Others
  <2>6. PresidentsStay'
    <3>1. \A j \in GuildId : Changing(j) => Changing(j)'
      BY <1>2, <1>4, <1>8 DEF Changing, Moves, Others
    <3>2. Changing(g)'
      BY <1>8 DEF Changing, Moves
    <3> SUFFICES ASSUME NEW j \in GuildId \ ended, Exists(j)', ~ Changing(j)'
                 PROVE  \E r \in Player : r = president'[j] /\ InOffice(r, j)'
      BY <1>6 DEF PresidentsStay
    <3>3. Exists(j) /\ ~ Changing(j) /\ j # g
      BY <3>1, <3>2, <1>6 DEF Exists
    <3>4. president[j] \in Player /\ president[j] # p
      BY <3>3, <1>12, <2>1 DEF Sound, PresidentsStay, InOffice
    <3> QED  BY <3>3, <3>4, <1>2, <1>6, <1>8, <1>12, <2>2, OfficesStay DEF Sound
  <2>7. AuthorityHasGuild'
    BY <1>6, <1>12, <2>2 DEF Sound, AuthorityHasGuild
  <2>8. OnePresident'
    BY <1>6, <1>8, <1>12, <2>2 DEF Sound, OnePresident, Moves, Others
  <2> QED  BY <2>3, <2>4, <2>5, <2>6, <2>7, <2>8 DEF Sound
<1>13. h[p].pc \notin Joins /\ "change_new" \notin Joins
  BY <1>2 DEF Joins
<1>14. ~ late' => ~ late /\ (Sound => Sound')
  BY <1>6, <1>12 DEF Late
<1> QED  BY <1>6, <1>8, <1>9, <1>10, <1>11, <1>13, <1>14, InvAfterStore

LEMMA ChangeNewKeeps ==
  ASSUME Inv, NEW p \in Player, ChangeNew(p)
  PROVE  Inv'
<1>1. Types /\ Facts
  BY DEF Inv
<1>2. h[p].pc = "change_new" /\ h[p].t \in Player /\ h[p].g # NoGuild /\ h[p].g <= next_id
  BY <1>1 DEF ChangeNew, Facts, HandlersOK, Picked
<1>3. PICK t \in Player : t = h[p].t
  BY <1>2
<1>4. PICK g \in GuildId : g = h[p].g
  BY <1>1, <1>2, HandlerFields DEF Types
<1>6. /\ position' = [position EXCEPT ![t] = "president"]
      /\ Late(guild_id[t] # g \/ president[g] # t \/ Left(t, g))
      /\ next_id' = next_id /\ exist_type' = exist_type /\ due' = due /\ asks' = asks
      /\ locked' = locked /\ crowded' = crowded /\ president' = president /\ members' = members
      /\ guild_id' = guild_id /\ ended' = ended
  BY <1>3, <1>4 DEF ChangeNew, SetPosition, rowVars, Late
<1>7. HandlersType' /\ Moves(p, "idle", NoGuild, {}, NoPlayer)
  BY <1>1, RestsDoes DEF ChangeNew, Types
<1>9. Types'
  <2>1. RowsType' /\ FlagsType'
    BY <1>1, <1>6 DEF Types, RowsType, FlagsType, Late
  <2>2. PlayersType'
    BY <1>1, <1>6 DEF Types, PlayersType
  <2> QED  BY <1>7, <2>1, <2>2 DEF Types
<1>10. Shrinks
  BY <1>6 DEF Shrinks
<1>11. Fits(p, "idle", NoGuild, NoPlayer)'
  BY <1>1, <1>6, Ids DEF Fits, Picked, Types, RowsType
<1>12. ASSUME ~ late', Sound  PROVE Sound'
  <2>1. guild_id[t] = g /\ president[g] = t /\ t \in members[g] /\ ~ Leaves(t, g)
    BY <1>6, <1>12 DEF Late, Left, Leaves
  <2>2. position'[t] = "president" /\ \A q \in Player \ {t} : position'[q] = position[q]
    BY <1>1, <1>6 DEF Types, PlayersType
  <2>3. Agree'
    <3>1. \A q \in Player, j \in GuildId : Between(q, j) => Between(q, j)'
      BY <1>2, <1>7 DEF Between, Moves, Others
    <3> QED  BY <3>1, <1>6, <1>12 DEF Sound, Agree
  <2>4. Founded'
    BY <1>1, <1>2, <1>4, <1>6, <1>7, <1>12, FoundedStays DEF Sound
  <2>5. Governs'
    BY <1>6, <1>7, <1>12 DEF Sound, Governs, Moves, Others
  <2>6. PresidentsStay'
    <3>1. \A j \in GuildId : Changing(j) => Changing(j)' \/ j = g
      BY <1>2, <1>4, <1>7 DEF Changing, Moves, Others
    <3> SUFFICES ASSUME NEW j \in GuildId \ ended, Exists(j)', ~ Changing(j)'
                 PROVE  \E r \in Player : r = president'[j] /\ InOffice(r, j)'
      BY <1>6 DEF PresidentsStay
    <3>2. CASE j = g
      <4>1. ~ Leaves(t, g)'
        BY <2>1, <1>7 DEF Leaves, Moves, Others
      <4>2. InOffice(t, j)'
        BY <4>1, <3>2, <2>1, <2>2, <1>6 DEF InOffice
      <4>3. t = president'[j]
        BY <3>2, <2>1, <1>6
      <4> QED  BY <4>2, <4>3
    <3>3. CASE j # g
      <4>1. Exists(j) /\ ~ Changing(j)
        BY <3>1, <3>3, <1>6 DEF Exists
      <4>2. president[j] \in Player
        BY <4>1, <1>12 DEF Sound, PresidentsStay
      <4> QED  BY <4>1, <4>2, <1>2, <1>6, <1>7, <1>12, <2>2, OfficesStay DEF Sound
    <3> QED  BY <3>2, <3>3
  <2>7. AuthorityHasGuild'
    BY <1>2, <1>4, <1>6, <1>12, <2>1, <2>2 DEF Sound, AuthorityHasGuild
  <2>8. OnePresident'
    BY <1>2, <1>6, <1>7, <1>12, <2>1, <2>2 DEF Sound, OnePresident, Moves, Others
  <2> QED  BY <2>3, <2>4, <2>5, <2>6, <2>7, <2>8 DEF Sound
<1>13. h[p].pc \notin Joins /\ "idle" \notin Joins
  BY <1>2 DEF Joins
<1>14. ~ late' => ~ late /\ (Sound => Sound')
  BY <1>6, <1>12 DEF Late
<1> QED  BY <1>6, <1>7, <1>9, <1>10, <1>11, <1>13, <1>14, InvAfterStore

(***************************************************************************)
(* Steps that end memberships.                                             *)
(***************************************************************************)

\* A president who is not struck off, cleared, or made to leave stays in office.
LEMMA OfficeStays ==
  ASSUME NEW p \in Player, NEW pc, NEW g, NEW list, NEW t, Moves(p, pc, g, list, t),
         h[p].pc # "create_pos", NEW r \in Player, NEW k \in GuildId, InOffice(r, k),
         r \in members'[k], guild_id'[r] = k, position'[r] = position[r],
         pc \in {"quit", "quit_clear", "kick_out", "kick_clear"} => ~ (t = r /\ g = k)
  PROVE  InOffice(r, k)'
<1>1. ~ Leaves(r, k)'
  BY DEF InOffice, Leaves, Moves, Others
<1>2. h[r].pc = "create_pos" => h'[r].pc = "create_pos"
  BY DEF Moves, Others
<1> QED  BY <1>1, <1>2 DEF InOffice

LEMMA StrikeKeeps ==
  ASSUME Inv, NEW p \in Player, QuitStrikes(p) \/ KickStrikes(p)
  PROVE  Inv'
<1>1. Types /\ Facts
  BY DEF Inv
<1>2. /\ h[p].pc \in {"quit", "kick_out"} /\ h[p].t \in Player /\ h[p].g # NoGuild
      /\ h[p].g <= next_id /\ (h[p].pc = "quit" => h[p].t = p)
  BY <1>1 DEF QuitStrikes, KickStrikes, At, Facts, HandlersOK, Picked
<1>3. PICK t \in Player : t = h[p].t
  BY <1>2
<1>4. PICK g \in GuildId : g = h[p].g
  BY <1>1, <1>2, HandlerFields DEF Types
<1>6. /\ members' = [members EXCEPT ![g] = @ \ {t}]
      /\ next_id' = next_id /\ exist_type' = exist_type /\ due' = due /\ asks' = asks
      /\ locked' = locked /\ crowded' = crowded /\ president' = president
      /\ guild_id' = guild_id /\ position' = position /\ ended' = ended /\ late' = late
  BY <1>2, <1>3, <1>4 DEF QuitStrikes, KickStrikes, At, Strike, playerVars, histVars
<1>7. HandlersType' /\ \E pc, list : /\ pc \in {"quit_clear", "kick_clear"}
                                     /\ Moves(p, pc, g, list, t)
                                     /\ pc = "quit_clear" => t = p
  <2>1. CASE QuitStrikes(p)
    <3>1. At(p, "quit", "quit_clear") /\ "quit_clear" \in Pc
      BY <2>1 DEF QuitStrikes, Pc
    <3>2. HandlersType' /\ Moves(p, "quit_clear", g, h[p].list, t)
      BY <3>1, <1>1, <1>3, <1>4, AtDoes DEF Types
    <3>3. t = p
      BY <3>1, <1>2, <1>3 DEF At
    <3> QED  BY <3>2, <3>3
  <2>2. CASE KickStrikes(p)
    <3>1. At(p, "kick_out", "kick_clear") /\ "kick_clear" \in Pc
      BY <2>2 DEF KickStrikes, Pc
    <3>2. HandlersType' /\ Moves(p, "kick_clear", g, h[p].list, t)
      BY <3>1, <1>1, <1>3, <1>4, AtDoes DEF Types
    <3> QED  BY <3>2
  <2> QED  BY <2>1, <2>2
<1>8. PICK pc, list : /\ pc \in {"quit_clear", "kick_clear"}
                      /\ Moves(p, pc, g, list, t)
                      /\ pc = "quit_clear" => t = p
  BY <1>7
<1>9. Types'
  <2>1. RowsType' /\ FlagsType'
    BY <1>1, <1>6 DEF Types, RowsType, FlagsType
  <2>2. PlayersType'
    BY <1>1, <1>6 DEF Types, PlayersType
  <2> QED  BY <1>7, <2>1, <2>2 DEF Types
<1>10. Shrinks
  BY <1>6 DEF Shrinks
<1>11. Fits(p, pc, g, t)'
  BY <1>2, <1>4, <1>6, <1>8, Ids DEF Fits, Picked
<1>12. ASSUME Sound  PROVE Sound'
  <2>1. /\ members'[g] = members[g] \ {t}
        /\ \A k \in GuildId : k # g => members'[k] = members[k]
    BY <1>1, <1>6 DEF Types, RowsType
  <2>2. Leaves(t, g)
    BY <1>2, <1>3, <1>4 DEF Leaves
  <2>3. Agree'
    <3>1. \A q \in Player, j \in GuildId : Between(q, j) => Between(q, j)'
      BY <1>2, <1>8 DEF Between, Moves, Others
    <3>2. Between(t, g)'
      BY <1>8 DEF Between, Moves
    <3> SUFFICES ASSUME NEW q \in Player, NEW j \in GuildId \ ended
                 PROVE  (q \in members'[j] <=> guild_id'[q] = j) \/ Between(q, j)'
      BY <1>6 DEF Agree
    <3>3. CASE q = t /\ j = g
      BY <3>2, <3>3
    <3>4. CASE ~ (q = t /\ j = g)
      <4>1. q \in members'[j] <=> q \in members[j]
        BY <2>1, <3>4
      <4> QED  BY <4>1, <3>1, <1>6, <1>12 DEF Sound, Agree
    <3> QED  BY <3>3, <3>4
  <2>4. Founded'
    BY <1>1, <1>2, <1>4, <1>6, <1>8, <1>12, <2>1, FoundedStays DEF Sound
  <2>5. Governs'
    BY <1>6, <1>8, <1>12 DEF Sound, Governs, Moves, Others
  <2>6. PresidentsStay'
    <3>1. \A j \in GuildId : Changing(j) => Changing(j)'
      BY <1>2, <1>8 DEF Changing, Moves, Others
    <3> SUFFICES ASSUME NEW j \in GuildId \ ended, Exists(j)', ~ Changing(j)'
                 PROVE  \E r \in Player : r = president'[j] /\ InOffice(r, j)'
      BY <1>6 DEF PresidentsStay
    <3>2. PICK r \in Player : r = president[j] /\ InOffice(r, j)
      BY <3>1, <1>6, <1>12 DEF Exists, Sound, PresidentsStay
    <3>3. ~ (t = r /\ g = j)
      BY <3>2, <2>2 DEF InOffice
    <3>4. r \in members'[j] /\ guild_id'[r] = j
      BY <3>2, <3>3, <2>1, <1>6 DEF InOffice
    <3>5. InOffice(r, j)'
      BY <3>2, <3>3, <3>4, <1>2, <1>6, <1>8, OfficeStays
    <3> QED  BY <3>2, <3>5, <1>6
  <2>7. AuthorityHasGuild'
    BY <1>6, <1>12 DEF Sound, AuthorityHasGuild
  <2>8. OnePresident'
    BY <1>2, <1>6, <1>8, <1>12 DEF Sound, OnePresident, Moves, Others
  <2> QED  BY <2>3, <2>4, <2>5, <2>6, <2>7, <2>8 DEF Sound
<1>13. h[p].pc \notin Joins /\ pc \notin Joins
  BY <1>2, <1>8 DEF Joins
<1> QED  BY <1>6, <1>8, <1>9, <1>10, <1>11, <1>12, <1>13, InvAfterStore

\* What the steps that clear a player's guild have in common.
Clears(p, t, pc, g, list, s) ==
  /\ Moves(p, pc, g, list, s)
  /\ h[p].pc \in {"quit_clear", "kick_clear", "dissolve"}
  /\ h[p].pc \in Betweens => h[p].t = t
  /\ \/ pc = "idle" /\ g = NoGuild
     \/ pc \in {"kick", "dissolve"} /\ g = h[p].g
  /\ pc = "dissolve" => h[p].pc = "dissolve"

LEMMA ClearKeeps ==
  ASSUME Inv, HandlersType', NEW p \in Player, NEW t \in Player,
         NEW pc, NEW g, NEW list, NEW s, Clears(p, t, pc, g, list, s),
         guild_id' = [guild_id EXCEPT ![t] = NoGuild], position' = [position EXCEPT ![t] = "member"],
         UNCHANGED <<rowVars, locked, ended, crowded>>, late' \in BOOLEAN,
         ~ late' => ~ late /\ \A k \in GuildId : t \in members[k] => k = h[p].g /\ k \in ended
  PROVE  Inv'
<1>1. Types /\ Facts
  BY DEF Inv
<1>2. /\ h[p].g \in GuildId /\ h[p].g # NoGuild /\ h[p].g <= next_id
      /\ (h[p].pc = "dissolve" => h[p].g \in ended)
  BY <1>1, HandlerFields DEF Clears, Facts, HandlersOK, Types
<1>3. /\ next_id' = next_id /\ exist_type' = exist_type /\ due' = due /\ asks' = asks
      /\ locked' = locked /\ crowded' = crowded /\ president' = president /\ members' = members
      /\ ended' = ended
  BY DEF rowVars
<1>4. /\ guild_id'[t] = NoGuild /\ position'[t] = "member"
      /\ \A q \in Player \ {t} : guild_id'[q] = guild_id[q] /\ position'[q] = position[q]
  BY <1>1 DEF Types, PlayersType
<1>5. Moves(p, pc, g, list, s)
  BY DEF Clears
<1>6. Types'
  <2>1. RowsType' /\ FlagsType'
    BY <1>1, <1>3 DEF Types, RowsType, FlagsType
  <2>2. PlayersType'
    BY <1>1 DEF Types, PlayersType
  <2> QED  BY <2>1, <2>2 DEF Types
<1>7. Shrinks
  BY <1>3, <1>4 DEF Shrinks
<1>8. Fits(p, pc, g, s)'
  BY <1>1, <1>2, <1>3, Ids DEF Fits, Picked, Clears, Types, RowsType
<1>9. ASSUME ~ late', Sound  PROVE Sound'
  <2>1. \A k \in GuildId : t \in members[k] => k = h[p].g /\ k \in ended
    BY <1>9
  <2>2. Agree'
    <3>1. \A q \in Player \ {t}, j \in GuildId : Between(q, j) => Between(q, j)'
      BY <1>5 DEF Between, Moves, Others, Clears, Betweens
    <3> SUFFICES ASSUME NEW q \in Player, NEW j \in GuildId \ ended
                 PROVE  (q \in members'[j] <=> guild_id'[q] = j) \/ Between(q, j)'
      BY <1>3 DEF Agree
    <3>2. CASE q = t
      BY <3>2, <2>1, <1>3, <1>4, Ids
    <3>3. CASE q # t
      BY <3>1, <3>3, <1>3, <1>4, <1>9 DEF Sound, Agree
    <3> QED  BY <3>2, <3>3
  <2>3. Founded'
    <3>1. \A q \in Player : h[q].pc = "create_pos" => q # t
      <4> SUFFICES ASSUME h[t].pc = "create_pos"  PROVE FALSE
        OBVIOUS
      <4>1. h[t].g \in GuildId
        BY <1>1, HandlerFields DEF Facts, HandlersOK, Types
      <4>2. members[h[t].g] = {t}
        BY <1>9 DEF Sound, Founded
      <4>3. h[t].g = h[p].g /\ t # p
        BY <4>1, <4>2, <2>1 DEF Clears
      <4> QED  BY <4>3, <1>9 DEF Sound, Founded
    <3>2. \A q \in Player : h[q].pc = "create_pos" => guild_id'[q] = guild_id[q]
      BY <3>1, <1>4
    <3>3. \A q \in Player : guild_id'[q] \in {guild_id[q], NoGuild, h[p].g}
      BY <1>4
    <3>4. h[p].pc # "create_pos" /\ pc # "create_pos" /\ (g = h[p].g \/ g = NoGuild)
      BY DEF Clears
    <3> QED  BY <3>2, <3>3, <3>4, <1>1, <1>3, <1>5, <1>9, FoundedStays DEF Sound
  <2>4. Governs'
    BY <1>3, <1>5, <1>9 DEF Sound, Governs, Moves, Others, Clears
  <2>5. PresidentsStay'
    <3>1. \A j \in GuildId : Changing(j) => Changing(j)'
      BY <1>5 DEF Changing, Moves, Others, Clears
    <3> SUFFICES ASSUME NEW j \in GuildId \ ended, Exists(j)', ~ Changing(j)'
                 PROVE  \E r \in Player : r = president'[j] /\ InOffice(r, j)'
      BY <1>3 DEF PresidentsStay
    <3>2. PICK r \in Player : r = president[j] /\ InOffice(r, j)
      BY <3>1, <1>3, <1>9 DEF Exists, Sound, PresidentsStay
    <3>3. r # t
      BY <3>2, <2>1 DEF InOffice
    <3>4. r \in members'[j] /\ guild_id'[r] = j /\ position'[r] = position[r]
      BY <3>2, <3>3, <1>3, <1>4 DEF InOffice
    <3>5. InOffice(r, j)'
      BY <3>2, <3>4, <1>5, OfficeStays DEF Clears
    <3> QED  BY <3>2, <3>5, <1>3
  <2>6. AuthorityHasGuild'
    BY <1>4, <1>9 DEF Sound, AuthorityHasGuild
  <2>7. OnePresident'
    BY <1>3, <1>4, <1>5, <1>9 DEF Sound, OnePresident, Moves, Others, Clears
  <2> QED  BY <2>2, <2>3, <2>4, <2>5, <2>6, <2>7 DEF Sound
<1>10. h[p].pc \notin Joins /\ pc \notin Joins
  BY DEF Joins, Clears
<1> QED  BY <1>3, <1>5, <1>6, <1>7, <1>8, <1>9, <1>10, InvAfterStore

LEMMA LeaverKeeps ==
  ASSUME Inv, NEW p \in Player, QuitClears(p) \/ KickClears(p)
  PROVE  Inv'
<1>1. HandlersType /\ FlagsType
  BY DEF Inv, Types
<1>2. /\ h[p].pc \in {"quit_clear", "kick_clear"} /\ h[p].t \in Player
      /\ (h[p].pc = "quit_clear" => h[p].t = p)
  BY DEF Inv, QuitClears, KickClears, Facts, HandlersOK, Picked
<1>3. PICK t \in Player : t = h[p].t
  BY <1>2
<1>4. Clear(t) /\ UNCHANGED <<rowVars, locked, ended, crowded>>
  BY <1>2, <1>3 DEF QuitClears, KickClears
<1>5. late' \in BOOLEAN /\ (~ late' => ~ late /\ \A k \in GuildId : t \notin members[k])
  BY <1>1, <1>4 DEF Clear, Late, FlagsType
<1>6. HandlersType' /\ \E pc, g, list : Clears(p, t, pc, g, list, NoPlayer)
  <2>1. CASE QuitClears(p)
    <3>1. HandlersType' /\ Moves(p, "idle", NoGuild, {}, NoPlayer)
      BY <1>1, <2>1, RestsDoes DEF QuitClears
    <3>2. Clears(p, t, "idle", NoGuild, {}, NoPlayer)
      BY <1>2, <1>3, <3>1 DEF Clears
    <3> QED  BY <3>1, <3>2
  <2>2. CASE KickClears(p)
    <3>1. TakesNext(p, t, "kick") /\ "kick" \in Pc
      BY <1>3, <2>2 DEF KickClears, Pc
    <3>2. HandlersType'
      BY <1>1, <3>1, TakesNextDoes
    <3>3. CASE Moves(p, "idle", NoGuild, {}, NoPlayer)
      <4>1. Clears(p, t, "idle", NoGuild, {}, NoPlayer)
        BY <1>2, <1>3, <3>3 DEF Clears
      <4> QED  BY <3>2, <4>1
    <3>4. CASE Moves(p, "kick", h[p].g, h[p].list \ {t}, NoPlayer)
      <4>1. Clears(p, t, "kick", h[p].g, h[p].list \ {t}, NoPlayer)
        BY <1>2, <1>3, <3>4 DEF Clears
      <4> QED  BY <3>2, <4>1
    <3> QED  BY <1>1, <3>1, <3>3, <3>4, TakesNextDoes
  <2> QED  BY <2>1, <2>2
<1>7. PICK pc, g, list : Clears(p, t, pc, g, list, NoPlayer)
  BY <1>6
<1> QED  BY <1>4, <1>5, <1>6, <1>7, ClearKeeps DEF Clear

LEMMA DissolveClearsKeeps ==
  ASSUME Inv, NEW p \in Player, NEW t \in Player, DissolveClears(p, t)
  PROVE  Inv'
<1>1. HandlersType /\ FlagsType
  BY DEF Inv, Types
<1>2. h[p].pc = "dissolve" /\ h[p].g \in ended
  BY DEF Inv, DissolveClears, Facts, HandlersOK
<1>3. late' \in BOOLEAN
      /\ (~ late' => ~ late /\ \A k \in GuildId : t \in members[k] => k = h[p].g /\ k \in ended)
  BY <1>1, <1>2 DEF DissolveClears, Late, FlagsType
<1>4. h' = [h EXCEPT ![p].list = @ \ {t}]
  BY DEF DissolveClears
<1>5. HandlersType' /\ Moves(p, "dissolve", h[p].g, h[p].list \ {t}, h[p].t)
  BY <1>1, <1>2, <1>4 DEF HandlersType, Handlers, Moves, Others
<1>6. Clears(p, t, "dissolve", h[p].g, h[p].list \ {t}, h[p].t)
  BY <1>2, <1>5 DEF Clears, Betweens
<1>7. PICK g, list, s : Clears(p, t, "dissolve", g, list, s)
  BY <1>6
<1> QED  BY <1>3, <1>5, <1>7, ClearKeeps DEF DissolveClears

LEMMA DissolveEmptiesKeeps ==
  ASSUME Inv, NEW p \in Player, DissolveEmpties(p)
  PROVE  Inv'
<1>1. Types /\ Facts
  BY DEF Inv
<1>2. h[p].pc = "empty" /\ h[p].g # NoGuild /\ h[p].g \in ended
  BY <1>1 DEF DissolveEmpties, Facts, HandlersOK
<1>4. PICK g \in GuildId : g = h[p].g
  BY <1>1, <1>2, HandlerFields DEF Types
<1>6. /\ members' = [members EXCEPT ![g] = {}] /\ asks' = [asks EXCEPT ![g] = {}]
      /\ next_id' = next_id /\ exist_type' = exist_type /\ due' = due
      /\ locked' = locked /\ crowded' = crowded /\ president' = president
      /\ guild_id' = guild_id /\ position' = position /\ ended' = ended /\ late' = late
  BY <1>4 DEF DissolveEmpties, playerVars, histVars
<1>7. HandlersType' /\ Moves(p, "idle", NoGuild, {}, NoPlayer)
  BY <1>1, RestsDoes DEF DissolveEmpties, Types
<1>9. Types'
  <2>1. RowsType' /\ FlagsType'
    BY <1>1, <1>6 DEF Types, RowsType, FlagsType
  <2>2. PlayersType'
    BY <1>1, <1>6 DEF Types, PlayersType
  <2> QED  BY <1>7, <2>1, <2>2 DEF Types
<1>10. Shrinks
  BY <1>6 DEF Shrinks
<1>11. Fits(p, "idle", NoGuild, NoPlayer)'
  BY <1>1, <1>6, Ids DEF Fits, Picked, Types, RowsType
<1>12. ASSUME Sound  PROVE Sound'
  <2>1. \A k \in GuildId : k # g => members'[k] = members[k]
    BY <1>1, <1>6 DEF Types, RowsType
  <2>3. Agree'
    <3>1. \A q \in Player, j \in GuildId : Between(q, j) => Between(q, j)'
      BY <1>2, <1>7 DEF Between, Moves, Others
    <3> QED  BY <3>1, <2>1, <1>2, <1>4, <1>6, <1>12 DEF Sound, Agree
  <2>4. Founded'
    BY <1>1, <1>2, <1>4, <1>6, <1>7, <1>12, <2>1, FoundedStays DEF Sound
  <2>5. Governs'
    BY <1>6, <1>7, <1>12 DEF Sound, Governs, Moves, Others
  <2>6. PresidentsStay'
    <3>1. \A j \in GuildId : Changing(j) => Changing(j)'
      BY <1>2, <1>7 DEF Changing, Moves, Others
    <3> SUFFICES ASSUME NEW j \in GuildId \ ended, Exists(j)', ~ Changing(j)'
                 PROVE  \E r \in Player : r = president'[j] /\ InOffice(r, j)'
      BY <1>6 DEF PresidentsStay
    <3>2. PICK r \in Player : r = president[j] /\ InOffice(r, j)
      BY <3>1, <1>6, <1>12 DEF Exists, Sound, PresidentsStay
    <3>3. r \in members'[j] /\ guild_id'[r] = j
      BY <3>2, <2>1, <1>2, <1>4, <1>6 DEF InOffice
    <3>4. InOffice(r, j)'
      BY <3>2, <3>3, <1>2, <1>6, <1>7, OfficeStays
    <3> QED  BY <3>2, <3>4, <1>6
  <2>7. AuthorityHasGuild'
    BY <1>6, <1>12 DEF Sound, AuthorityHasGuild
  <2>8. OnePresident'
    BY <1>2, <1>6, <1>7, <1>12 DEF Sound, OnePresident, Moves, Others
  <2> QED  BY <2>3, <2>4, <2>5, <2>6, <2>7, <2>8 DEF Sound
<1>13. h[p].pc \notin Joins /\ "idle" \notin Joins
  BY <1>2 DEF Joins
<1> QED  BY <1>6, <1>7, <1>9, <1>10, <1>11, <1>12, <1>13, InvAfterStore

(***************************************************************************)
(* Steps under join_guild_locker.                                          *)
(***************************************************************************)

LEMMA CreatingIsFinite == IsFiniteSet(Creating) /\ Cardinality(Creating) \in Nat
BY GuildAssumption, FS_Subset, FS_CardinalityType DEF Creating

LEMMA CreateBeginsKeeps ==
  ASSUME Inv, NEW p \in Player, CreateBegins(p)
  PROVE  Inv'
<1>1. Types /\ Facts
  BY DEF Inv
<1>2. /\ h[p] = Idle /\ p \notin locked /\ (guild_id[p] # NoGuild => ~ Exists(guild_id[p]))
      /\ next_id + Cardinality(Creating) < MaxGuildId
      /\ locked' = locked \cup {p} /\ Becomes(p, Handler("create", NoGuild, {}, NoPlayer))
      /\ next_id' = next_id /\ exist_type' = exist_type /\ due' = due /\ asks' = asks
      /\ crowded' = crowded /\ president' = president /\ members' = members
      /\ guild_id' = guild_id /\ position' = position /\ ended' = ended /\ late' = late
  BY DEF CreateBegins, Free, rowVars, playerVars, histVars
<1>3. h[p].pc = "idle"
  BY <1>2, IdleIs
<1>4. HandlersType' /\ Moves(p, "create", NoGuild, {}, NoPlayer)
  <2>1. "create" \in Pc /\ NoGuild \in GuildId \cup {NoGuild} /\ {} \in SUBSET Player
        /\ NoPlayer \in Player \cup {NoPlayer}
    BY DEF Pc
  <2> QED  BY <2>1, <1>1, <1>2, BecomesDoes DEF Types
<1>5. h'[p].pc = "create" /\ h'[p].g = NoGuild /\ \A q \in Player \ {p} : h'[q] = h[q]
  BY <1>4 DEF Moves, Others
<1>6. Types'
  <2>1. RowsType' /\ FlagsType' /\ PlayersType'
    BY <1>1, <1>2 DEF Types, RowsType, FlagsType, PlayersType
  <2> QED  BY <1>4, <2>1 DEF Types
<1>7. HandlersOK' /\ GuildsOK'
  BY <1>1, <1>2, <1>5, Ids DEF Facts, HandlersOK, GuildsOK, Types, RowsType, Picked
<1>8. IdsLeft'
  <2>1. Creating' = Creating \cup {p} /\ p \notin Creating
    BY <1>3, <1>5 DEF Creating
  <2>2. Cardinality(Creating') = Cardinality(Creating) + 1
    BY <2>1, CreatingIsFinite, FS_AddElement
  <2> QED  BY <2>2, <1>1, <1>2, CreatingIsFinite, Ids DEF IdsLeft, Types, RowsType
<1>9. LocksHeld' /\ OneHolds'
  <2>1. \A q, r \in Player : Holds(q, r)' => Holds(q, r) \/ (q = p /\ r = p)
    BY <1>5 DEF Holds
  <2>2. \A q \in Player : ~ Holds(q, p)
    BY <1>1, <1>2 DEF Facts, LocksHeld
  <2>3. LocksHeld'
    BY <2>1, <1>1, <1>2 DEF Facts, LocksHeld
  <2>4. OneHolds'
    BY <2>1, <2>2, <1>1 DEF Facts, OneHolds
  <2> QED  BY <2>3, <2>4
<1>10. JoinersAreFree'
  <2>1. guild_id[p] # NoGuild => guild_id[p] \in ended
    <3> SUFFICES ASSUME guild_id[p] # NoGuild  PROVE guild_id[p] \in ended
      OBVIOUS
    <3>1. guild_id[p] \in GuildId /\ guild_id[p] <= next_id
      BY <1>1 DEF Types, PlayersType, Facts, GuildsOK
    <3>2. exist_type[guild_id[p]] # "absent"
      <4>1. next_id \in 0..MaxGuildId /\ \A g \in GuildId : exist_type[g] = "absent" <=> g > next_id
        BY <1>1 DEF Types, RowsType
      <4>2. guild_id[p] \in Nat /\ next_id \in Nat
        BY <3>1, <4>1, GuildAssumption DEF GuildId
      <4> QED  BY <3>1, <4>1, <4>2
    <3>3. exist_type[guild_id[p]] = "deleted"
      BY <3>1, <3>2, <1>1, <1>2 DEF Types, RowsType, Exists
    <3> QED  BY <3>1, <3>3, <1>1 DEF Facts, GuildsOK
  <2> QED  BY <2>1, <1>1, <1>2, <1>5 DEF Facts, JoinersAreFree
<1>11. ASSUME ~ late'  PROVE Sound'
  <2>1. Sound /\ RowsRest
    BY <1>2, <1>11 DEF Inv, RowsRest
  <2>2. \A q \in Player : h[q].pc = "create_pos" => NoGuild # h[q].g
    BY <1>1, <1>3, <2>1, NoFounderThere DEF Sound
  <2>3. GoesOn(p, "create", NoGuild, {}, NoPlayer)
    BY <1>3, <1>4, <2>2 DEF GoesOn, Betweens, Changes
  <2>4. \A k \in GuildId : Exists(k)' => Exists(k)
    BY <1>2 DEF Exists
  <2> QED  BY <1>1, <1>2, <2>1, <2>3, <2>4, SoundAfterMove
<1> QED  BY <1>6, <1>7, <1>8, <1>9, <1>10, <1>11 DEF Inv, Facts

LEMMA CreateRowKeeps ==
  ASSUME Inv, NEW p \in Player, CreateRow(p)
  PROVE  Inv'
<1>1. Types /\ Facts
  BY DEF Inv
<1>2. h[p].pc = "create"
  BY DEF CreateRow
<1>3. next_id \in Nat /\ next_id + 1 \in GuildId /\ next_id + 1 # NoGuild
  <2>1. p \in Creating
    BY <1>2 DEF Creating
  <2>2. Cardinality(Creating) # 0
    BY <2>1, CreatingIsFinite, FS_EmptySet
  <2> QED  BY <2>2, <1>1, CreatingIsFinite, Ids DEF Types, RowsType, Facts, IdsLeft, GuildId
<1>4. PICK g \in GuildId : g = next_id + 1
  BY <1>3
<1>5. /\ Becomes(p, Handler("create_pos", g, {}, NoPlayer))
      /\ next_id' = g /\ exist_type' = [exist_type EXCEPT ![g] = "none"]
      /\ president' = [president EXCEPT ![g] = p] /\ members' = [members EXCEPT ![g] = {p}]
      /\ guild_id' = [guild_id EXCEPT ![p] = g]
      /\ due' = due /\ asks' = asks /\ crowded' = crowded /\ locked' = locked
      /\ position' = position /\ ended' = ended /\ late' = late
  BY <1>4 DEF CreateRow, histVars
<1>6. HandlersType' /\ Moves(p, "create_pos", g, {}, NoPlayer)
  <2>1. "create_pos" \in Pc /\ g \in GuildId \cup {NoGuild} /\ {} \in SUBSET Player
        /\ NoPlayer \in Player \cup {NoPlayer}
    BY DEF Pc
  <2> QED  BY <2>1, <1>1, <1>5, BecomesDoes DEF Types
<1>7. h'[p].pc = "create_pos" /\ h'[p].g = g /\ \A q \in Player \ {p} : h'[q] = h[q]
  BY <1>6 DEF Moves, Others
<1>8. /\ exist_type'[g] = "none" /\ president'[g] = p /\ members'[g] = {p}
      /\ \A k \in GuildId : k # g => /\ exist_type'[k] = exist_type[k]
                                     /\ president'[k] = president[k] /\ members'[k] = members[k]
  BY <1>1, <1>5 DEF Types, RowsType
<1>9. guild_id'[p] = g /\ \A q \in Player \ {p} : guild_id'[q] = guild_id[q]
  BY <1>1, <1>5 DEF Types, PlayersType
<1>10. Types'
  <2>1. RowsType'
    <3>1. next_id' \in 0..MaxGuildId
      BY <1>5 DEF GuildId
    <3>2. exist_type' \in [GuildId -> {"absent", "none", "will_delete", "deleted"}]
      BY <1>1, <1>5 DEF Types, RowsType
    <3>3. \A k \in GuildId : exist_type'[k] = "absent" <=> k > next_id'
      <4> SUFFICES ASSUME NEW k \in GuildId  PROVE exist_type'[k] = "absent" <=> k > next_id'
        OBVIOUS
      <4>1. k \in Nat /\ (exist_type[k] = "absent" <=> k > next_id)
        BY <1>1, Ids DEF Types, RowsType
      <4>2. CASE k = g
        BY <4>2, <1>5, <1>8, Ids
      <4>3. CASE k # g
        BY <4>1, <4>3, <1>3, <1>4, <1>5, <1>8
      <4> QED  BY <4>2, <4>3
    <3>4. president' \in [GuildId -> Player \cup {NoPlayer}] /\ members' \in [GuildId -> SUBSET Player]
      BY <1>1, <1>5 DEF Types, RowsType
    <3> QED  BY <3>1, <3>2, <3>3, <3>4, <1>1, <1>5 DEF Types, RowsType
  <2>2. PlayersType' /\ FlagsType'
    BY <1>1, <1>5 DEF Types, PlayersType, FlagsType
  <2> QED  BY <1>6, <2>1, <2>2 DEF Types
<1>a. /\ \A q \in Player : h[q].g \in Nat /\ h[q].g <= next_id
      /\ \A q \in Player : guild_id[q] \in Nat /\ guild_id[q] <= next_id
  <2>1. \A q \in Player : h[q].g <= next_id /\ guild_id[q] <= next_id
    BY <1>1 DEF Facts, HandlersOK, GuildsOK
  <2>2. \A q \in Player : h[q].g \in GuildId \cup {NoGuild} /\ guild_id[q] \in GuildId \cup {NoGuild}
    BY <1>1, HandlerFields DEF Types, PlayersType
  <2>3. \A q \in Player : h[q].g \in Nat /\ guild_id[q] \in Nat
    BY <2>2, GuildAssumption DEF GuildId, NoGuild
  <2> QED  BY <2>1, <2>3
<1>11. /\ \A q \in Player : h[q].g # g /\ guild_id[q] # g /\ h[q].g <= g /\ guild_id[q] <= g
       /\ g \notin ended /\ g \in Nat /\ g # NoGuild
  <2>1. \A k \in ended : k <= next_id
    BY <1>1 DEF Facts, GuildsOK
  <2> QED  BY <2>1, <1>3, <1>4, <1>a
<1>12. guild_id[p] = NoGuild \/ guild_id[p] \in ended
  BY <1>1, <1>2 DEF Facts, JoinersAreFree
<1>13. HandlersOK'
  <2> SUFFICES ASSUME NEW q \in Player
               PROVE  /\ h'[q].g <= next_id'
                      /\ h'[q].pc \notin {"idle", "create"} => h'[q].g # NoGuild
                      /\ h'[q].pc \in Picked => h'[q].t \in Player
                      /\ h'[q].pc \in {"quit", "quit_clear"} => h'[q].t = q
                      /\ h'[q].pc = "officer_set" => h'[q].t # q
                      /\ h'[q].pc \in {"dissolve", "empty"} => h'[q].g \in ended'
    BY DEF HandlersOK, Picked
  <2>1. CASE q = p
    BY <2>1, <1>5, <1>7, <1>11 DEF Picked
  <2>2. CASE q # p
    <3>1. h'[q] = h[q] /\ h'[q].g <= next_id'
      BY <2>2, <1>5, <1>7, <1>11
    <3> QED  BY <3>1, <1>1, <1>5 DEF Facts, HandlersOK
  <2> QED  BY <2>1, <2>2
<1>14. GuildsOK'
  <2>1. \A q \in Player : guild_id'[q] <= next_id'
    BY <1>5, <1>9, <1>11
  <2>2. \A k \in ended' : k <= next_id'
    BY <1>1, <1>3, <1>4, <1>5, Ids DEF Facts, GuildsOK, Types, FlagsType
  <2>3. \A k \in GuildId : exist_type'[k] = "deleted" => k \in ended'
    BY <1>1, <1>5, <1>8 DEF Facts, GuildsOK
  <2> QED  BY <2>1, <2>2, <2>3 DEF GuildsOK
<1>15. IdsLeft'
  <2>1. Creating' = Creating \ {p} /\ p \in Creating
    BY <1>2, <1>7 DEF Creating
  <2>2. Cardinality(Creating') = Cardinality(Creating) - 1
    BY <2>1, CreatingIsFinite, FS_RemoveElement
  <2> QED  BY <2>2, <1>1, <1>3, <1>4, <1>5, CreatingIsFinite, Ids DEF IdsLeft, Facts
<1>16. LocksHeld' /\ OneHolds'
  <2>1. \A q, r \in Player : Holds(q, r)' => Holds(q, r)
    BY <1>2, <1>7 DEF Holds
  <2> QED  BY <2>1, <1>1, <1>5 DEF Facts, LocksHeld, OneHolds
<1>17. JoinersAreFree'
  <2> SUFFICES ASSUME NEW q \in Player
               PROVE  /\ h'[q].pc = "agree_id" => guild_id'[h'[q].t] = NoGuild
                      /\ h'[q].pc = "create" => guild_id'[q] = NoGuild \/ guild_id'[q] \in ended'
    BY DEF JoinersAreFree
  <2>1. CASE q = p
    BY <2>1, <1>7
  <2>2. CASE q # p
    <3>1. h'[q] = h[q] /\ guild_id'[q] = guild_id[q]
      BY <2>2, <1>7, <1>9
    <3>2. h[q].pc = "agree_id" => h[q].t \in Player /\ h[q].t # p
      BY <2>2, <1>1, <1>2 DEF Facts, HandlersOK, Picked, OneHolds, Holds
    <3> QED  BY <3>1, <3>2, <1>1, <1>5, <1>9 DEF Facts, JoinersAreFree
  <2> QED  BY <2>1, <2>2
<1>18. ASSUME ~ late'  PROVE Sound'
  <2>1. Sound
    BY <1>5, <1>18 DEF Inv
  <2>2. Agree'
    <3> SUFFICES ASSUME NEW q \in Player, NEW k \in GuildId \ ended
                 PROVE  (q \in members'[k] <=> guild_id'[q] = k) \/ Between(q, k)'
      BY <1>5 DEF Agree
    <3>1. Between(q, k) => Between(q, k)'
      BY <1>2, <1>7 DEF Between
    <3>2. CASE k = g
      BY <3>2, <1>8, <1>9, <1>11
    <3>3. CASE k # g
      <4>1. q = p => guild_id[q] # k
        BY <1>12, Ids
      <4>2. (q \in members[k] <=> guild_id[q] = k) \/ Between(q, k)
        BY <2>1 DEF Sound, Agree
      <4> QED  BY <3>1, <3>3, <4>1, <4>2, <1>8, <1>9
    <3> QED  BY <3>2, <3>3
  <2>3. Founded'
    <3> SUFFICES ASSUME NEW q \in Player, h'[q].pc = "create_pos"
                 PROVE  /\ members'[h'[q].g] = {q} /\ president'[h'[q].g] = q /\ guild_id'[q] = h'[q].g
                        /\ exist_type'[h'[q].g] = "none"
                        /\ \A r \in Player \ {q} : h'[r].g # h'[q].g /\ guild_id'[r] # h'[q].g
      BY DEF Founded
    <3>1. CASE q = p
      BY <3>1, <1>7, <1>8, <1>9, <1>11
    <3>2. CASE q # p
      <4>1. h'[q] = h[q] /\ h[q].pc = "create_pos" /\ h[q].g # g
        BY <3>2, <1>7, <1>11
      <4>2. /\ members[h[q].g] = {q} /\ president[h[q].g] = q /\ guild_id[q] = h[q].g
            /\ exist_type[h[q].g] = "none"
            /\ \A r \in Player \ {q} : h[r].g # h[q].g /\ guild_id[r] # h[q].g
        BY <2>1, <4>1 DEF Sound, Founded
      <4>3. h[q].g \in GuildId
        BY <4>1, <1>1, HandlerFields DEF Facts, HandlersOK, Types
      <4>4. \A r \in Player \ {q} : h'[r].g # h[q].g /\ guild_id'[r] # h[q].g
        BY <4>1, <4>2, <1>7, <1>9
      <4> QED  BY <3>2, <4>1, <4>2, <4>3, <4>4, <1>8, <1>9
    <3> QED  BY <3>1, <3>2
  <2>4. Governs'
    <3> SUFFICES ASSUME NEW q \in Player, h'[q].pc \in {"officer", "officer_set", "change"}
                 PROVE  president'[h'[q].g] = q
      BY DEF Governs
    <3>1. h'[q] = h[q] /\ h[q].g \in GuildId /\ h[q].g # g
      BY <1>1, <1>7, <1>11, HandlerFields DEF Facts, HandlersOK, Types
    <3> QED  BY <3>1, <2>1, <1>8 DEF Sound, Governs
  <2>5. PresidentsStay'
    <3> SUFFICES ASSUME NEW k \in GuildId \ ended, Exists(k)', ~ Changing(k)'
                 PROVE  \E r \in Player : r = president'[k] /\ InOffice(r, k)'
      BY <1>5 DEF PresidentsStay
    <3>1. CASE k = g
      <4>1. ~ Leaves(p, k)'
        BY <3>1, <1>7, <1>11 DEF Leaves
      <4>2. InOffice(p, k)'
        BY <3>1, <4>1, <1>7, <1>8, <1>9 DEF InOffice
      <4>3. p = president'[k]
        BY <3>1, <1>8
      <4> QED  BY <4>2, <4>3
    <3>2. CASE k # g
      <4>1. Changing(k) => Changing(k)'
        BY <1>2, <1>7 DEF Changing
      <4>2. Exists(k) /\ ~ Changing(k)
        BY <4>1, <3>2, <1>8 DEF Exists
      <4>3. PICK r \in Player : r = president[k] /\ InOffice(r, k)
        BY <4>2, <2>1 DEF Sound, PresidentsStay
      <4>4. r # p
        BY <4>3, <1>12, Ids DEF InOffice
      <4>5. ~ Leaves(r, k)'
        BY <4>3, <1>2, <1>7 DEF InOffice, Leaves
      <4>6. InOffice(r, k)'
        BY <3>2, <4>3, <4>4, <4>5, <1>5, <1>7, <1>8, <1>9 DEF InOffice
      <4>7. r = president'[k]
        BY <4>3, <3>2, <1>8
      <4> QED  BY <4>6, <4>7
    <3> QED  BY <3>1, <3>2
  <2>6. AuthorityHasGuild'
    BY <2>1, <1>5, <1>9, <1>11 DEF Sound, AuthorityHasGuild
  <2>7. OnePresident'
    <3> SUFFICES ASSUME NEW q \in Player, position[q] = "president"
                 PROVE  president'[guild_id'[q]] = q \/ h'[q].pc = "change_old"
      BY <1>5 DEF OnePresident
    <3>1. CASE q = p
      BY <3>1, <1>8, <1>9
    <3>2. CASE q # p
      <4>1. guild_id'[q] = guild_id[q] /\ h'[q] = h[q] /\ guild_id[q] # g /\ guild_id[q] \in GuildId
        BY <3>2, <2>1, <1>1, <1>7, <1>9, <1>11 DEF Sound, AuthorityHasGuild, Types, PlayersType
      <4> QED  BY <4>1, <2>1, <1>8 DEF Sound, OnePresident
    <3> QED  BY <3>1, <3>2
  <2> QED  BY <2>2, <2>3, <2>4, <2>5, <2>6, <2>7 DEF Sound
<1> QED  BY <1>10, <1>13, <1>14, <1>15, <1>16, <1>17, <1>18 DEF Inv, Facts

LEMMA CreatePositionKeeps ==
  ASSUME Inv, NEW p \in Player, CreatePosition(p)
  PROVE  Inv'
<1>1. Types /\ Facts
  BY DEF Inv
<1>2. h[p].pc = "create_pos" /\ h[p].g # NoGuild
  BY <1>1 DEF CreatePosition, Facts, HandlersOK
<1>3. PICK g \in GuildId : g = h[p].g
  BY <1>1, <1>2, HandlerFields DEF Types
<1>4. /\ position' = [position EXCEPT ![p] = "president"]
      /\ Late(guild_id[p] # g \/ president[g] # p \/ Left(p, g))
      /\ locked' = locked \ {p} /\ Becomes(p, Idle)
      /\ next_id' = next_id /\ exist_type' = exist_type /\ due' = due /\ asks' = asks
      /\ crowded' = crowded /\ president' = president /\ members' = members
      /\ guild_id' = guild_id /\ ended' = ended
  BY <1>3 DEF CreatePosition, SetPosition, rowVars, Late
<1>5. HandlersType' /\ Moves(p, "idle", NoGuild, {}, NoPlayer)
  BY <1>1, <1>4, RestsDoes DEF Types
<1>6. h'[p].pc = "idle" /\ h'[p].g = NoGuild /\ \A q \in Player \ {p} : h'[q] = h[q]
  BY <1>5 DEF Moves, Others
<1>7. position'[p] = "president" /\ \A q \in Player \ {p} : position'[q] = position[q]
  BY <1>1, <1>4 DEF Types, PlayersType
<1>8. Types'
  <2>1. RowsType' /\ FlagsType'
    BY <1>1, <1>4 DEF Types, RowsType, FlagsType, Late
  <2>2. PlayersType'
    BY <1>1, <1>4 DEF Types, PlayersType
  <2> QED  BY <1>5, <2>1, <2>2 DEF Types
<1>9. HandlersOK' /\ GuildsOK'
  BY <1>1, <1>4, <1>6, Ids DEF Facts, HandlersOK, GuildsOK, Types, RowsType, Picked
<1>10. IdsLeft'
  <2>1. Creating' = Creating
    BY <1>2, <1>6 DEF Creating
  <2> QED  BY <2>1, <1>1, <1>4 DEF IdsLeft, Facts
<1>11. LocksHeld' /\ OneHolds'
  <2>1. \A q, r \in Player : Holds(q, r)' => Holds(q, r) /\ q # p
    BY <1>6 DEF Holds
  <2>2. \A q \in Player : Holds(q, p) => q = p
    BY <1>1, <1>2 DEF Facts, OneHolds, Holds
  <2>3. LocksHeld'
    BY <2>1, <2>2, <1>1, <1>4 DEF Facts, LocksHeld
  <2>4. OneHolds'
    BY <2>1, <1>1 DEF Facts, OneHolds
  <2> QED  BY <2>3, <2>4
<1>12. JoinersAreFree'
  BY <1>1, <1>4, <1>6 DEF Facts, JoinersAreFree
<1>13. ASSUME ~ late'  PROVE Sound'
  <2>1. Sound /\ guild_id[p] = g /\ president[g] = p
    BY <1>4, <1>13 DEF Inv, Late
  <2>2. Agree'
    <3>1. \A q \in Player, k \in GuildId : Between(q, k) => Between(q, k)'
      BY <1>2, <1>6 DEF Between
    <3> QED  BY <3>1, <2>1, <1>4 DEF Sound, Agree
  <2>3. Founded'
    <3> SUFFICES ASSUME NEW q \in Player, h'[q].pc = "create_pos"
                 PROVE  /\ members'[h'[q].g] = {q} /\ president'[h'[q].g] = q /\ guild_id'[q] = h'[q].g
                        /\ exist_type'[h'[q].g] = "none"
                        /\ \A r \in Player \ {q} : h'[r].g # h'[q].g /\ guild_id'[r] # h'[q].g
      BY DEF Founded
    <3>1. q # p /\ h'[q] = h[q] /\ h[q].pc = "create_pos"
      BY <1>6
    <3>2. /\ members[h[q].g] = {q} /\ president[h[q].g] = q /\ guild_id[q] = h[q].g
          /\ exist_type[h[q].g] = "none"
          /\ \A r \in Player \ {q} : h[r].g # h[q].g /\ guild_id[r] # h[q].g
      BY <3>1, <2>1 DEF Sound, Founded
    <3>3. h[q].g # NoGuild
      BY <3>1, <1>1 DEF Facts, HandlersOK
    <3>4. \A r \in Player \ {q} : h'[r].g # h[q].g
      BY <3>2, <3>3, <1>6
    <3> QED  BY <3>1, <3>2, <3>4, <1>4
  <2>4. Governs'
    BY <2>1, <1>4, <1>6 DEF Sound, Governs
  <2>5. PresidentsStay'
    <3>1. \A j \in GuildId : Changing(j) => Changing(j)'
      BY <1>2, <1>6 DEF Changing
    <3> SUFFICES ASSUME NEW j \in GuildId \ ended, Exists(j)', ~ Changing(j)'
                 PROVE  \E r \in Player : r = president'[j] /\ InOffice(r, j)'
      BY <1>4 DEF PresidentsStay
    <3>2. PICK r \in Player : r = president[j] /\ InOffice(r, j)
      BY <3>1, <2>1, <1>4 DEF Exists, Sound, PresidentsStay
    <3>3. ~ Leaves(r, j)'
      BY <3>2, <1>6 DEF InOffice, Leaves
    <3>4. position'[r] = "president" \/ h'[r].pc = "create_pos"
      BY <3>2, <1>6, <1>7 DEF InOffice
    <3>5. InOffice(r, j)'
      BY <3>2, <3>3, <3>4, <1>4 DEF InOffice
    <3> QED  BY <3>2, <3>5, <1>4
  <2>6. AuthorityHasGuild'
    BY <2>1, <1>3, <1>2, <1>4, <1>7 DEF Sound, AuthorityHasGuild
  <2>7. OnePresident'
    BY <2>1, <1>4, <1>6, <1>7 DEF Sound, OnePresident
  <2> QED  BY <2>2, <2>3, <2>4, <2>5, <2>6, <2>7 DEF Sound
<1> QED  BY <1>8, <1>9, <1>10, <1>11, <1>12, <1>13 DEF Inv, Facts

LEMMA AgreeAddsKeeps ==
  ASSUME Inv, NEW p \in Player, AgreeAdds(p)
  PROVE  Inv'
<1>1. Types /\ Facts
  BY DEF Inv
<1>2. h[p].pc = "agree_wait" /\ h[p].t \in Player /\ h[p].g # NoGuild /\ h[p].g <= next_id
  BY <1>1 DEF AgreeAdds, Facts, HandlersOK, Picked
<1>3. PICK t \in Player : t = h[p].t
  BY <1>2
<1>4. PICK g \in GuildId : g = h[p].g
  BY <1>1, <1>2, HandlerFields DEF Types
<1>5. /\ t \notin locked /\ guild_id[t] = NoGuild /\ locked' = locked \cup {t}
      /\ members' = [members EXCEPT ![g] = @ \cup {t}]
      /\ Becomes(p, Handler("agree_id", g, h[p].list, t))
      /\ next_id' = next_id /\ exist_type' = exist_type /\ due' = due /\ asks' = asks
      /\ crowded' = crowded /\ president' = president
      /\ guild_id' = guild_id /\ position' = position /\ ended' = ended /\ late' = late
  BY <1>3, <1>4 DEF AgreeAdds, playerVars, histVars
<1>6. HandlersType' /\ Moves(p, "agree_id", g, h[p].list, t)
  <2>1. "agree_id" \in Pc /\ g \in GuildId \cup {NoGuild} /\ h[p].list \in SUBSET Player
        /\ t \in Player \cup {NoPlayer}
    BY <1>1, HandlerFields DEF Pc, Types
  <2> QED  BY <2>1, <1>1, <1>5, BecomesDoes DEF Types
<1>7. h'[p].pc = "agree_id" /\ h'[p].g = g /\ h'[p].t = t /\ \A q \in Player \ {p} : h'[q] = h[q]
  BY <1>6 DEF Moves, Others
<1>8. PICK list : Moves(p, "agree_id", g, list, t)
  BY <1>6
<1>9. members'[g] = members[g] \cup {t} /\ \A k \in GuildId : k # g => members'[k] = members[k]
  BY <1>1, <1>5 DEF Types, RowsType
<1>10. Types'
  <2>1. RowsType' /\ FlagsType'
    BY <1>1, <1>5 DEF Types, RowsType, FlagsType
  <2>2. PlayersType'
    BY <1>1, <1>5 DEF Types, PlayersType
  <2> QED  BY <1>6, <2>1, <2>2 DEF Types
<1>11. HandlersOK' /\ GuildsOK'
  BY <1>1, <1>2, <1>4, <1>5, <1>7, Ids DEF Facts, HandlersOK, GuildsOK, Picked
<1>12. IdsLeft'
  <2>1. Creating' = Creating
    BY <1>2, <1>7 DEF Creating
  <2> QED  BY <2>1, <1>1, <1>5 DEF IdsLeft, Facts
<1>13. LocksHeld' /\ OneHolds'
  <2>1. \A q, r \in Player : Holds(q, r)' => Holds(q, r) \/ (q = p /\ r = t)
    BY <1>7 DEF Holds
  <2>2. \A q \in Player : ~ Holds(q, t)
    BY <1>1, <1>5 DEF Facts, LocksHeld
  <2>3. LocksHeld'
    BY <2>1, <1>1, <1>5 DEF Facts, LocksHeld
  <2>4. OneHolds'
    BY <2>1, <2>2, <1>1 DEF Facts, OneHolds
  <2> QED  BY <2>3, <2>4
<1>14. JoinersAreFree'
  BY <1>1, <1>5, <1>7 DEF Facts, JoinersAreFree
<1>15. ASSUME Sound  PROVE Sound'
  <2>1. Agree'
    <3>1. \A q \in Player, k \in GuildId : Between(q, k) => Between(q, k)'
      BY <1>2, <1>7 DEF Between
    <3>2. Between(t, g)'
      BY <1>7 DEF Between
    <3> SUFFICES ASSUME NEW q \in Player, NEW k \in GuildId \ ended
                 PROVE  (q \in members'[k] <=> guild_id'[q] = k) \/ Between(q, k)'
      BY <1>5 DEF Agree
    <3>3. CASE q = t /\ k = g
      BY <3>2, <3>3
    <3>4. CASE ~ (q = t /\ k = g)
      <4>1. q \in members'[k] <=> q \in members[k]
        BY <3>4, <1>9
      <4> QED  BY <4>1, <3>1, <1>5, <1>15 DEF Sound, Agree
    <3> QED  BY <3>3, <3>4
  <2>2. Founded'
    BY <1>1, <1>2, <1>4, <1>5, <1>8, <1>9, <1>15, FoundedStays DEF Sound
  <2>3. Governs'
    BY <1>5, <1>7, <1>15 DEF Sound, Governs
  <2>4. PresidentsStay'
    <3>1. \A j \in GuildId : Changing(j) => Changing(j)'
      BY <1>2, <1>7 DEF Changing
    <3> SUFFICES ASSUME NEW j \in GuildId \ ended, Exists(j)', ~ Changing(j)'
                 PROVE  \E r \in Player : r = president'[j] /\ InOffice(r, j)'
      BY <1>5 DEF PresidentsStay
    <3>2. PICK r \in Player : r = president[j] /\ InOffice(r, j)
      BY <3>1, <1>5, <1>15 DEF Exists, Sound, PresidentsStay
    <3>3. r \in members'[j] /\ guild_id'[r] = j
      BY <3>2, <1>5, <1>9 DEF InOffice
    <3>4. InOffice(r, j)'
      BY <3>2, <3>3, <1>2, <1>5, <1>8, OfficeStays
    <3> QED  BY <3>2, <3>4, <1>5
  <2>5. AuthorityHasGuild'
    BY <1>5, <1>15 DEF Sound, AuthorityHasGuild
  <2>6. OnePresident'
    BY <1>2, <1>5, <1>7, <1>15 DEF Sound, OnePresident
  <2> QED  BY <2>1, <2>2, <2>3, <2>4, <2>5, <2>6 DEF Sound
<1> QED  BY <1>5, <1>10, <1>11, <1>12, <1>13, <1>14, <1>15 DEF Inv, Facts

LEMMA AgreeSetsIdKeeps ==
  ASSUME Inv, NEW p \in Player, AgreeSetsId(p)
  PROVE  Inv'
<1>1. Types /\ Facts
  BY DEF Inv
<1>2. h[p].pc = "agree_id" /\ h[p].t \in Player /\ h[p].g # NoGuild /\ h[p].g <= next_id
  BY <1>1 DEF AgreeSetsId, Facts, HandlersOK, Picked
<1>3. PICK t \in Player : t = h[p].t
  BY <1>2
<1>4. PICK g \in GuildId : g = h[p].g
  BY <1>1, <1>2, HandlerFields DEF Types
<1>5. /\ guild_id' = [guild_id EXCEPT ![t] = g] /\ locked' = locked \ {t}
      /\ asks' = [asks EXCEPT ![g] = @ \ {t}] /\ Late(t \notin members[g])
      /\ TakesNext(p, t, "agree")
      /\ next_id' = next_id /\ exist_type' = exist_type /\ due' = due
      /\ crowded' = crowded /\ president' = president /\ members' = members
      /\ position' = position /\ ended' = ended
  BY <1>3, <1>4 DEF AgreeSetsId, Late
<1>6. HandlersType' /\ \E pc, k, list : /\ Moves(p, pc, k, list, NoPlayer)
                                        /\ \/ pc = "idle" /\ k = NoGuild
                                           \/ pc = "agree" /\ k = g
  <2>1. "agree" \in Pc
    BY DEF Pc
  <2>2. /\ HandlersType'
        /\ \/ Moves(p, "idle", NoGuild, {}, NoPlayer)
           \/ Moves(p, "agree", g, h[p].list \ {t}, NoPlayer)
    BY <2>1, <1>1, <1>4, <1>5, TakesNextDoes DEF Types
  <2> QED  BY <2>2
<1>7. PICK pc, k, list : /\ Moves(p, pc, k, list, NoPlayer)
                         /\ \/ pc = "idle" /\ k = NoGuild
                            \/ pc = "agree" /\ k = g
  BY <1>6
<1>8. h'[p].pc = pc /\ h'[p].g = k /\ \A q \in Player \ {p} : h'[q] = h[q]
  BY <1>7 DEF Moves, Others
<1>9. guild_id[t] = NoGuild /\ guild_id'[t] = g /\ \A q \in Player \ {t} : guild_id'[q] = guild_id[q]
  BY <1>1, <1>2, <1>3, <1>5 DEF Types, PlayersType, Facts, JoinersAreFree
<1>10. Types'
  <2>1. RowsType' /\ FlagsType'
    BY <1>1, <1>5 DEF Types, RowsType, FlagsType, Late
  <2>2. PlayersType'
    BY <1>1, <1>5 DEF Types, PlayersType
  <2> QED  BY <1>6, <2>1, <2>2 DEF Types
<1>11. HandlersOK' /\ GuildsOK'
  <2>1. NoGuild <= next_id
    BY <1>1, GuildAssumption DEF Types, RowsType, NoGuild
  <2>2. HandlersOK'
    BY <2>1, <1>1, <1>2, <1>4, <1>5, <1>7, <1>8, Ids DEF Facts, HandlersOK, Picked
  <2>3. GuildsOK'
    BY <1>1, <1>2, <1>4, <1>5, <1>9 DEF Facts, GuildsOK
  <2> QED  BY <2>2, <2>3
<1>12. IdsLeft'
  <2>1. Creating' = Creating
    BY <1>2, <1>7, <1>8 DEF Creating
  <2> QED  BY <2>1, <1>1, <1>5 DEF IdsLeft, Facts
<1>13. \A q \in Player : Holds(q, t) => q = p
  BY <1>1, <1>2, <1>3 DEF Facts, OneHolds, Holds
<1>14. LocksHeld' /\ OneHolds'
  <2>1. \A q, r \in Player : Holds(q, r)' => Holds(q, r) /\ q # p
    BY <1>7, <1>8 DEF Holds
  <2>2. LocksHeld'
    BY <2>1, <1>1, <1>5, <1>13 DEF Facts, LocksHeld
  <2>3. OneHolds'
    BY <2>1, <1>1 DEF Facts, OneHolds
  <2> QED  BY <2>2, <2>3
<1>15. JoinersAreFree'
  <2> SUFFICES ASSUME NEW q \in Player
               PROVE  /\ h'[q].pc = "agree_id" => guild_id'[h'[q].t] = NoGuild
                      /\ h'[q].pc = "create" => guild_id'[q] = NoGuild \/ guild_id'[q] \in ended'
    BY DEF JoinersAreFree
  <2>1. CASE q = p
    BY <2>1, <1>7, <1>8
  <2>2. CASE q # p
    <3>1. h'[q] = h[q]
      BY <2>2, <1>8
    <3>2. h[q].pc = "agree_id" => h[q].t \in Player /\ h[q].t # t
      BY <2>2, <1>1, <1>13 DEF Facts, HandlersOK, Picked, Holds
    <3>3. h[q].pc = "create" => q # t
      BY <2>2, <1>13 DEF Holds
    <3> QED  BY <3>1, <3>2, <3>3, <1>1, <1>5, <1>9 DEF Facts, JoinersAreFree
  <2> QED  BY <2>1, <2>2
<1>16. ASSUME ~ late'  PROVE Sound'
  <2>1. Sound /\ t \in members[g]
    BY <1>5, <1>16 DEF Inv, Late
  <2>2. Agree'
    <3>1. \A q \in Player, j \in GuildId : Between(q, j) => Between(q, j)' \/ (q = t /\ j = g)
      BY <1>2, <1>3, <1>4, <1>8 DEF Between
    <3> SUFFICES ASSUME NEW q \in Player, NEW j \in GuildId \ ended
                 PROVE  (q \in members'[j] <=> guild_id'[q] = j) \/ Between(q, j)'
      BY <1>5 DEF Agree
    <3>2. CASE q = t /\ j = g
      BY <3>2, <2>1, <1>5, <1>9
    <3>3. CASE ~ (q = t /\ j = g)
      <4>1. guild_id'[q] = j <=> guild_id[q] = j
        BY <3>3, <1>9, Ids
      <4> QED  BY <4>1, <3>1, <3>3, <2>1, <1>5 DEF Sound, Agree
    <3> QED  BY <3>2, <3>3
  <2>3. Founded'
    <3>1. \A q \in Player : h[q].pc = "create_pos" => q # t
      BY <2>1, <1>1, <1>9 DEF Sound, Founded, Facts, HandlersOK
    <3>2. /\ \A q \in Player : h[q].pc = "create_pos" => guild_id'[q] = guild_id[q]
          /\ \A q \in Player : guild_id'[q] \in {guild_id[q], NoGuild, h[p].g}
      BY <3>1, <1>4, <1>9
    <3>3. h[p].pc # "create_pos" /\ pc # "create_pos" /\ (k = h[p].g \/ k = NoGuild)
      BY <1>2, <1>4, <1>7
    <3> QED  BY <3>2, <3>3, <1>1, <1>5, <1>7, <2>1, FoundedStays DEF Sound
  <2>4. Governs'
    BY <2>1, <1>5, <1>7, <1>8 DEF Sound, Governs
  <2>5. PresidentsStay'
    <3>1. \A j \in GuildId : Changing(j) => Changing(j)'
      BY <1>2, <1>8 DEF Changing
    <3> SUFFICES ASSUME NEW j \in GuildId \ ended, Exists(j)', ~ Changing(j)'
                 PROVE  \E r \in Player : r = president'[j] /\ InOffice(r, j)'
      BY <1>5 DEF PresidentsStay
    <3>2. PICK r \in Player : r = president[j] /\ InOffice(r, j)
      BY <3>1, <2>1, <1>5 DEF Exists, Sound, PresidentsStay
    <3>3. r # t
      BY <3>2, <1>9, Ids DEF InOffice
    <3>4. r \in members'[j] /\ guild_id'[r] = j /\ position'[r] = position[r]
      BY <3>2, <3>3, <1>5, <1>9 DEF InOffice
    <3>5. InOffice(r, j)'
      BY <3>2, <3>4, <1>2, <1>7, OfficeStays
    <3> QED  BY <3>2, <3>5, <1>5
  <2>6. AuthorityHasGuild'
    BY <2>1, <1>5, <1>9, Ids DEF Sound, AuthorityHasGuild
  <2>7. OnePresident'
    <3>1. position[t] # "president"
      BY <2>1, <1>9 DEF Sound, AuthorityHasGuild
    <3> QED  BY <3>1, <2>1, <1>2, <1>5, <1>8, <1>9 DEF Sound, OnePresident
  <2> QED  BY <2>2, <2>3, <2>4, <2>5, <2>6, <2>7 DEF Sound
<1> QED  BY <1>10, <1>11, <1>12, <1>14, <1>15, <1>16 DEF Inv, Facts

(***************************************************************************)
(* The theorems.                                                           *)
(***************************************************************************)

LEMMA InitInv == Init => Inv
<1> SUFFICES ASSUME Init  PROVE Inv
  OBVIOUS
<1>1. HandlersType /\ \A p \in Player : h[p].pc = "idle" /\ h[p].g = NoGuild
  BY IdleIs DEF Init, HandlersType
<1>2. RowsType /\ PlayersType /\ FlagsType
  <2>1. RowsType
    <3>1. \A g \in GuildId : g > 0
      BY GuildAssumption DEF GuildId
    <3>2. 0 \in 0..MaxGuildId
      BY GuildAssumption
    <3> QED  BY <3>1, <3>2 DEF Init, RowsType
  <2> QED  BY <2>1 DEF Init, PlayersType, FlagsType
<1>3. Types
  BY <1>1, <1>2 DEF Types
<1>4. HandlersOK /\ GuildsOK
  <2>1. next_id = 0 /\ ended = {} /\ \A p \in Player : guild_id[p] = 0
    BY DEF Init, NoGuild
  <2>2. \A g \in GuildId : exist_type[g] = "absent"
    BY DEF Init
  <2> QED  BY <2>1, <2>2, <1>1 DEF HandlersOK, GuildsOK, Picked, NoGuild
<1>5. IdsLeft
  <2>1. Creating = {}
    BY <1>1 DEF Creating
  <2> QED  BY <2>1, FS_EmptySet, Ids DEF IdsLeft, Init
<1>6. LocksHeld /\ OneHolds /\ JoinersAreFree
  BY <1>1 DEF LocksHeld, OneHolds, JoinersAreFree, Holds
<1>7. Sound
  <2>1. Agree
    BY Ids DEF Init, Agree
  <2>2. Founded /\ Governs
    BY <1>1 DEF Founded, Governs
  <2>3. PresidentsStay
    BY DEF PresidentsStay, Init, Exists
  <2>4. AuthorityHasGuild /\ OnePresident
    BY DEF AuthorityHasGuild, OnePresident, Init
  <2> QED  BY <2>1, <2>2, <2>3, <2>4 DEF Sound
<1> QED  BY <1>3, <1>4, <1>5, <1>6, <1>7 DEF Inv, Facts

LEMMA NextInv == Inv /\ [Next]_vars => Inv'
<1> SUFFICES ASSUME Inv, [Next]_vars  PROVE Inv'
  OBVIOUS
<1>1. ASSUME NEW p \in Player, Joining(p)  PROVE Inv'
  BY <1>1, CreateBeginsKeeps, CreateRowKeeps, CreatePositionKeeps, AskKeeps, LookKeeps, CheckKeeps,
     AgreeAddsKeeps, AgreeSetsIdKeeps DEF Joining
<1>2. ASSUME NEW p \in Player, Leaving(p)  PROVE Inv'
  BY <1>2, LookKeeps, StrikeKeeps, LeaverKeeps, CheckKeeps DEF Leaving
<1>3. ASSUME NEW p \in Player, Governing(p)  PROVE Inv'
  BY <1>3, LookKeeps, CheckKeeps, OfficerSetsKeeps, ChangePresidentKeeps, ChangeOldKeeps, ChangeNewKeeps
     DEF Governing
<1>4. ASSUME NEW p \in Player, Ending(p)  PROVE Inv'
  BY <1>4, LookKeeps, DismissKeeps, DissolveBeginsKeeps, DissolveClearsKeeps, DissolveEmptiesKeeps
     DEF Ending
<1>5. CASE \E g \in GuildId : TimePasses(g)
  BY <1>5, AskKeeps
<1>6. CASE UNCHANGED vars
  BY <1>6, AskKeeps
<1> QED  BY <1>1, <1>2, <1>3, <1>4, <1>5, <1>6 DEF Next

LEMMA Invariance == Spec => []Inv
BY InitInv, NextInv, PTL DEF Spec

\* Types, for any number of players and guilds (TypeOK).
THEOREM TypeCorrect == Spec => []TypeOK
<1>1. Inv => TypeOK
  BY TypesAre DEF Inv
<1> QED  BY <1>1, Invariance, PTL

\* The guild's row and the player's say the same of a membership (guild_agree_join,
\* guild_quit, guild_kick_member), up to the first late store and but for the moment
\* between the two stores of a handler.
THEOREM RowsCorrect == Spec => []RowsAgree
<1>1. Inv => RowsAgree
  BY DEF Inv, Sound, Agree, Between, RowsAgree
<1> QED  BY <1>1, Invariance, PTL

\* The president is a member of his guild, but while the presidency changes hands: he
\* can neither quit nor be kicked (guild_quit, guild_kick_member).
THEOREM PresidentCorrect == Spec => []PresidentBelongs
<1>1. Inv => PresidentBelongs
  BY DEF Inv, Sound, PresidentsStay, InOffice, Changing, PresidentBelongs
<1> QED  BY <1>1, Invariance, PTL

\* Authority ends with the membership it was given in (clear_guild_data), and one
\* player at most has the president's position (guild_change_president).
THEOREM AuthorityCorrect == Spec => []AuthorityIsLawful
<1>1. Inv => AuthorityIsLawful
  BY DEF Inv, Sound, AuthorityHasGuild, OnePresident, AuthorityIsLawful
<1> QED  BY <1>1, Invariance, PTL

\* Who changes guilds without leaving the first: CreateRow and AgreeSetsId, and they
\* know better (JoinersAreFree), whatever is late.
Moved == \A p \in Player :
           guild_id[p] # NoGuild /\ guild_id'[p] \notin {NoGuild, guild_id[p]} => guild_id[p] \in ended

LEMMA NobodyMoves ==
  ASSUME Inv, NEW p \in Player, Joining(p) \/ Leaving(p) \/ Governing(p) \/ Ending(p)
  PROVE  Moved
<1>1. guild_id \in [Player -> GuildId \cup {NoGuild}]
  BY DEF Inv, Types, PlayersType
<1>2. ASSUME NEW t, guild_id' = [guild_id EXCEPT ![t] = NoGuild]  PROVE Moved
  BY <1>1, <1>2 DEF Moved
<1>3. CASE guild_id' = guild_id
  BY <1>3 DEF Moved
<1>4. CASE CreateRow(p)
  <2>1. guild_id[p] = NoGuild \/ guild_id[p] \in ended
    BY <1>4 DEF CreateRow, Inv, Facts, JoinersAreFree
  <2>2. \A q \in Player \ {p} : guild_id'[q] = guild_id[q]
    BY <1>1, <1>4 DEF CreateRow
  <2> QED  BY <2>1, <2>2 DEF Moved
<1>5. CASE AgreeSetsId(p)
  <2>1. guild_id[h[p].t] = NoGuild
    BY <1>5 DEF AgreeSetsId, Inv, Facts, JoinersAreFree
  <2>2. \A q \in Player : q # h[p].t => guild_id'[q] = guild_id[q]
    BY <1>1, <1>5 DEF AgreeSetsId
  <2> QED  BY <2>1, <2>2 DEF Moved
<1>6. CASE QuitClears(p)
  BY <1>2, <1>6 DEF QuitClears, Clear
<1>7. CASE KickClears(p)
  <2>1. PICK t : t = h[p].t
    OBVIOUS
  <2> QED  BY <2>1, <1>2, <1>7 DEF KickClears, Clear
<1>8. ASSUME NEW t \in Player, DissolveClears(p, t)  PROVE Moved
  BY <1>2, <1>8 DEF DissolveClears
<1>9. CASE Joining(p)
  <2>1. CASE CreateRow(p) \/ AgreeSetsId(p)
    BY <2>1, <1>4, <1>5
  <2>2. CASE \/ CreateBegins(p) \/ CreatePosition(p) \/ \E g \in GuildId : Ask(p, g)
             \/ \E list \in List : Refuse(p, list) \/ AgreeBegins(p, list)
             \/ \E t \in Player : AgreeChecks(p, t)
             \/ AgreeAdds(p) \/ AgreeIsTooLate(p)
    BY <2>2, <1>3 DEF CreateBegins, CreatePosition, Ask, Refuse, AgreeBegins, AgreeChecks, AgreeAdds,
       AgreeIsTooLate, playerVars
  <2> QED  BY <2>1, <2>2, <1>9 DEF Joining
<1>10. CASE Leaving(p)
  <2>1. CASE QuitClears(p) \/ KickClears(p)
    BY <2>1, <1>6, <1>7
  <2>2. CASE \/ QuitBegins(p) \/ QuitStrikes(p) \/ \E list \in List : KickBegins(p, list)
             \/ \E t \in Player : KickChecks(p, t)
             \/ KickStrikes(p)
    BY <2>2, <1>3 DEF QuitBegins, QuitStrikes, KickBegins, KickChecks, KickStrikes, playerVars
  <2> QED  BY <2>1, <2>2, <1>10 DEF Leaving
<1>11. CASE Governing(p)
  BY <1>3, <1>11 DEF Governing, OfficerBegins, OfficerChecks, ChangeBegins, OfficerSets,
     ChangePresident, ChangeOld, ChangeNew, Look, playerVars
<1>12. CASE Ending(p)
  <2>1. CASE \E t \in Player : DissolveClears(p, t)
    BY <2>1, <1>8
  <2>2. CASE \/ DismissBegins(p) \/ Dismiss(p) \/ CancelBegins(p) \/ Cancel(p)
             \/ \E g \in GuildId : DissolveBegins(p, g)
             \/ DissolveDeletes(p) \/ DissolveEmpties(p)
    BY <2>2, <1>3 DEF DismissBegins, Dismiss, CancelBegins, Cancel, DissolveBegins, DissolveDeletes,
       DissolveEmpties, playerVars
  <2> QED  BY <2>1, <2>2, <1>12 DEF Ending
<1> QED  BY <1>9, <1>10, <1>11, <1>12

\* Nobody goes from one guild to another while the first exists, even after a late
\* store: founding and joining are decided under join_guild_locker (CreateGuild,
\* guild_agree_join).
THEOREM OneGuildCorrect == Spec => OneGuildAtATime
<1>1. ASSUME Inv, [Next]_vars  PROVE [Moved]_vars
  <2>1. CASE \E g \in GuildId : TimePasses(g)
    BY <2>1 DEF TimePasses, Moved, playerVars
  <2> QED  BY <1>1, <2>1, NobodyMoves DEF Next
<1>2. Inv /\ [Next]_vars =>
        [\A p \in Player : guild_id[p] # NoGuild /\ guild_id'[p] \notin {NoGuild, guild_id[p]}
                             => guild_id[p] \in ended]_vars
  BY <1>1 DEF Moved
<1> QED  BY <1>2, Invariance, PTL DEF Spec, OneGuildAtATime

(***************************************************************************)
(* The limit of members.                                                   *)
(***************************************************************************)

LEMMA Fewer ==
  ASSUME NEW S \in SUBSET Player, NEW T \in SUBSET S
  PROVE  Cardinality(S) \in Nat /\ Cardinality(T) \in Nat /\ Cardinality(T) <= Cardinality(S)
<1>1. IsFiniteSet(S)
  BY GuildAssumption, FS_Subset
<1>2. IsFiniteSet(T)
  BY <1>1, FS_Subset
<1> QED  BY <1>1, <1>2, FS_Subset, FS_CardinalityType

LEMMA OneMore ==
  ASSUME NEW S \in SUBSET Player, NEW x \in Player, NEW T \in SUBSET (S \cup {x})
  PROVE  /\ Cardinality(S) \in Nat /\ Cardinality(T) \in Nat
         /\ Cardinality(T) <= Cardinality(S) + 1
<1>1. IsFiniteSet(S)
  BY GuildAssumption, FS_Subset
<1>2. Cardinality(S) \in Nat /\ Cardinality(S \cup {x}) <= Cardinality(S) + 1
  BY <1>1, FS_AddElement, FS_CardinalityType
<1>3. Cardinality(T) \in Nat /\ Cardinality(T) <= Cardinality(S \cup {x})
  BY Fewer
<1>4. Cardinality(S \cup {x}) \in Nat
  BY Fewer
<1> QED  BY <1>2, <1>3, <1>4

LEMMA OneLess ==
  ASSUME NEW S \in SUBSET Player, NEW x \in S
  PROVE  /\ Cardinality(S) \in Nat /\ Cardinality(S \ {x}) \in Nat
         /\ Cardinality(S \ {x}) + 1 = Cardinality(S)
<1>1. IsFiniteSet(S)
  BY GuildAssumption, FS_Subset
<1>2. Cardinality(S) \in Nat /\ Cardinality(S \ {x}) \in Nat /\ Cardinality(S \ {x}) = Cardinality(S) - 1
  BY <1>1, FS_RemoveElement, FS_CardinalityType, Fewer
<1> QED  BY <1>2

LEMMA CountedType ==
  ASSUME Types, NEW g \in GuildId
  PROVE  Counted(g) \in SUBSET Player
BY DEF Types, RowsType, Counted

\* Nobody is added who was not counted.
NoMore == \A g \in GuildId \ (crowded \cup ended)' : Counted(g)' \subseteq Counted(g)

\* Nothing is agreed that was not agreed before.
NoneAgrees ==
  \A p \in Player : h'[p].pc \in AgreePc =>
    /\ h[p].pc \in AgreePc /\ h'[p].g = h[p].g /\ Pending(p)' \subseteq Pending(p)
    /\ h'[p].pc \in {"agree_wait", "agree_id"} => h'[p].t \in h'[p].list

LEMMA LimitsStay ==
  ASSUME Types, Facts, Types', Limits, NoMore, NoneAgrees, crowded \subseteq crowded', ended \subseteq ended'
  PROVE  Limits'
<1>1. OneAgrees'
  BY DEF Limits, OneAgrees, NoneAgrees
<1>2. Listed'
  BY DEF Listed, NoneAgrees, AgreePc
<1>3. Room'
  <2> SUFFICES ASSUME NEW p \in Player, NEW g \in GuildId \ (crowded \cup ended)',
                      h'[p].pc \in AgreePc, h'[p].g = g
               PROVE  Cardinality(Counted(g)') + Cardinality(Pending(p)') <= MemberNum
    BY DEF Room
  <2>1. /\ h[p].pc \in AgreePc /\ h[p].g = g /\ Pending(p)' \subseteq Pending(p)
        /\ g \notin crowded \cup ended
    BY DEF NoneAgrees
  <2>2. Counted(g)' \subseteq Counted(g)
    BY DEF NoMore
  <2>3. Counted(g) \in SUBSET Player /\ Pending(p) \in SUBSET Player
    BY CountedType, HandlerFields DEF Pending, Types
  <2>4. /\ Cardinality(Counted(g)) \in Nat /\ Cardinality(Counted(g)') \in Nat
        /\ Cardinality(Counted(g)') <= Cardinality(Counted(g))
    BY <2>2, <2>3, Fewer
  <2>5. /\ Cardinality(Pending(p)) \in Nat /\ Cardinality(Pending(p)') \in Nat
        /\ Cardinality(Pending(p)') <= Cardinality(Pending(p))
    BY <2>1, <2>3, Fewer
  <2>6. Cardinality(Counted(g)) + Cardinality(Pending(p)) <= MemberNum
    BY <2>1 DEF Limits, Room
  <2> QED  BY <2>4, <2>5, <2>6, Ids
<1>4. Within'
  <2> SUFFICES ASSUME NEW g \in GuildId \ (crowded \cup ended)'
               PROVE  Cardinality(Counted(g)') <= MemberNum
    BY DEF Within
  <2>1. Counted(g)' \subseteq Counted(g) /\ Counted(g) \in SUBSET Player
    BY CountedType DEF NoMore
  <2>2. /\ Cardinality(Counted(g)) \in Nat /\ Cardinality(Counted(g)') \in Nat
        /\ Cardinality(Counted(g)') <= Cardinality(Counted(g))
    BY <2>1, Fewer
  <2>3. Cardinality(Counted(g)) <= MemberNum
    BY DEF Limits, Within
  <2> QED  BY <2>2, <2>3, Ids
<1> QED  BY <1>1, <1>2, <1>3, <1>4 DEF Limits

LEMMA OthersAgree ==
  ASSUME Listed, NEW p \in Player, Others(p), h'[p].pc \notin AgreePc
  PROVE  NoneAgrees
<1> SUFFICES ASSUME NEW q \in Player, h'[q].pc \in AgreePc
             PROVE  /\ h[q].pc \in AgreePc /\ h'[q].g = h[q].g /\ Pending(q)' \subseteq Pending(q)
                    /\ h'[q].pc \in {"agree_wait", "agree_id"} => h'[q].t \in h'[q].list
  BY DEF NoneAgrees
<1>1. h'[q] = h[q]
  BY DEF Others
<1> QED  BY <1>1 DEF Pending, Listed

LEMMA LessCounted ==
  ASSUME NEW p \in Player, Others(p), h[p].pc # "kick_clear",
         \A k \in GuildId : members'[k] \subseteq members[k]
  PROVE  NoMore
<1> SUFFICES ASSUME NEW k \in GuildId, NEW q \in Counted(k)'  PROVE q \in Counted(k)
  BY DEF NoMore
<1>1. q \in members[k] /\ q \notin Struck(k)'
  BY DEF Counted
<1>2. q \in Struck(k) => q \in Struck(k)'
  BY DEF Struck, Others
<1> QED  BY <1>1, <1>2 DEF Counted

LEMMA QuietLimits ==
  ASSUME Inv, Inv', Limits, NEW p \in Player, h[p].pc # "kick_clear", Others(p), h'[p].pc \notin AgreePc,
         \A k \in GuildId : members'[k] \subseteq members[k],
         crowded' = crowded, ended \subseteq ended'
  PROVE  Limits'
<1>1. NoMore
  BY LessCounted
<1>2. NoneAgrees
  BY OthersAgree DEF Limits
<1> QED  BY <1>1, <1>2, LimitsStay DEF Inv

\* Where a handler is, once it has moved.
LEMMA MovesTo ==
  ASSUME HandlersType, NEW p \in Player
  PROVE  /\ \A b : Becomes(p, b) => Others(p) /\ h'[p] = b
         /\ \A from, to : At(p, from, to) => Others(p) /\ h[p].pc = from /\ h'[p].pc = to
         /\ \A t, pc : TakesNext(p, t, pc) => Others(p) /\ h'[p].pc \in {"idle", pc}
<1>1. \A b : Becomes(p, b) => Others(p) /\ h'[p] = b
  BY DEF Becomes, Others, HandlersType
<1>2. \A from, to : At(p, from, to) => Others(p) /\ h[p].pc = from /\ h'[p].pc = to
  BY DEF At, Others, HandlersType, Handlers
<1>3. ASSUME NEW t, NEW pc, TakesNext(p, t, pc)  PROVE Others(p) /\ h'[p].pc \in {"idle", pc}
  <2>1. CASE Becomes(p, Idle)
    BY <2>1, <1>1, IdleIs
  <2>2. CASE Becomes(p, Handler(pc, h[p].g, h[p].list \ {t}, NoPlayer))
    BY <2>2, <1>1 DEF Handler
  <2> QED  BY <2>1, <2>2, <1>3 DEF TakesNext
<1> QED  BY <1>1, <1>2, <1>3

LEMMA HandlerPc == \A pc, g, list, t : Handler(pc, g, list, t).pc = pc
BY DEF Handler

LEMMA GoverningLimits ==
  ASSUME Inv, Inv', Limits, NEW p \in Player,
         \/ \E t \in Player : KickChecks(p, t) \/ OfficerChecks(p, t)
         \/ OfficerSets(p) \/ ChangePresident(p) \/ ChangeOld(p) \/ ChangeNew(p)
         \/ CreateBegins(p) \/ CreatePosition(p) \/ Dismiss(p) \/ Cancel(p) \/ DissolveDeletes(p)
  PROVE  Limits'
<1> USE DEF AgreePc
<1>0. HandlersType
  BY DEF Inv, Types
<1>1. members' = members /\ crowded' = crowded /\ ended' = ended
  BY DEF KickChecks, OfficerChecks, OfficerSets, ChangePresident, ChangeOld, ChangeNew,
     CreateBegins, CreatePosition, Dismiss, Cancel, DissolveDeletes, rowVars, histVars
<1>2. ASSUME h[p].pc # "kick_clear", Others(p), h'[p].pc \notin AgreePc  PROVE Limits'
  BY <1>1, <1>2, QuietLimits
<1>3. ASSUME NEW t \in Player, KickChecks(p, t) \/ OfficerChecks(p, t)  PROVE Limits'
  <2>1. h[p].pc \in {"kick", "officer"}
    BY <1>3 DEF KickChecks, OfficerChecks
  <2>2. Others(p) /\ h'[p].pc \in {"idle", "kick", "officer", "kick_out", "officer_set"}
    BY <1>3, <1>0, MovesTo, HandlerPc DEF KickChecks, OfficerChecks
  <2> QED  BY <2>1, <2>2, <1>2
<1>4. CASE OfficerSets(p)
  <2>1. Others(p) /\ h[p].pc = "officer_set" /\ h'[p].pc \in {"idle", "officer"}
    BY <1>4, <1>0, MovesTo DEF OfficerSets
  <2> QED  BY <2>1, <1>2
<1>5. CASE ChangePresident(p) \/ ChangeOld(p) \/ DissolveDeletes(p)
  <2>1. /\ Others(p) /\ h[p].pc \in {"change", "change_old", "dissolve"}
        /\ h'[p].pc \in {"change_old", "change_new", "empty"}
    BY <1>5, <1>0, MovesTo DEF ChangePresident, ChangeOld, DissolveDeletes
  <2> QED  BY <2>1, <1>2
<1>6. CASE ChangeNew(p) \/ CreatePosition(p) \/ Dismiss(p) \/ Cancel(p)
  <2>1. Becomes(p, Idle) /\ h[p].pc \in {"change_new", "create_pos", "dismiss", "cancel"}
    BY <1>6 DEF ChangeNew, CreatePosition, Dismiss, Cancel
  <2>2. Others(p) /\ h'[p].pc = "idle"
    BY <2>1, <1>0, MovesTo, IdleIs
  <2> QED  BY <2>1, <2>2, <1>2
<1>7. CASE CreateBegins(p)
  <2>1. h[p].pc = "idle" /\ Becomes(p, Handler("create", NoGuild, {}, NoPlayer))
    BY <1>7, IdleIs DEF CreateBegins, Free
  <2>2. Others(p) /\ h'[p].pc = "create"
    BY <2>1, <1>0, MovesTo, HandlerPc
  <2> QED  BY <2>1, <2>2, <1>2
<1> QED  BY <1>3, <1>4, <1>5, <1>6, <1>7

LEMMA LeavingLimits ==
  ASSUME Inv, Inv', Limits, ~ late', NEW p \in Player,
         \/ QuitStrikes(p) \/ KickStrikes(p) \/ QuitClears(p) \/ KickClears(p)
         \/ \E g \in GuildId : DissolveBegins(p, g)
         \/ \E t \in Player : DissolveClears(p, t)
         \/ DissolveEmpties(p)
  PROVE  Limits'
<1> USE DEF AgreePc
<1>0. HandlersType /\ members \in [GuildId -> SUBSET Player]
  BY DEF Inv, Types, RowsType
<1>1. crowded' = crowded /\ ended \subseteq ended'
  BY DEF QuitStrikes, KickStrikes, QuitClears, KickClears, DissolveBegins, DissolveClears,
     DissolveEmpties, histVars
<1>2. \A k \in GuildId : members'[k] \subseteq members[k]
  BY <1>0 DEF QuitStrikes, KickStrikes, QuitClears, KickClears, DissolveBegins, DissolveClears,
     DissolveEmpties, Strike, rowVars
<1>3. ASSUME h[p].pc # "kick_clear", Others(p), h'[p].pc \notin AgreePc  PROVE Limits'
  BY <1>1, <1>2, <1>3, QuietLimits
<1>4. CASE QuitStrikes(p) \/ KickStrikes(p)
  <2>1. /\ Others(p) /\ h[p].pc \in {"quit", "kick_out"}
        /\ h'[p].pc \in {"quit_clear", "kick_clear"}
    BY <1>4, <1>0, MovesTo DEF QuitStrikes, KickStrikes
  <2> QED  BY <2>1, <1>3
<1>5. CASE QuitClears(p) \/ DissolveEmpties(p)
  <2>1. Becomes(p, Idle) /\ h[p].pc \in {"quit_clear", "empty"}
    BY <1>5 DEF QuitClears, DissolveEmpties
  <2>2. Others(p) /\ h'[p].pc = "idle"
    BY <2>1, <1>0, MovesTo, IdleIs
  <2> QED  BY <2>1, <2>2, <1>3
<1>6. CASE \E g \in GuildId : DissolveBegins(p, g)
  <2>1. PICK g \in GuildId : DissolveBegins(p, g)
    BY <1>6
  <2>2. h[p].pc = "idle" /\ Becomes(p, Handler("dissolve", g, members[g], NoPlayer))
    BY <2>1, IdleIs DEF DissolveBegins, Free
  <2>3. Others(p) /\ h'[p].pc = "dissolve"
    BY <2>2, <1>0, MovesTo, HandlerPc
  <2> QED  BY <2>2, <2>3, <1>3
<1>7. CASE \E t \in Player : DissolveClears(p, t)
  <2>1. h[p].pc = "dissolve" /\ \E t : h' = [h EXCEPT ![p].list = @ \ {t}]
    BY <1>7 DEF DissolveClears
  <2>2. Others(p) /\ h'[p].pc = "dissolve"
    BY <2>1, <1>0 DEF HandlersType, Handlers, Others
  <2> QED  BY <2>1, <2>2, <1>3
<1>8. CASE KickClears(p)
  <2>1. PICK t : t = h[p].t
    OBVIOUS
  <2>2. \A k \in GuildId : t \notin members[k]
    BY <1>8, <2>1 DEF KickClears, Clear, Late
  <2>3. Others(p) /\ h'[p].pc \in {"idle", "kick"}
    BY <1>8, <1>0, MovesTo DEF KickClears
  <2>4. NoMore
    <3> SUFFICES ASSUME NEW k \in GuildId, NEW q \in Counted(k)'  PROVE q \in Counted(k)
      BY DEF NoMore
    <3>1. q \in members[k] /\ q \notin Struck(k)' /\ q # t
      BY <1>2, <2>2 DEF Counted
    <3>2. q \in Struck(k) => q \in Struck(k)'
      BY <2>1, <2>3, <3>1 DEF Struck, Others
    <3> QED  BY <3>1, <3>2 DEF Counted
  <2>5. NoneAgrees
    BY <2>3, OthersAgree DEF Limits
  <2> QED  BY <2>4, <2>5, <1>1, LimitsStay DEF Inv
<1> QED  BY <1>4, <1>5, <1>6, <1>7, <1>8

\* Whom _get_guild puts back is one the kick of whom has yet to end.
LEMMA LookCounts ==
  ASSUME Inv, NEW p \in Player, NEW b \in BOOLEAN, GetGuildOf(p, b), ~ late',
         \A q \in Player \ {p} : h'[q] = h[q]
  PROVE  \A k \in GuildId \ ended : Counted(k)' \subseteq Counted(k)
<1>1. Types /\ Facts
  BY DEF Inv
<1>2. /\ guild_id[p] \in GuildId /\ h[p].pc = "idle" /\ LooksOnly(p, guild_id[p])
  BY <1>1, GetGuildDoes
<1>3. Sound
  BY <1>2 DEF Inv, LooksOnly
<1> SUFFICES ASSUME NEW k \in GuildId \ ended, NEW q \in Counted(k)'  PROVE q \in Counted(k)
  OBVIOUS
<1>4. q \in members'[k] /\ q \notin Struck(k)'
  BY DEF Counted
<1>5. q \in members[k] \/ (q = p /\ k = guild_id[p])
  BY <1>1, <1>2, <1>4 DEF LooksOnly, Types, RowsType
<1>6. \A r \in Player : r \in Struck(k) => r \in Struck(k)'
  BY <1>2 DEF Struck
<1>7. CASE q \in members[k]
  <2>1. q \in Player
    BY <1>1, <1>7 DEF Types, RowsType
  <2> QED  BY <1>4, <1>6, <1>7, <2>1 DEF Counted
<1>8. CASE q = p /\ k = guild_id[p] /\ p \notin members[k]
  <2>1. Between(p, k)
    BY <1>3, <1>8 DEF Sound, Agree
  <2>2. PICK r \in Player : h[r].pc \in Betweens /\ h[r].t = p /\ h[r].g = k
    BY <2>1 DEF Between, Betweens
  <2>3. h[r].pc # "agree_id"
    BY <2>2, <1>1, <1>2, Ids DEF Facts, JoinersAreFree
  <2>4. h[r].pc # "quit_clear"
    BY <2>2, <1>1, <1>2 DEF Facts, HandlersOK
  <2>5. p \in Struck(k)
    BY <2>2, <2>3, <2>4 DEF Struck, Betweens
  <2> QED  BY <2>5, <1>4, <1>6, <1>8
<1> QED  BY <1>5, <1>7, <1>8

LEMMA LookLimits ==
  ASSUME Inv, Inv', Limits, ~ late', NEW p \in Player,
         \/ Look(p) \/ QuitBegins(p) \/ DismissBegins(p) \/ CancelBegins(p)
         \/ \E list \in List : Refuse(p, list) \/ KickBegins(p, list) \/ OfficerBegins(p, list)
         \/ \E t \in Player : ChangeBegins(p, t)
  PROVE  Limits'
<1> USE DEF AgreePc
<1>0. HandlersType
  BY DEF Inv, Types
<1>1. /\ \E b \in BOOLEAN : GetGuildOf(p, b)
      /\ crowded' = crowded /\ ended' = ended
  BY DEF Look, QuitBegins, DismissBegins, CancelBegins, Refuse, KickBegins, OfficerBegins, ChangeBegins
<1>2. h[p].pc = "idle"
  BY <1>1, IdleIs DEF GetGuildOf, Free
<1>3. Others(p) /\ h'[p].pc \notin AgreePc
  <2>1. CASE h' = h
    BY <2>1, <1>2 DEF Others
  <2>2. ASSUME NEW pc \in {"quit", "dismiss", "cancel", "kick", "officer", "change"}, NEW g, NEW list, NEW t,
               Becomes(p, Handler(pc, g, list, t))
        PROVE  Others(p) /\ h'[p].pc \notin AgreePc
    <3>1. Others(p) /\ h'[p] = Handler(pc, g, list, t)
      BY <2>2, <1>0, MovesTo
    <3> QED  BY <3>1, HandlerPc
  <2> QED  BY <2>1, <2>2 DEF Look, QuitBegins, DismissBegins, CancelBegins, Refuse, KickBegins,
               OfficerBegins, ChangeBegins
<1>4. NoMore
  BY <1>1, <1>3, LookCounts DEF NoMore, Others
<1>5. NoneAgrees
  BY <1>3, OthersAgree DEF Limits
<1> QED  BY <1>1, <1>4, <1>5, LimitsStay DEF Inv

LEMMA RestLimits ==
  ASSUME Inv, Inv', Limits, \/ \E p \in Player, g \in GuildId : Ask(p, g)
                            \/ \E g \in GuildId : TimePasses(g)
                            \/ UNCHANGED vars
  PROVE  Limits'
<1>1. members' = members /\ h' = h /\ crowded' = crowded /\ ended' = ended
  BY DEF Ask, TimePasses, vars, playerVars, histVars
<1>2. NoMore
  BY <1>1 DEF NoMore, Counted, Struck
<1>3. NoneAgrees
  BY <1>1 DEF NoneAgrees, Pending, Limits, Listed
<1> QED  BY <1>1, <1>2, <1>3, LimitsStay DEF Inv

\* A handler of guild_agree_join with less on its list.
LEMMA AgreeLimits ==
  ASSUME Inv, Inv', Limits, NEW p \in Player,
         (\E t \in Player : AgreeChecks(p, t)) \/ AgreeIsTooLate(p) \/ AgreeSetsId(p)
  PROVE  Limits'
<1> USE DEF AgreePc
<1>1. HandlersType /\ h[p].g \in GuildId \cup {NoGuild} /\ h[p].list \in SUBSET Player
  BY HandlerFields DEF Inv, Types
<1>2. /\ members' = members /\ crowded' = crowded /\ ended' = ended
      /\ h[p].pc \in AgreePc
  BY DEF AgreeChecks, AgreeIsTooLate, AgreeSetsId, rowVars, histVars
<1>3. ASSUME Others(p), h'[p].pc \in AgreePc => /\ h'[p].g = h[p].g /\ Pending(p)' \subseteq Pending(p)
                                                /\ h'[p].pc \in {"agree_wait", "agree_id"}
                                                     => h'[p].t \in h'[p].list
      PROVE  Limits'
  <2>1. NoMore
    BY <1>2, <1>3, LessCounted
  <2>2. NoneAgrees
    <3> SUFFICES ASSUME NEW q \in Player, h'[q].pc \in AgreePc
                 PROVE  /\ h[q].pc \in AgreePc /\ h'[q].g = h[q].g /\ Pending(q)' \subseteq Pending(q)
                        /\ h'[q].pc \in {"agree_wait", "agree_id"} => h'[q].t \in h'[q].list
      BY DEF NoneAgrees
    <3>1. CASE q = p
      BY <3>1, <1>2, <1>3
    <3>2. CASE q # p
      BY <3>2, <1>3 DEF Others, Pending, Limits, Listed
    <3> QED  BY <3>1, <3>2
  <2> QED  BY <1>2, <2>1, <2>2, LimitsStay DEF Inv
<1>4. ASSUME NEW t, TakesNext(p, t, "agree"), h[p].pc = "agree_id" => t = h[p].t  PROVE Limits'
  <2>1. \/ Moves(p, "idle", NoGuild, {}, NoPlayer)
        \/ Moves(p, "agree", h[p].g, h[p].list \ {t}, NoPlayer)
    BY <1>1, <1>4, TakesNextDoes DEF Pc
  <2> QED  BY <2>1, <1>3, <1>4 DEF Moves, Pending
<1>5. CASE AgreeIsTooLate(p) \/ AgreeSetsId(p)
  <2>1. PICK t : t = h[p].t
    OBVIOUS
  <2> QED  BY <2>1, <1>4, <1>5 DEF AgreeIsTooLate, AgreeSetsId
<1>6. ASSUME NEW t \in Player, AgreeChecks(p, t)  PROVE Limits'
  <2>1. h[p].pc = "agree" /\ t \in h[p].list
    BY <1>6 DEF AgreeChecks
  <2>2. CASE TakesNext(p, t, "agree")
    BY <2>1, <2>2, <1>4
  <2>3. CASE Becomes(p, Handler("agree_wait", h[p].g, h[p].list, t))
    <3>1. "agree_wait" \in Pc
      BY DEF Pc
    <3>2. Moves(p, "agree_wait", h[p].g, h[p].list, t)
      BY <3>1, <2>3, <1>1, BecomesDoes
    <3> QED  BY <3>2, <2>1, <1>3 DEF Moves, Pending
  <2> QED  BY <2>2, <2>3, <1>6 DEF AgreeChecks
<1> QED  BY <1>5, <1>6

LEMMA AgreeBeginsLimits ==
  ASSUME Inv, Inv', Limits, ~ late', NEW p \in Player, NEW list \in List, AgreeBegins(p, list)
  PROVE  Limits'
<1> USE DEF AgreePc
<1>1. /\ Types /\ Types' /\ GetGuildOf(p, FALSE) /\ ended' = ended /\ list \in SUBSET Player
      /\ Becomes(p, Handler("agree", guild_id[p], list, NoPlayer))
      /\ Cardinality(members'[guild_id[p]]) + Cardinality(list) <= MemberNum
  BY DEF Inv, AgreeBegins, List
<1>2. guild_id[p] \in GuildId /\ h[p].pc = "idle"
  BY <1>1, GetGuildDoes
<1>3. PICK g \in GuildId : g = guild_id[p]
  BY <1>2
<1>4. /\ crowded \subseteq crowded'
      /\ (\E q \in Player : h[q].pc \in AgreePc /\ h[q].g = g) => g \in crowded'
  BY <1>3 DEF AgreeBegins
<1>5. Moves(p, "agree", g, list, NoPlayer)
  <2>1. "agree" \in Pc /\ NoPlayer \in Player \cup {NoPlayer} /\ g \in GuildId \cup {NoGuild}
    BY DEF Pc
  <2>2. Becomes(p, Handler("agree", g, list, NoPlayer))
    BY <1>1, <1>3
  <2> QED  BY <1>1, <2>1, <2>2, BecomesDoes DEF Types
<1>6. /\ h'[p].pc = "agree" /\ h'[p].g = g /\ h'[p].list = list
      /\ \A q \in Player \ {p} : h'[q] = h[q]
  BY <1>5 DEF Moves, Others
<1>7. \A k \in GuildId \ ended : Counted(k)' \subseteq Counted(k)
  BY <1>1, <1>6, LookCounts
<1>8. OneAgrees'
  BY <1>4, <1>6 DEF Limits, OneAgrees
<1>9. Listed'
  BY <1>6 DEF Limits, Listed
<1>10. \A k \in GuildId : Counted(k) \in SUBSET Player /\ Counted(k)' \in SUBSET Player
  BY <1>1 DEF Types, RowsType, Counted
<1>11. \A k \in GuildId \ (crowded \cup ended)' :
         /\ Cardinality(Counted(k)) \in Nat /\ Cardinality(Counted(k)') \in Nat
         /\ Cardinality(Counted(k)') <= Cardinality(Counted(k))
  BY <1>1, <1>7, <1>10, Fewer
<1>12. Room'
  <2> SUFFICES ASSUME NEW q \in Player, NEW k \in GuildId \ (crowded \cup ended)',
                      h'[q].pc \in AgreePc, h'[q].g = k
               PROVE  Cardinality(Counted(k)') + Cardinality(Pending(q)') <= MemberNum
    BY DEF Room
  <2>1. CASE q = p
    <3>1. k = g /\ Pending(q)' = list
      BY <2>1, <1>6 DEF Pending
    <3>2. Counted(g)' \subseteq members'[g] /\ members'[g] \in SUBSET Player
      BY <1>1 DEF Counted, Types, RowsType
    <3>3. /\ Cardinality(members'[g]) \in Nat /\ Cardinality(Counted(g)') \in Nat
          /\ Cardinality(Counted(g)') <= Cardinality(members'[g])
      BY <3>2, Fewer
    <3>4. Cardinality(list) \in Nat
      BY <1>1, Fewer
    <3>5. Cardinality(members'[g]) + Cardinality(list) <= MemberNum
      BY <1>1, <1>3
    <3>6. Cardinality(Counted(g)') + Cardinality(list) <= MemberNum
      BY <3>3, <3>4, <3>5, Ids
    <3> QED  BY <3>1, <3>6
  <2>2. CASE q # p
    <3>1. Pending(q)' = Pending(q) /\ h[q].pc \in AgreePc /\ h[q].g = k /\ k \notin crowded \cup ended
      BY <2>2, <1>1, <1>4, <1>6 DEF Pending
    <3>2. Cardinality(Counted(k)) + Cardinality(Pending(q)) <= MemberNum
      BY <3>1 DEF Limits, Room
    <3>3. Pending(q) \in SUBSET Player
      BY <1>1, HandlerFields DEF Pending, Types
    <3>4. Cardinality(Pending(q)) \in Nat
      BY <3>3, Fewer
    <3>5. Cardinality(Counted(k)') + Cardinality(Pending(q)) <= MemberNum
      BY <3>2, <3>4, <1>11, Ids
    <3> QED  BY <3>1, <3>5
  <2> QED  BY <2>1, <2>2
<1>13. Within'
  <2> SUFFICES ASSUME NEW k \in GuildId \ (crowded \cup ended)'
               PROVE  Cardinality(Counted(k)') <= MemberNum
    BY DEF Within
  <2>1. Cardinality(Counted(k)) <= MemberNum
    BY <1>1, <1>4 DEF Limits, Within
  <2> QED  BY <2>1, <1>11, Ids
<1> QED  BY <1>8, <1>9, <1>12, <1>13 DEF Limits

\* One more member, and one less to be added.
LEMMA AgreeAddsLimits ==
  ASSUME Inv, Inv', Limits, NEW p \in Player, AgreeAdds(p)
  PROVE  Limits'
<1> USE DEF AgreePc
<1>1. /\ Types /\ Types' /\ h[p].pc = "agree_wait" /\ h[p].t \in Player /\ h[p].g # NoGuild
  BY DEF Inv, AgreeAdds, Facts, HandlersOK, Picked
<1>2. PICK g \in GuildId : g = h[p].g
  BY <1>1, HandlerFields DEF Types
<1>3. PICK t \in Player : t = h[p].t
  BY <1>1
<1>4. /\ members' = [members EXCEPT ![g] = @ \cup {t}] /\ crowded' = crowded /\ ended' = ended
      /\ Becomes(p, Handler("agree_id", g, h[p].list, t))
  BY <1>2, <1>3 DEF AgreeAdds, histVars
<1>5. PICK list \in SUBSET Player : list = h[p].list
  BY <1>1, HandlerFields DEF Types
<1>6. Moves(p, "agree_id", g, list, t)
  <2>1. "agree_id" \in Pc /\ t \in Player \cup {NoPlayer} /\ g \in GuildId \cup {NoGuild}
    BY DEF Pc
  <2>2. Becomes(p, Handler("agree_id", g, list, t))
    BY <1>4, <1>5
  <2> QED  BY <1>1, <2>1, <2>2, BecomesDoes DEF Types
<1>7. /\ h'[p].pc = "agree_id" /\ h'[p].g = g /\ h'[p].list = list /\ h'[p].t = t
      /\ \A q \in Player \ {p} : h'[q] = h[q]
  BY <1>6 DEF Moves, Others
<1>8. t \in list
  BY <1>1, <1>3, <1>5 DEF Limits, Listed
<1>9. \A k \in GuildId : Struck(k) \subseteq Struck(k)'
  BY <1>1, <1>7 DEF Struck
<1>10. /\ Counted(g)' \subseteq Counted(g) \cup {t}
       /\ \A k \in GuildId : k # g => Counted(k)' \subseteq Counted(k)
  BY <1>1, <1>4, <1>9 DEF Counted, Types, RowsType
<1>11. \A k \in GuildId : Counted(k) \in SUBSET Player
  BY <1>1, CountedType
<1>12. /\ Cardinality(Counted(g)) \in Nat /\ Cardinality(Counted(g)') \in Nat
       /\ Cardinality(Counted(g)') <= Cardinality(Counted(g)) + 1
  BY <1>10, <1>11, OneMore
<1>13. /\ Cardinality(list) \in Nat /\ Cardinality(list \ {t}) \in Nat
       /\ Cardinality(list \ {t}) + 1 = Cardinality(list)
  BY <1>8, OneLess
<1>14. ASSUME g \notin crowded \cup ended
       PROVE  Cardinality(Counted(g)) + Cardinality(list) <= MemberNum
  <2>1. Pending(p) = list
    BY <1>1, <1>5 DEF Pending
  <2> QED  BY <2>1, <1>1, <1>2, <1>14 DEF Limits, Room
<1>15. OneAgrees'
  BY <1>1, <1>2, <1>4, <1>7 DEF Limits, OneAgrees
<1>16. Listed'
  BY <1>7, <1>8 DEF Limits, Listed
<1>17. Room'
  <2> SUFFICES ASSUME NEW q \in Player, NEW k \in GuildId \ (crowded \cup ended),
                      h'[q].pc \in AgreePc, h'[q].g = k
               PROVE  Cardinality(Counted(k)') + Cardinality(Pending(q)') <= MemberNum
    BY <1>4 DEF Room
  <2>1. CASE q = p
    <3>1. k = g /\ Pending(q)' = list \ {t}
      BY <2>1, <1>7 DEF Pending
    <3>2. Cardinality(Counted(g)) + Cardinality(list) <= MemberNum
      BY <3>1, <1>14
    <3>3. Cardinality(Counted(g)') + Cardinality(list \ {t}) <= MemberNum
      BY <3>2, <1>12, <1>13, Ids
    <3> QED  BY <3>1, <3>3
  <2>2. CASE q # p
    <3>1. Pending(q)' = Pending(q) /\ h[q].pc \in AgreePc /\ h[q].g = k
      BY <2>2, <1>7 DEF Pending
    <3>2. k # g
      BY <3>1, <2>2, <1>1, <1>2 DEF Limits, OneAgrees
    <3>3. Cardinality(Counted(k)) + Cardinality(Pending(q)) <= MemberNum
      BY <3>1 DEF Limits, Room
    <3>4. /\ Cardinality(Counted(k)) \in Nat /\ Cardinality(Counted(k)') \in Nat
          /\ Cardinality(Counted(k)') <= Cardinality(Counted(k))
      BY <3>2, <1>10, <1>11, Fewer
    <3>5. Pending(q) \in SUBSET Player
      BY <1>1, HandlerFields DEF Pending, Types
    <3>6. Cardinality(Pending(q)) \in Nat
      BY <3>5, Fewer
    <3>7. Cardinality(Counted(k)') + Cardinality(Pending(q)) <= MemberNum
      BY <3>3, <3>4, <3>6, Ids
    <3> QED  BY <3>1, <3>7
  <2> QED  BY <2>1, <2>2
<1>18. Within'
  <2> SUFFICES ASSUME NEW k \in GuildId \ (crowded \cup ended)
               PROVE  Cardinality(Counted(k)') <= MemberNum
    BY <1>4 DEF Within
  <2>1. CASE k = g
    <3>1. Cardinality(Counted(g)) + Cardinality(list) <= MemberNum
      BY <2>1, <1>14
    <3>2. Cardinality(Counted(g)') <= MemberNum
      BY <3>1, <1>12, <1>13, Ids
    <3> QED  BY <2>1, <3>2
  <2>2. CASE k # g
    <3>1. /\ Cardinality(Counted(k)) \in Nat /\ Cardinality(Counted(k)') \in Nat
          /\ Cardinality(Counted(k)') <= Cardinality(Counted(k))
      BY <2>2, <1>10, <1>11, Fewer
    <3>2. Cardinality(Counted(k)) <= MemberNum
      BY DEF Limits, Within
    <3> QED  BY <3>1, <3>2, Ids
  <2> QED  BY <2>1, <2>2
<1> QED  BY <1>15, <1>16, <1>17, <1>18 DEF Limits

LEMMA CreateRowLimits ==
  ASSUME Inv, Inv', Limits, NEW p \in Player, CreateRow(p)
  PROVE  Limits'
<1> USE DEF AgreePc
<1>1. /\ Types /\ Types' /\ Facts /\ h[p].pc = "create" /\ crowded' = crowded /\ ended' = ended
      /\ next_id' = next_id + 1 /\ members' = [members EXCEPT ![next_id + 1] = {p}]
  BY DEF Inv, CreateRow, histVars
<1>2. h'[p].pc = "create_pos" /\ Others(p)
  BY <1>1, MovesTo, HandlerPc DEF CreateRow, Types
<1>3. PICK g \in Nat : g = next_id + 1
  BY <1>1 DEF Types, RowsType
<1>4. \A k \in GuildId : k # g => Counted(k)' \subseteq Counted(k)
  BY <1>1, <1>2, <1>3 DEF Counted, Struck, Others, Types, RowsType
<1>5. g \in GuildId => Counted(g)' \subseteq {p}
  BY <1>1, <1>3 DEF Counted, Types, RowsType
<1>6. NoneAgrees
  BY <1>2, OthersAgree DEF Limits
<1>7. \A q \in Player : h[q].g # g
  <2>1. next_id \in Nat
    BY <1>1 DEF Types, RowsType
  <2>2. \A q \in Player : h[q].g \in GuildId \cup {NoGuild} /\ h[q].g <= next_id
    BY <1>1, HandlerFields DEF Types, Facts, HandlersOK
  <2>3. \A q \in Player : h[q].g \in Nat
    BY <2>2, GuildAssumption DEF GuildId, NoGuild
  <2> QED  BY <2>1, <2>2, <2>3, <1>3
<1>8. \A k \in GuildId : k # g =>
        /\ Cardinality(Counted(k)) \in Nat /\ Cardinality(Counted(k)') \in Nat
        /\ Cardinality(Counted(k)') <= Cardinality(Counted(k))
  <2> SUFFICES ASSUME NEW k \in GuildId, k # g
               PROVE  /\ Cardinality(Counted(k)) \in Nat /\ Cardinality(Counted(k)') \in Nat
                      /\ Cardinality(Counted(k)') <= Cardinality(Counted(k))
    OBVIOUS
  <2>1. Counted(k)' \subseteq Counted(k) /\ Counted(k) \in SUBSET Player
    BY <1>1, <1>4, CountedType
  <2> QED  BY <2>1, Fewer
<1>9. OneAgrees' /\ Listed'
  BY <1>1, <1>6 DEF Limits, OneAgrees, NoneAgrees, Listed
<1>10. Room'
  <2> SUFFICES ASSUME NEW q \in Player, NEW k \in GuildId \ (crowded \cup ended),
                      h'[q].pc \in AgreePc, h'[q].g = k
               PROVE  Cardinality(Counted(k)') + Cardinality(Pending(q)') <= MemberNum
    BY <1>1 DEF Room
  <2>1. h'[q] = h[q]
    BY <1>2 DEF Others
  <2>2. k # g /\ Pending(q)' = Pending(q)
    BY <2>1, <1>7 DEF Pending
  <2>3. Cardinality(Counted(k)) + Cardinality(Pending(q)) <= MemberNum
    BY <2>1 DEF Limits, Room
  <2>4. Pending(q) \in SUBSET Player
    BY <1>1, HandlerFields DEF Pending, Types
  <2>5. Cardinality(Pending(q)) \in Nat
    BY <2>4, Fewer
  <2>6. Cardinality(Counted(k)') + Cardinality(Pending(q)) <= MemberNum
    BY <2>2, <2>3, <2>5, <1>8, Ids
  <2> QED  BY <2>2, <2>6
<1>11. Within'
  <2> SUFFICES ASSUME NEW k \in GuildId \ (crowded \cup ended)
               PROVE  Cardinality(Counted(k)') <= MemberNum
    BY <1>1 DEF Within
  <2>1. CASE k = g
    <3>1. /\ Cardinality(Counted(k)') <= Cardinality({p}) /\ Cardinality({p}) = 1
          /\ Cardinality(Counted(k)') \in Nat
      BY <2>1, <1>5, Fewer, FS_Singleton
    <3> QED  BY <3>1, GuildAssumption
  <2>2. CASE k # g
    <3>1. Cardinality(Counted(k)) <= MemberNum
      BY DEF Limits, Within
    <3> QED  BY <2>2, <3>1, <1>8, Ids
  <2> QED  BY <2>1, <2>2
<1> QED  BY <1>9, <1>10, <1>11 DEF Limits

LEMMA InitLimits == Init => Limits
<1> SUFFICES ASSUME Init  PROVE Limits
  OBVIOUS
<1>1. \A p \in Player : h[p].pc = "idle"
  BY IdleIs DEF Init
<1>2. OneAgrees /\ Listed /\ Room
  BY <1>1 DEF OneAgrees, Listed, Room, AgreePc
<1>3. Within
  <2>1. \A g \in GuildId : Counted(g) = {}
    BY DEF Init, Counted
  <2> QED  BY <2>1, FS_EmptySet, GuildAssumption DEF Within
<1> QED  BY <1>2, <1>3 DEF Limits

\* What is late stays late.
LEMMA LateStays ==
  ASSUME [Next]_vars, ~ late'
  PROVE  ~ late
<1>1. ASSUME NEW p \in Player, NEW b, GetGuildOf(p, b)  PROVE ~ late
  BY <1>1 DEF GetGuildOf, Late
<1>2. ASSUME NEW p \in Player, Joining(p)  PROVE ~ late
  BY <1>1, <1>2 DEF Joining, CreateBegins, CreateRow, CreatePosition, Ask, Refuse, AgreeBegins,
     AgreeChecks, AgreeAdds, AgreeIsTooLate, AgreeSetsId, SetPosition, Late, histVars
<1>3. ASSUME NEW p \in Player, Leaving(p)  PROVE ~ late
  BY <1>1, <1>3 DEF Leaving, QuitBegins, QuitStrikes, QuitClears, KickBegins, KickChecks, KickStrikes,
     KickClears, Clear, Late, histVars
<1>4. ASSUME NEW p \in Player, Governing(p)  PROVE ~ late
  BY <1>1, <1>4 DEF Governing, OfficerBegins, OfficerChecks, ChangeBegins, OfficerSets,
     ChangePresident, ChangeOld, ChangeNew, Look, SetPosition, Late, histVars
<1>5. ASSUME NEW p \in Player, Ending(p)  PROVE ~ late
  BY <1>1, <1>5 DEF Ending, DismissBegins, Dismiss, CancelBegins, Cancel, DissolveBegins,
     DissolveClears, DissolveDeletes, DissolveEmpties, Late, histVars
<1>6. CASE (\E g \in GuildId : TimePasses(g)) \/ UNCHANGED vars
  BY <1>6 DEF TimePasses, vars, histVars
<1> QED  BY <1>2, <1>3, <1>4, <1>5, <1>6 DEF Next

LEMMA NextLimits == Inv /\ Inv' /\ (~ late => Limits) /\ [Next]_vars => (~ late' => Limits')
<1> SUFFICES ASSUME Inv, Inv', ~ late => Limits, [Next]_vars, ~ late'  PROVE Limits'
  OBVIOUS
<1>1. Limits
  BY LateStays
<1>2. ASSUME NEW p \in Player, Joining(p)  PROVE Limits'
  BY <1>1, <1>2, RestLimits, GoverningLimits, LookLimits, AgreeBeginsLimits, AgreeAddsLimits,
     AgreeLimits, CreateRowLimits DEF Joining
<1>3. ASSUME NEW p \in Player, Leaving(p)  PROVE Limits'
  BY <1>1, <1>3, LookLimits, LeavingLimits, GoverningLimits DEF Leaving
<1>4. ASSUME NEW p \in Player, Governing(p)  PROVE Limits'
  BY <1>1, <1>4, LookLimits, GoverningLimits DEF Governing
<1>5. ASSUME NEW p \in Player, Ending(p)  PROVE Limits'
  BY <1>1, <1>5, LookLimits, GoverningLimits, LeavingLimits DEF Ending
<1>6. CASE (\E g \in GuildId : TimePasses(g)) \/ UNCHANGED vars
  BY <1>1, <1>6, RestLimits
<1> QED  BY <1>2, <1>3, <1>4, <1>5, <1>6 DEF Next

\* No more members than the guild's level allows, though a list of new members is
\* counted once, before its loop (guild_agree_join), unless two lists are agreed at a
\* time or a store is late.
THEOREM LimitCorrect == Spec => []MembersWithinLimit
<1> DEFINE Limited == ~ late => Limits
<1>1. Init => Limited
  BY InitLimits
<1>2. Inv /\ Inv' /\ Limited /\ [Next]_vars => Limited'
  BY NextLimits
<1>3. Limited => MembersWithinLimit
  BY DEF Limits, Within, Counted, MembersWithinLimit
<1> HIDE DEF Limited
<1> QED  BY <1>1, <1>2, <1>3, Invariance, PTL DEF Spec

=============================================================================
