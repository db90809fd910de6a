------------------------------ MODULE FriendBoss ------------------------------
(***************************************************************************)
(* The boss of one player that his friends and he fight (player_friend.go, *)
(* player_campaign.go, player_battle.go): the owner's search, which brings *)
(* a new boss, and the challenges, kept apart from each other by           *)
(* fighing_friend_boss but not from the search. The stages of bosses in    *)
(* game_data/Stage.xml have one wave each.                                 *)
(***************************************************************************)
EXTENDS Naturals, FiniteSets

CONSTANTS
  Challenger,   \* players who fight the boss
  Monster,      \* positions of a boss's monsters
  MaxBosses,    \* bound: bosses found
  MaxSweep      \* fights of a sweep

ASSUME FriendBossAssumption ==
  /\ Monster # {}
  /\ MaxBosses \in Nat \ {0}
  /\ MaxSweep \in Nat \ {0}

VARIABLES
  search,       \* where the owner's search is
  boss_id,      \* FriendBossTableId is not 0
  refreshed,    \* LastBossRefreshTime is not 0
  monsters,     \* keys of db.FriendBosss
  coming,       \* monsters the search has still to add
  fighting,     \* fighing_friend_boss
  fight,        \* where each challenger is
  found,        \* history: bosses found so far, the last one is of this number
  beaten,       \* history: monsters that fell in a fight with the boss
  rewarded,     \* history: last hits rewarded
  early         \* history: bosses met by a challenger while the search went on

bossVars == <<search, boss_id, refreshed, monsters, coming, fighting, fight,
              found, beaten, rewarded, early>>

Boss == 1 .. MaxBosses

\* The local variable win is TRUE at won, gone and reward.
Fights == [pc : {"idle", "read", "init", "fight", "cancel", "won", "gone", "reward"},
           todo : 0 .. MaxSweep, team : SUBSET Monster, boss : 0 .. MaxBosses]

FightAt(place, n, team, b) ==
  [pc |-> place, todo |-> n, team |-> team, boss |-> b]

NoFight == FightAt("idle", 0, {}, 0)

BossInit ==
  /\ search = "idle"
  /\ boss_id = FALSE
  /\ refreshed = FALSE
  /\ monsters = {}
  /\ coming = {}
  /\ fighting = FALSE
  /\ fight = [c \in Challenger |-> NoFight]
  /\ found = 0
  /\ beaten = [b \in Boss |-> {}]
  /\ rewarded = [b \in Boss |-> 0]
  /\ early = {}

searchVars == <<search, refreshed, coming, found>>

-----------------------------------------------------------------------------
(* friend_search_boss.                                                     *)

\* No boss is there and the cool down is over; by chance the search brings an
\* item instead and the end of the search, not a boss.
Search ==
  /\ search = "idle"
  /\ ~ boss_id
  /\ \/ /\ search' = "end"
        /\ UNCHANGED <<boss_id, found>>
     \/ /\ found < MaxBosses
        /\ search' = "clear"
        /\ boss_id' = TRUE
        /\ found' = found + 1
  /\ UNCHANGED <<refreshed, monsters, coming, fighting, fight, beaten, rewarded, early>>

\* The monsters of the boss before go, the new ones come one by one; between
\* these steps anyone may look.
ClearMonsters ==
  /\ search = "clear"
  /\ search' = "add"
  /\ monsters' = {}
  /\ coming' = Monster
  /\ UNCHANGED <<boss_id, refreshed, fighting, fight, found, beaten, rewarded, early>>

AddMonster ==
  /\ search = "add"
  /\ \E m \in coming :
       /\ monsters' = monsters \cup {m}
       /\ coming' = coming \ {m}
  /\ search' = IF coming' = {} THEN "end" ELSE "add"
  /\ UNCHANGED <<boss_id, refreshed, fighting, fight, found, beaten, rewarded, early>>

\* SetLastBossRefreshTime.
EndSearch ==
  /\ search = "end"
  /\ search' = "idle"
  /\ refreshed' = TRUE
  /\ UNCHANGED <<boss_id, monsters, coming, fighting, fight, found, beaten, rewarded, early>>

-----------------------------------------------------------------------------
(* friend_boss_challenge.                                                  *)

FightGoes(c, place) == fight' = [fight EXCEPT ![c] = FightAt(place, @.todo, @.team, @.boss)]

\* A slip: that someone is fighting is not looked at.
TryFightAnyway(c) ==
  /\ fight[c].pc = "idle"
  /\ refreshed
  /\ fighting' = TRUE
  /\ \E n \in 1 .. MaxSweep :
       fight' = [fight EXCEPT ![c] = FightAt("read", n, {}, 0)]
  /\ UNCHANGED <<searchVars, boss_id, monsters, beaten, rewarded, early>>

\* can_friend_boss_to_fight: CompareAndSwap 0 -> 1.
TryFight(c) ==
  /\ fight[c].pc = "idle"
  /\ refreshed
  /\ ~ fighting
  /\ fighting' = TRUE
  /\ \E n \in 1 .. MaxSweep :
       fight' = [fight EXCEPT ![c] = FightAt("read", n, {}, 0)]
  /\ UNCHANGED <<searchVars, boss_id, monsters, beaten, rewarded, early>>

\* Is there a boss? A challenger without the stamina is turned away as well.
ReadBoss(c) ==
  /\ fight[c].pc = "read"
  /\ \/ /\ boss_id
        /\ fight' = [fight EXCEPT ![c] = FightAt("init", @.todo, @.team, found)]
     \/ FightGoes(c, "cancel")
  /\ UNCHANGED <<searchVars, boss_id, monsters, fighting, beaten, rewarded, early>>

\* InitWithStage: the monsters that are there; the challenger's own team may be
\* found empty, which ends the challenge.
InitTeam(c) ==
  /\ fight[c].pc = "init"
  /\ \/ /\ fight' = [fight EXCEPT ![c] = FightAt("fight", @.todo, monsters, @.boss)]
        /\ early' = IF search \in {"clear", "add"} THEN early \cup {fight[c].boss} ELSE early
     \/ /\ FightGoes(c, "cancel")
        /\ UNCHANGED early
  /\ UNCHANGED <<searchVars, boss_id, monsters, fighting, beaten, rewarded>>

FightEnds(c, place, n) ==
  fight' = [fight EXCEPT ![c] = FightAt(place, n, {}, @.boss)]

\* Fight, UpdateFriendBossHP: the dead leave db.FriendBosss. It is won when
\* nobody of the other team is alive, unless nobody of the own one is either:
\* then the next fight finds no monsters and is won.
Fight(c) ==
  /\ fight[c].pc = "fight"
  /\ \E dead \in SUBSET fight[c].team :
       /\ monsters' = monsters \ dead
       /\ beaten' = [beaten EXCEPT ![fight[c].boss] = @ \cup dead]
       /\ \/ /\ dead = fight[c].team
             /\ FightEnds(c, "won", 0)
          \/ /\ fight[c].todo > 1
             /\ FightEnds(c, "init", fight[c].todo - 1)
          \/ /\ fight[c].todo = 1
             /\ FightEnds(c, "cancel", 0)
  /\ UNCHANGED <<searchVars, boss_id, fighting, rewarded, early>>

\* SetFriendBossTableId(0); a sweep ends here too.
BossGone(c) ==
  /\ fight[c].pc = "won"
  /\ boss_id' = FALSE
  /\ FightGoes(c, "gone")
  /\ UNCHANGED <<searchVars, monsters, fighting, beaten, rewarded, early>>

\* cancel_friend_boss_fight.
CancelFight(c) ==
  /\ fighting' = FALSE
  /\ \/ fight[c].pc = "cancel" /\ fight' = [fight EXCEPT ![c] = NoFight]
     \/ fight[c].pc = "gone" /\ FightGoes(c, "reward")
  /\ UNCHANGED <<searchVars, boss_id, monsters, beaten, rewarded, early>>

\* The rewards of the last hit and of the owner.
Reward(c) ==
  /\ fight[c].pc = "reward"
  /\ rewarded' = [rewarded EXCEPT ![fight[c].boss] = @ + 1]
  /\ fight' = [fight EXCEPT ![c] = NoFight]
  /\ UNCHANGED <<searchVars, boss_id, monsters, fighting, beaten, early>>

ChallengeStep(c) ==
  \/ TryFight(c) \/ ReadBoss(c) \/ InitTeam(c) \/ Fight(c) \/ BossGone(c)
  \/ CancelFight(c) \/ Reward(c)

BossNext ==
  \/ Search \/ ClearMonsters \/ AddMonster \/ EndSearch
  \/ \E c \in Challenger : ChallengeStep(c)

BossSpec == BossInit /\ [][BossNext]_bossVars

-----------------------------------------------------------------------------
(* Properties                                                              *)

\* Every variable of the boss and its challenges (player_friend.go) has its type.
BossTypeOK ==
  /\ search \in {"idle", "clear", "add", "end"}
  /\ boss_id \in BOOLEAN
  /\ refreshed \in BOOLEAN
  /\ fighting \in BOOLEAN
  /\ monsters \subseteq Monster /\ coming \subseteq Monster
  /\ fight \in [Challenger -> Fights]
  /\ found \in 0 .. MaxBosses
  /\ beaten \in [Boss -> SUBSET Monster]
  /\ rewarded \in [Boss -> Nat]
  /\ early \subseteq 0 .. MaxBosses

\* A boss is rewarded once, and only when all its monsters have fallen, in however
\* many fights and by whomever (friend_boss_challenge). That they have fallen does
\* not hold for a boss that was met while the search had its id set and its
\* monsters not yet in place (early): whoever finds no monsters has won.
BossFallsOnce ==
  \A b \in Boss :
    /\ rewarded[b] <= 1
    /\ rewarded[b] = 1 /\ b \notin early => beaten[b] = Monster
=============================================================================
