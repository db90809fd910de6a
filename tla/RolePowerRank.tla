---------------------------- MODULE RolePowerRank ----------------------------
(***************************************************************************)
(* A player's roles by power (hall_server/player_role_power_rank.go): each *)
(* handler that changes a role ranks it anew in role_power_ranklist, and   *)
(* when one of the first TopNum places is touched, their sum goes to       *)
(* rank_list_mgr, where expeditions find enemies of the player's strength. *)
(* The player's requests are handled one at a time.                        *)
(*                                                                         *)
(* MaxNum is MaxRoleCount, TopNum is MAX_ROLES_POWER_NUM_TO_RANK_ITEM.     *)
(* What is told to rank_list_mgr is kept as the powers that are added up.  *)
(***************************************************************************)
EXTENDS ShortRankList, FiniteSets

CONSTANTS
  TopNum,
  MaxUnranked,   \* bound: roles changed and not ranked at a time
  MaxIntruders   \* bound: keys ranked while they are no role

ASSUME RolePowerRankAssumption ==
  /\ TopNum \in Nat \ {0}
  /\ MaxUnranked \in Nat
  /\ MaxIntruders \in Nat

VARIABLES
  roles,        \* the rows of db.Roles
  power,        \* role -> what role_update_suit_attr_power would make of its row, 0 for none
  to_load,      \* the roles LoadRolesPowerRankData has still to rank
  loaded,       \* new_player_with_db has returned
  told_powers,  \* rank -> the power last told to rank_list_mgr for it
  unranked,     \* history: the roles that have changed and have not been ranked
  intruders     \* history: the keys that were ranked while they were no role

powerVars == <<items, curr_num, keys_map, roles, power, to_load, loaded, told_powers, unranked,
               intruders>>

PowerTypeOK ==
  /\ TypeOK
  /\ roles \subseteq Key
  /\ power \in [Key -> Value]
  /\ to_load \subseteq roles
  /\ loaded \in BOOLEAN
  /\ told_powers \in [1..TopNum -> Value]
  /\ unranked \subseteq roles
  /\ intruders \subseteq Key

-----------------------------------------------------------------------------
(* Telling rank_list_mgr *)

\* GetByRank of the first ranks.
TopPowers == [r \in 1..TopNum |-> IF curr_num < r THEN 0 ELSE items[r - 1].value]

\* _update_roles_power_rank_info tells nothing when all is gone.
Tell == told_powers' = IF \E r \in 1..TopNum : TopPowers'[r] > 0 THEN TopPowers' ELSE told_powers

\* GetRank is 0 for a role that is not in the list.
OnTop(k) == keys_map[k] + 1 \in 1..TopNum

\* A slip: only a role that is among the first now matters, not one that was.
UpdateOfTheNewRankOnly(k, p) ==
  /\ Update(k, p, FALSE)
  /\ IF OnTop(k)' THEN Tell ELSE told_powers' = told_powers
  /\ unranked' = unranked \ {k}

\* p is the power role_update_suit_attr_power has just found.
UpdateRolePowerRank(k, p) ==
  /\ Update(k, p, FALSE)
  /\ IF OnTop(k) \/ OnTop(k)' THEN Tell ELSE told_powers' = told_powers
  /\ unranked' = unranked \ {k}

DeleteRolePowerRank(k) ==
  /\ Delete(k) \/ (~ Has(k) /\ UNCHANGED listVars)
  /\ IF OnTop(k) THEN Tell ELSE told_powers' = told_powers

-----------------------------------------------------------------------------
(* Loading, and the handlers that change a role *)

\* At the start of the server: roles without power are not ranked.
LoadRole(k) ==
  /\ k \in to_load
  /\ to_load' = to_load \ {k}
  /\ IF power[k] > 0 THEN Update(k, power[k], FALSE) ELSE UNCHANGED listVars
  /\ UNCHANGED <<roles, power, loaded, told_powers, unranked, intruders>>

LoadEnd ==
  /\ ~ loaded /\ to_load = {}
  /\ loaded' = TRUE
  /\ UNCHANGED <<listVars, roles, power, to_load, unranked, intruders>>
  /\ Tell

\* A slip: the limit of the bag is not asked for.
NewRoleInFullBag(k, p) ==
  /\ loaded /\ k \notin roles
  /\ roles' = roles \cup {k}
  /\ power' = [power EXCEPT ![k] = p]
  /\ UpdateRolePowerRank(k, p)
  /\ UNCHANGED <<to_load, loaded, intruders>>

\* new_role, rand_role: in a full bag nothing comes of it but pieces.
NewRole(k, p) ==
  /\ loaded /\ k \notin roles
  /\ Cardinality(roles) < MaxNum
  /\ roles' = roles \cup {k}
  /\ power' = [power EXCEPT ![k] = p]
  /\ UpdateRolePowerRank(k, p)
  /\ UNCHANGED <<to_load, loaded, intruders>>

\* A level, a rank, the equipment, another card by fusion.
ChangeRole(k, p) ==
  /\ loaded /\ k \in roles
  /\ power' = [power EXCEPT ![k] = p]
  /\ UpdateRolePowerRank(k, p)
  /\ UNCHANGED <<roles, to_load, loaded, intruders>>

\* role_displace_confirm and role_left_slot_upgrade_save leave the rank as it is.
ChangeRoleUnranked(k, p) ==
  /\ loaded /\ k \in roles
  /\ Cardinality(unranked \cup {k}) <= MaxUnranked
  /\ power' = [power EXCEPT ![k] = p]
  /\ unranked' = unranked \cup {k}
  /\ UNCHANGED <<listVars, roles, to_load, loaded, told_powers, intruders>>

\* item_upgrade of ordinary equipment ranks the role the request names, whether there is
\* one or not: p is 0, or what roles_power still holds of a role that has gone, or the
\* power of a friend's assistant.
RankStranger(k, p) ==
  /\ loaded /\ k \notin roles
  /\ Cardinality(intruders) < MaxIntruders
  /\ UpdateRolePowerRank(k, p)
  /\ intruders' = IF Has(k)' THEN intruders \cup {k} ELSE intruders
  /\ UNCHANGED <<roles, power, to_load, loaded>>

delete_role(k) ==
  /\ loaded /\ k \in roles
  /\ roles' = roles \ {k}
  /\ power' = [power EXCEPT ![k] = 0]
  /\ unranked' = unranked \ {k}
  /\ DeleteRolePowerRank(k)
  /\ UNCHANGED <<to_load, loaded, intruders>>

-----------------------------------------------------------------------------
PowerInit ==
  /\ Init
  /\ roles \in SUBSET Key
  /\ IsFiniteSet(roles) /\ Cardinality(roles) <= MaxNum
  /\ power \in [Key -> Value]
  /\ \A k \in Key \ roles : power[k] = 0
  /\ to_load = roles
  /\ loaded = FALSE
  /\ told_powers = [r \in 1..TopNum |-> 0]
  /\ unranked = {}
  /\ intruders = {}

PowerNext ==
  \/ \E k \in Key : LoadRole(k)
  \/ LoadEnd
  \/ \E k \in Key, p \in Value : NewRole(k, p)
  \/ \E k \in Key, p \in Value : ChangeRole(k, p)
  \/ \E k \in Key, p \in Value : ChangeRoleUnranked(k, p)
  \/ \E k \in Key, p \in Value : RankStranger(k, p)
  \/ \E k \in Key : delete_role(k)

PowerSpec == PowerInit /\ [][PowerNext]_powerVars

-----------------------------------------------------------------------------
(* Properties *)

\* What rank_list_mgr has been told is what the list holds on its first places, while
\* there is anything there: also when a role has left them and another moved up, which
\* only the rank from before the change shows.
TopIsTold ==
  loaded /\ (\E r \in 1..TopNum : TopPowers[r] > 0) => told_powers = TopPowers

\* The roles that are not ranked with the power they have, but for those that
\* role_displace_confirm and role_left_slot_upgrade_save have changed: neither ranks them.
Missing == {k \in roles \ (to_load \cup unranked) : ValueOf[k] # power[k]}

\* The list's places are as many as the bag has, and every role that has gone has left it.
\* So whatever handler touched a role last, it is ranked with the power it has, and nobody
\* is ranked who is no role, but for what item_upgrade has ranked without looking: those
\* keys stay, and for each of them at most one role finds no place.
RolesAreRanked ==
  loaded => /\ \A k \in Missing : ~ Has(k)
            /\ Cardinality(Missing) <= Cardinality(intruders)
            /\ \A k \in Key \ roles : Has(k) => k \in intruders
=============================================================================
