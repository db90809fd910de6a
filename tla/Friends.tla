------------------------------- MODULE Friends -------------------------------
(***************************************************************************)
(* Friendships of a hall (player_friend.go): asking, agreeing, refusing    *)
(* and removing. A friendship is two rows, one with each player, and the   *)
(* handler of either player writes both; the message lock of a player      *)
(* keeps his own handlers apart and nobody else's, so the rows of a player *)
(* are written by his handler and by those of others side by side. Each    *)
(* access of a row takes its lock, no lock spans two.                      *)
(***************************************************************************)
EXTENDS Naturals, FiniteSets

CONSTANTS
  Player,       \* players
  NoPlayer,     \* no player
  FriendMaxNum, \* global_config.FriendMaxNum
  MaxAsks       \* bound: players asked, one by one or together

ASSUME FriendsAssumption ==
  /\ IsFiniteSet(Player)
  /\ NoPlayer \notin Player
  /\ FriendMaxNum \in Nat \ {0}
  /\ MaxAsks \in Nat

VARIABLES
  friends,      \* keys of db.Friends of each player
  friend_asks,  \* keys of db.FriendAsks of each player
  talk,         \* where the handler of each player is, about whom, who is left
  asked,        \* history: players asked so far
  tangled,      \* history: pairs of which one was removing while one was adding
  crowded       \* history: players whom two handlers were adding to at a time

friendVars == <<friends, friend_asks, talk, asked, tangled, crowded>>

JoinStages == {"agree", "add_other", "add_own"}
PartStages == {"remove_own", "remove_other"}
Talks == [pc : {"idle", "ask", "drop_ask"} \cup JoinStages \cup PartStages,
          with : Player \cup {NoPlayer}, left : SUBSET Player]

TalkOf(place, f, ids) == [pc |-> place, with |-> f, left |-> ids]
Silent == TalkOf("idle", NoPlayer, {})

FriendsInit ==
  /\ friends = [p \in Player |-> {}]
  /\ friend_asks = [p \in Player |-> {}]
  /\ talk = [p \in Player |-> Silent]
  /\ asked = 0
  /\ tangled = {}
  /\ crowded = {}

Stage(p) == talk[p].pc
With(p)  == talk[p].with

\* A handler begins, for the ids a client has sent.
Opens(p, place, ids) ==
  /\ Stage(p) = "idle"
  /\ ids # {}
  /\ talk' = [talk EXCEPT ![p] = TalkOf(place, NoPlayer, ids)]

Moves(p, place) == talk' = [talk EXCEPT ![p] = TalkOf(place, @.with, @.left)]

\* The handler turns to f ...
TurnsTo(p, f, place) ==
  talk' = [talk EXCEPT ![p] = TalkOf(place, f, @.left \ {f})]

\* ... and is done with him; after the last one it ends.
IsDone(p, place) ==
  talk' = [talk EXCEPT ![p] = IF @.left = {} THEN Silent
                                             ELSE TalkOf(place, NoPlayer, @.left)]

\* It is done with f at once.
PassesOver(p, f) ==
  talk' = [talk EXCEPT ![p] = IF @.left = {f} THEN Silent
                                              ELSE TalkOf(@.pc, NoPlayer, @.left \ {f})]

-----------------------------------------------------------------------------

\* friend_ask: none of them is a friend, none has been asked. That a player
\* asks himself is not looked at.
Ask(p, ids) ==
  /\ Opens(p, "ask", ids)
  /\ asked' = asked + Cardinality(ids)
  /\ asked' <= MaxAsks
  /\ \A f \in ids : f \notin friends[p] /\ p \notin friend_asks[f]
  /\ UNCHANGED <<friends, friend_asks>>

AddAsk(p, f) ==
  /\ Stage(p) = "ask"
  /\ f \in talk[p].left
  /\ friend_asks' = [friend_asks EXCEPT ![f] = @ \cup {p}]
  /\ PassesOver(p, f)
  /\ UNCHANGED friends

\* agree_friend_ask: room for all of them, and all have asked.
Agree(p, ids) ==
  /\ Opens(p, "agree", ids)
  /\ Cardinality(friends[p]) + Cardinality(ids) <= FriendMaxNum
  /\ ids \subseteq friend_asks[p]
  /\ UNCHANGED <<friends, friend_asks>>

\* The other one's number of friends; without room he is passed over and his
\* ask stays.
CheckOther(p, f) ==
  /\ Stage(p) = "agree"
  /\ f \in talk[p].left
  /\ IF Cardinality(friends[f]) < FriendMaxNum
     THEN TurnsTo(p, f, "add_other")
     ELSE PassesOver(p, f)
  /\ UNCHANGED <<friends, friend_asks>>

AddToOther(p) ==
  /\ Stage(p) = "add_other"
  /\ friends' = [friends EXCEPT ![With(p)] = @ \cup {p}]
  /\ Moves(p, "add_own")
  /\ UNCHANGED friend_asks

AddToOwn(p) ==
  /\ Stage(p) = "add_own"
  /\ friends' = [friends EXCEPT ![p] = @ \cup {With(p)}]
  /\ Moves(p, "drop_ask")
  /\ UNCHANGED friend_asks

DropAsk(p) ==
  /\ Stage(p) = "drop_ask"
  /\ friend_asks' = [friend_asks EXCEPT ![p] = @ \ {With(p)}]
  /\ IsDone(p, "agree")
  /\ UNCHANGED friends

\* refuse_friend_ask: only the player's own handler takes from his list.
Refuse(p, ids) ==
  /\ Stage(p) = "idle"
  /\ ids # {}
  /\ ids \subseteq friend_asks[p]
  /\ friend_asks' = [friend_asks EXCEPT ![p] = @ \ ids]
  /\ UNCHANGED <<friends, talk>>

\* remove_friend: all of them are friends.
Remove(p, ids) ==
  /\ Opens(p, "remove_own", ids)
  /\ ids \subseteq friends[p]
  /\ UNCHANGED <<friends, friend_asks>>

RemoveOwn(p, f) ==
  /\ Stage(p) = "remove_own"
  /\ f \in talk[p].left
  /\ friends' = [friends EXCEPT ![p] = @ \ {f}]
  /\ TurnsTo(p, f, "remove_other")
  /\ UNCHANGED friend_asks

\* A slip: the other one's row stays.
RemoveOtherNever(p) ==
  /\ Stage(p) = "remove_other"
  /\ IsDone(p, "remove_own")
  /\ UNCHANGED <<friends, friend_asks>>

RemoveOther(p) ==
  /\ Stage(p) = "remove_other"
  /\ friends' = [friends EXCEPT ![With(p)] = @ \ {p}]
  /\ IsDone(p, "remove_own")
  /\ UNCHANGED friend_asks

FriendStep(p) ==
  \/ \E ids \in SUBSET Player : Ask(p, ids)
  \/ /\ \/ \E ids \in SUBSET Player : Agree(p, ids) \/ Refuse(p, ids) \/ Remove(p, ids)
        \/ \E f \in Player : AddAsk(p, f) \/ CheckOther(p, f) \/ RemoveOwn(p, f)
        \/ AddToOther(p) \/ AddToOwn(p) \/ DropAsk(p) \/ RemoveOther(p)
     /\ UNCHANGED asked

\* A handler at one of the places has f before it or at hand.
Concerns(p, places, f) == Stage(p) \in places /\ f \in talk[p].left \cup {With(p)}

AtPair(places, p, f) == Concerns(p, places, f) \/ Concerns(f, places, p)

\* p's own handler will yet add to his friends and has counted them.
AddsOwn(p) == Stage(p) \in JoinStages \/ (Stage(p) = "drop_ask" /\ talk[p].left # {})

\* All handlers that will.
AddingTo(p) ==
  {q \in Player : IF q = p THEN AddsOwn(p) ELSE Stage(q) = "add_other" /\ With(q) = p}

FriendsNext ==
  /\ \E p \in Player : FriendStep(p)
  /\ tangled' = tangled \cup {pair \in Player \X Player :
                              /\ AtPair(JoinStages, pair[1], pair[2])'
                              /\ AtPair(PartStages, pair[1], pair[2])'}
  /\ crowded' = crowded \cup {p \in Player : Cardinality(AddingTo(p)') >= 2}

FriendsSpec == FriendsInit /\ [][FriendsNext]_friendVars

-----------------------------------------------------------------------------
(* Properties                                                              *)

\* Every variable of the friendships (player_friend.go) has its type.
FriendsTypeOK ==
  /\ friends \in [Player -> SUBSET Player]
  /\ friend_asks \in [Player -> SUBSET Player]
  /\ talk \in [Player -> Talks]
  /\ asked \in 0 .. MaxAsks
  /\ tangled \subseteq Player \X Player
  /\ crowded \subseteq Player

\* A friendship has both its rows or none, whatever handlers the two have run side
\* by side, once none of them is at it (agree_friend_ask, remove_friend): two
\* agreements or two removals do no harm. It does not hold when one was removing
\* the other while one of them was adding (tangled).
FriendshipsAreMutual ==
  \A p, f \in Player :
    \/ f \in friends[p] <=> p \in friends[f]
    \/ AtPair({"add_own", "remove_other"}, p, f)
    \/ <<p, f>> \in tangled

\* Nobody has more friends than FriendMaxNum, though others add to his list: it
\* does not hold when two handlers had counted before either had added (crowded).
FriendsWithinLimit ==
  \A p \in Player \ crowded : Cardinality(friends[p]) <= FriendMaxNum
=============================================================================
