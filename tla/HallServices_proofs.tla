------------------------ MODULE HallServices_proofs -------------------------
(***************************************************************************)
(* Friends: types, both rows of a friendship or none, and the limit of     *)
(* friends, for any players, limit and number of asks. The boss of a       *)
(* player: types, and that a boss is rewarded once and only when its       *)
(* monsters have fallen, for any number of challengers, monsters, bosses   *)
(* and fights of a sweep. Purchases: types, orders credited once, card     *)
(* holders who stay with the manager and the mails of cards, for any       *)
(* players, orders, purchases, days and bounds. Last, these components and *)
(* those around a login put together (MCServices): together they do what   *)
(* each of them does alone.                                                *)
(***************************************************************************)
EXTENDS MCServices, Logins_proofs, PlayerData_proofs, FiniteSetTheorems, TLAPS

(***************************************************************************)
(* What a step does to the talks of the players.                           *)
(***************************************************************************)

OnlyTalk(p, t) ==
  /\ t \in Talks
  /\ talk'[p] = t
  /\ \A q \in Player \ {p} : talk'[q] = talk[q]
  /\ talk' \in [Player -> Talks]

LEMMA TalkFields ==
  ASSUME talk \in [Player -> Talks], NEW p \in Player
  PROVE  /\ talk[p].pc \in {"idle", "ask", "drop_ask"} \cup JoinStages \cup PartStages
         /\ talk[p].with \in Player \cup {NoPlayer}
         /\ talk[p].left \subseteq Player
         /\ talk[p] = TalkOf(talk[p].pc, talk[p].with, talk[p].left)
BY DEF Talks, TalkOf

LEMMA TalkReplaced ==
  ASSUME talk \in [Player -> Talks], NEW p \in Player, NEW t \in Talks,
         talk' = [talk EXCEPT ![p] = t]
  PROVE  OnlyTalk(p, t)
BY DEF OnlyTalk

LEMMA SilentType == Silent \in Talks /\ Silent = TalkOf("idle", NoPlayer, {})
BY DEF Silent, Talks, TalkOf

LEMMA OpensDoes ==
  ASSUME talk \in [Player -> Talks], NEW p \in Player, NEW ids \in SUBSET Player,
         NEW place \in {"ask", "agree", "remove_own"}, Opens(p, place, ids)
  PROVE  OnlyTalk(p, TalkOf(place, NoPlayer, ids))
<1> DEFINE t == TalkOf(place, NoPlayer, ids)
<1>1. t \in Talks
  BY DEF Talks, TalkOf, JoinStages, PartStages
<1> QED  BY <1>1, TalkReplaced DEF Opens

LEMMA MovesDoes ==
  ASSUME talk \in [Player -> Talks], NEW p \in Player, NEW place \in {"add_own", "drop_ask"},
         Moves(p, place)
  PROVE  OnlyTalk(p, TalkOf(place, talk[p].with, talk[p].left))
<1> DEFINE t == TalkOf(place, talk[p].with, talk[p].left)
<1>1. t \in Talks
  BY TalkFields DEF Talks, TalkOf, JoinStages, PartStages
<1>2. talk' = [talk EXCEPT ![p] = t]
  BY DEF Moves
<1> QED  BY <1>1, <1>2, TalkReplaced

LEMMA TurnsToDoes ==
  ASSUME talk \in [Player -> Talks], NEW p \in Player, NEW f \in Player,
         NEW place \in {"add_other", "remove_other"}, TurnsTo(p, f, place)
  PROVE  OnlyTalk(p, TalkOf(place, f, talk[p].left \ {f}))
<1> DEFINE t == TalkOf(place, f, talk[p].left \ {f})
<1>1. t \in Talks
  BY TalkFields DEF Talks, TalkOf, JoinStages, PartStages
<1>2. talk' = [talk EXCEPT ![p] = t]
  BY DEF TurnsTo
<1> QED  BY <1>1, <1>2, TalkReplaced

LEMMA IsDoneDoes ==
  ASSUME talk \in [Player -> Talks], NEW p \in Player,
         NEW place \in {"agree", "remove_own"}, IsDone(p, place)
  PROVE  \/ OnlyTalk(p, TalkOf("idle", NoPlayer, {}))
         \/ OnlyTalk(p, TalkOf(place, NoPlayer, talk[p].left))
<1> DEFINE t == TalkOf(place, NoPlayer, talk[p].left)
<1>1. t \in Talks
  BY TalkFields DEF Talks, TalkOf, JoinStages, PartStages
<1>2. talk' = [talk EXCEPT ![p] = Silent] \/ talk' = [talk EXCEPT ![p] = t]
  BY DEF IsDone
<1> QED  BY <1>1, <1>2, SilentType, TalkReplaced

LEMMA PassesOverDoes ==
  ASSUME talk \in [Player -> Talks], NEW p \in Player, NEW f \in Player, PassesOver(p, f)
  PROVE  \/ OnlyTalk(p, TalkOf("idle", NoPlayer, {}))
         \/ OnlyTalk(p, TalkOf(talk[p].pc, NoPlayer, talk[p].left \ {f}))
<1> DEFINE t == TalkOf(talk[p].pc, NoPlayer, talk[p].left \ {f})
<1>1. t \in Talks
  BY TalkFields DEF Talks, TalkOf
<1>2. talk' = [talk EXCEPT ![p] = Silent] \/ talk' = [talk EXCEPT ![p] = t]
  BY DEF PassesOver
<1> QED  BY <1>1, <1>2, SilentType, TalkReplaced

(***************************************************************************)
(* Types.                                                                  *)
(***************************************************************************)

LEMMA CountIsNat == \A ids \in SUBSET Player : IsFiniteSet(ids) /\ Cardinality(ids) \in Nat
BY FriendsAssumption, FS_Subset, FS_CardinalityType

LEMMA FriendsTypeInit == FriendsInit => FriendsTypeOK
BY FriendsAssumption, SilentType DEF FriendsInit, FriendsTypeOK

RowsOK ==
  /\ friends \in [Player -> SUBSET Player]
  /\ friend_asks \in [Player -> SUBSET Player]
  /\ talk \in [Player -> Talks]

\* Whom a handler is about to add, forget or remove.
HandlersKnowWhom ==
  \A p \in Player :
    Stage(p) \in {"add_other", "add_own", "drop_ask", "remove_other"} => With(p) # NoPlayer

LEMMA HandlersKnowStep ==
  ASSUME RowsOK, HandlersKnowWhom, NEW p \in Player, FriendStep(p)
  PROVE  HandlersKnowWhom'
<1> USE FriendsAssumption DEF HandlersKnowWhom, Stage, With
<1>1. ASSUME NEW t, OnlyTalk(p, t),
             t.pc \in {"add_other", "add_own", "drop_ask", "remove_other"} => t.with # NoPlayer
      PROVE  HandlersKnowWhom'
  BY <1>1 DEF OnlyTalk
<1>2. ASSUME NEW ids \in SUBSET Player, NEW place \in {"ask", "agree", "remove_own"},
             Opens(p, place, ids)
      PROVE  HandlersKnowWhom'
  BY <1>1, <1>2, OpensDoes DEF RowsOK, TalkOf
<1>3. ASSUME NEW f \in Player, PassesOver(p, f), Stage(p) \in {"ask", "agree"}
      PROVE  HandlersKnowWhom'
  BY <1>1, <1>3, PassesOverDoes DEF RowsOK, TalkOf
<1>4. ASSUME NEW f \in Player, NEW place \in {"add_other", "remove_other"},
             TurnsTo(p, f, place)
      PROVE  HandlersKnowWhom'
  <2>1. OnlyTalk(p, TalkOf(place, f, talk[p].left \ {f}))
    BY <1>4, TurnsToDoes DEF RowsOK
  <2>2. TalkOf(place, f, talk[p].left \ {f}).with = f /\ f # NoPlayer
    BY DEF TalkOf
  <2> QED  BY <1>1, <2>1, <2>2
<1>5. ASSUME NEW place \in {"add_own", "drop_ask"}, Moves(p, place),
             Stage(p) \in {"add_other", "add_own"}
      PROVE  HandlersKnowWhom'
  BY <1>1, <1>5, MovesDoes DEF RowsOK, TalkOf
<1>6. ASSUME NEW place \in {"agree", "remove_own"}, IsDone(p, place)
      PROVE  HandlersKnowWhom'
  BY <1>1, <1>6, IsDoneDoes DEF RowsOK, TalkOf
<1>7. ASSUME NEW ids \in SUBSET Player, Refuse(p, ids) PROVE HandlersKnowWhom'
  BY <1>7 DEF Refuse
<1> QED  BY <1>2, <1>3, <1>4, <1>5, <1>6, <1>7
         DEF FriendStep, Ask, Agree, Remove, AddAsk, CheckOther, RemoveOwn, AddToOther,
             AddToOwn, DropAsk, RemoveOther

LEMMA RowsStep ==
  ASSUME RowsOK, HandlersKnowWhom, NEW p \in Player, FriendStep(p) PROVE RowsOK'
<1> USE DEF RowsOK
<1>1. ASSUME NEW ids \in SUBSET Player, Ask(p, ids) PROVE RowsOK'
  BY <1>1, OpensDoes DEF Ask, OnlyTalk
<1>2. ASSUME NEW ids \in SUBSET Player, Agree(p, ids) PROVE RowsOK'
  BY <1>2, OpensDoes DEF Agree, OnlyTalk
<1>3. ASSUME NEW ids \in SUBSET Player, Refuse(p, ids) PROVE RowsOK'
  BY <1>3 DEF Refuse
<1>4. ASSUME NEW ids \in SUBSET Player, Remove(p, ids) PROVE RowsOK'
  BY <1>4, OpensDoes DEF Remove, OnlyTalk
<1>5. ASSUME NEW f \in Player, AddAsk(p, f) PROVE RowsOK'
  BY <1>5, PassesOverDoes DEF AddAsk, OnlyTalk
<1>6. ASSUME NEW f \in Player, CheckOther(p, f) PROVE RowsOK'
  <2>1. CASE Cardinality(friends[f]) < FriendMaxNum
    BY <1>6, <2>1, TurnsToDoes DEF CheckOther, OnlyTalk
  <2>2. CASE ~ (Cardinality(friends[f]) < FriendMaxNum)
    BY <1>6, <2>2, PassesOverDoes DEF CheckOther, OnlyTalk
  <2> QED  BY <2>1, <2>2
<1>7. ASSUME NEW f \in Player, RemoveOwn(p, f) PROVE RowsOK'
  BY <1>7, TurnsToDoes DEF RemoveOwn, OnlyTalk
<1>8. CASE AddToOther(p)
  BY <1>8, MovesDoes DEF AddToOther, OnlyTalk
<1>9. CASE AddToOwn(p)
  <2>1. With(p) \in Player
    BY <1>9, TalkFields DEF AddToOwn, HandlersKnowWhom, With
  <2> QED  BY <1>9, <2>1, MovesDoes DEF AddToOwn, OnlyTalk
<1>10. CASE DropAsk(p)
  BY <1>10, IsDoneDoes DEF DropAsk, OnlyTalk
<1>11. CASE RemoveOther(p)
  BY <1>11, IsDoneDoes DEF RemoveOther, OnlyTalk
<1> QED  BY <1>1, <1>2, <1>3, <1>4, <1>5, <1>6, <1>7, <1>8, <1>9, <1>10, <1>11
         DEF FriendStep

LEMMA AskedStep == ASSUME FriendsTypeOK, FriendsNext PROVE asked' \in 0 .. MaxAsks
<1>1. PICK p \in Player : FriendStep(p)
  BY DEF FriendsNext
<1>2. ASSUME NEW ids \in SUBSET Player, Ask(p, ids) PROVE asked' \in 0 .. MaxAsks
  BY <1>2, CountIsNat, FriendsAssumption DEF Ask, FriendsTypeOK
<1>3. CASE UNCHANGED asked
  BY <1>3 DEF FriendsTypeOK
<1> QED  BY <1>1, <1>2, <1>3 DEF FriendStep

LEMMA FriendsTypeStep ==
  FriendsTypeOK /\ HandlersKnowWhom /\ [FriendsNext]_friendVars
    => FriendsTypeOK' /\ HandlersKnowWhom'
<1> SUFFICES ASSUME FriendsTypeOK, HandlersKnowWhom, [FriendsNext]_friendVars
             PROVE  FriendsTypeOK' /\ HandlersKnowWhom'
  OBVIOUS
<1>1. CASE FriendsNext
  <2>1. RowsOK' /\ HandlersKnowWhom'
    BY <1>1, RowsStep, HandlersKnowStep DEF FriendsNext, FriendsTypeOK, RowsOK
  <2>2. tangled' \subseteq Player \X Player /\ crowded' \subseteq Player
    BY <1>1 DEF FriendsNext, FriendsTypeOK
  <2> QED  BY <1>1, <2>1, <2>2, AskedStep DEF FriendsTypeOK, RowsOK
<1>2. CASE UNCHANGED friendVars
  BY <1>2 DEF friendVars, FriendsTypeOK, HandlersKnowWhom, Stage, With
<1> QED  BY <1>1, <1>2

LEMMA HandlersKnowInit == FriendsInit => HandlersKnowWhom
BY SilentType DEF FriendsInit, HandlersKnowWhom, Stage, With, TalkOf

\* Every variable of the friendships has its type (player_friend.go); what is
\* added to a list of friends is a player.
THEOREM FriendsTypeCorrect == FriendsSpec => []FriendsTypeOK
BY FriendsTypeInit, HandlersKnowInit, FriendsTypeStep, PTL DEF FriendsSpec

(***************************************************************************)
(* Both rows of a friendship or none. Between the two rows that it writes  *)
(* a handler relies on the first one, which only a handler of the opposite *)
(* purpose could undo; then the pair is tangled.                           *)
(***************************************************************************)

TangledKnown ==
  /\ \A p, f \in Player : AtPair(JoinStages, p, f) /\ AtPair(PartStages, p, f)
                            => <<p, f>> \in tangled
  /\ \A p, f \in Player : <<p, f>> \in tangled => <<f, p>> \in tangled

Between(p, f) == Stage(p) \in {"add_own", "remove_other"} /\ With(p) = f

RowsAgree ==
  \A p, f \in Player :
    \/ <<p, f>> \in tangled
    \/ f \in friends[p] <=> p \in friends[f]
    \/ Between(p, f)
    \/ Between(f, p)

FirstRowStands ==
  \A p, f \in Player :
    With(p) = f /\ <<p, f>> \notin tangled
      => /\ Stage(p) = "add_own" => p \in friends[f]
         /\ Stage(p) = "remove_other" => f \notin friends[p]

MutualInv ==
  /\ FriendsTypeOK
  /\ HandlersKnowWhom
  /\ TangledKnown
  /\ RowsAgree
  /\ FirstRowStands

LEMMA TangledKnownStep == TangledKnown /\ FriendsNext => TangledKnown'
BY DEF FriendsNext, TangledKnown, AtPair, Concerns, Stage, With

\* A handler that neither comes to the gap between two rows nor leaves it.
LEMMA ElsewhereMutual ==
  ASSUME MutualInv, NEW p \in Player, friends' = friends, tangled \subseteq tangled',
         Stage(p) \notin {"add_own", "remove_other"},
         Stage(p)' \notin {"add_own", "remove_other"},
         \A q \in Player \ {p} : talk'[q] = talk[q]
  PROVE  RowsAgree' /\ FirstRowStands'
BY DEF MutualInv, RowsAgree, FirstRowStands, Between, Stage, With

LEMMA AddToOtherMutual ==
  ASSUME MutualInv, NEW p \in Player, AddToOther(p), TangledKnown', tangled \subseteq tangled'
  PROVE  RowsAgree' /\ FirstRowStands'
<1> DEFINE g == With(p)
<1>1. /\ talk'[p].pc = "add_own" /\ talk'[p].with = g
      /\ \A q \in Player \ {p} : talk'[q] = talk[q]
  <2>1. OnlyTalk(p, TalkOf("add_own", talk[p].with, talk[p].left))
    BY MovesDoes DEF MutualInv, FriendsTypeOK, AddToOther
  <2> QED  BY <2>1 DEF OnlyTalk, TalkOf, With
<1>2. g \in Player
  BY TalkFields DEF MutualInv, FriendsTypeOK, HandlersKnowWhom, AddToOther, With
<1>3. /\ p \in friends'[g]
      /\ \A a, b \in Player : b \in friends'[a] <=> b \in friends[a] \/ (a = g /\ b = p)
  BY <1>2 DEF AddToOther, MutualInv, FriendsTypeOK
<1>4. RowsAgree'
  <2> SUFFICES ASSUME NEW a \in Player, NEW b \in Player, <<a, b>> \notin tangled',
                      ~ Between(a, b)', ~ Between(b, a)'
               PROVE  b \in friends'[a] <=> a \in friends'[b]
    BY DEF RowsAgree
  <2>1. CASE (a = p /\ b = g) \/ (a = g /\ b = p)
    BY <1>1, <1>3, <2>1 DEF Between, Stage, With
  <2>2. CASE ~ (a = p /\ b = g) /\ ~ (a = g /\ b = p)
    <3>1. ~ Between(a, b) /\ ~ Between(b, a)
      BY <1>1, <1>3, <2>2 DEF Between, Stage, With, AddToOther
    <3>2. b \in friends[a] <=> a \in friends[b]
      BY <3>1 DEF MutualInv, RowsAgree
    <3> QED  BY <1>1, <1>3, <2>2, <3>2
  <2> QED  BY <2>1, <2>2
<1>5. FirstRowStands'
  <2> SUFFICES ASSUME NEW a \in Player, NEW b \in Player,
                      With(a)' = b, <<a, b>> \notin tangled'
               PROVE  /\ Stage(a)' = "add_own" => a \in friends'[b]
                      /\ Stage(a)' = "remove_other" => b \notin friends'[a]
    BY DEF FirstRowStands
  <2>1. CASE a = p
    BY <1>1, <1>3, <2>1 DEF Stage, With
  <2>2. CASE a # p /\ ~ (a = g /\ b = p)
    BY <1>1, <1>3, <2>2 DEF MutualInv, FirstRowStands, Stage, With
  <2>3. CASE a # p /\ a = g /\ b = p
    <3>1. Stage(a)' = "remove_other" => <<a, b>> \in tangled'
      <4>1. TangledKnown' /\ Stage(p)' = "add_own" /\ With(p)' = a /\ With(a)' = p
        BY <1>1, <2>3 DEF Stage, With
      <4> QED  BY <4>1, <2>3 DEF TangledKnown, AtPair, Concerns, JoinStages, PartStages
    <3> QED  BY <1>1, <1>3, <2>3, <3>1 DEF MutualInv, FirstRowStands, Stage, With
  <2> QED  BY <2>1, <2>2, <2>3
<1> QED  BY <1>4, <1>5

LEMMA AddToOwnMutual ==
  ASSUME MutualInv, NEW p \in Player, AddToOwn(p), tangled \subseteq tangled'
  PROVE  RowsAgree' /\ FirstRowStands'
<1> DEFINE g == With(p)
<1>1. /\ talk'[p].pc = "drop_ask" /\ talk'[p].with = g
      /\ \A q \in Player \ {p} : talk'[q] = talk[q]
  <2>1. OnlyTalk(p, TalkOf("drop_ask", talk[p].with, talk[p].left))
    BY MovesDoes DEF MutualInv, FriendsTypeOK, AddToOwn
  <2> QED  BY <2>1 DEF OnlyTalk, TalkOf, With
<1>2. /\ Stage(p) = "add_own"
      /\ g \in Player
  BY TalkFields DEF MutualInv, FriendsTypeOK, HandlersKnowWhom, AddToOwn, With
<1>3. \A a, b \in Player : b \in friends'[a] <=> b \in friends[a] \/ (a = p /\ b = g)
  BY <1>2 DEF AddToOwn, MutualInv, FriendsTypeOK
<1>4. <<p, g>> \notin tangled => p \in friends[g]
  BY <1>2 DEF MutualInv, FirstRowStands
<1>5. <<g, p>> \in tangled <=> <<p, g>> \in tangled
  BY <1>2 DEF MutualInv, TangledKnown
<1>6. RowsAgree'
  <2> SUFFICES ASSUME NEW a \in Player, NEW b \in Player, <<a, b>> \notin tangled',
                      ~ Between(a, b)', ~ Between(b, a)'
               PROVE  b \in friends'[a] <=> a \in friends'[b]
    BY DEF RowsAgree
  <2>1. CASE (a = p /\ b = g) \/ (a = g /\ b = p)
    BY <1>1, <1>2, <1>3, <1>4, <1>5, <2>1 DEF Between, Stage, With
  <2>2. CASE ~ (a = p /\ b = g) /\ ~ (a = g /\ b = p)
    <3>1. ~ Between(a, b) /\ ~ Between(b, a)
      BY <1>1, <1>2, <1>3, <1>4, <1>5, <2>2 DEF Between, Stage, With
    <3>2. b \in friends[a] <=> a \in friends[b]
      BY <3>1 DEF MutualInv, RowsAgree
    <3> QED  BY <1>1, <1>2, <1>3, <1>4, <1>5, <2>2, <3>2
  <2> QED  BY <2>1, <2>2
<1>7. FirstRowStands'
  BY <1>1, <1>2, <1>3 DEF MutualInv, FirstRowStands, Stage, With
<1> QED  BY <1>6, <1>7

LEMMA RemoveOwnMutual ==
  ASSUME MutualInv, NEW p \in Player, NEW f \in Player, RemoveOwn(p, f),
         TangledKnown', tangled \subseteq tangled'
  PROVE  RowsAgree' /\ FirstRowStands'
<1>1. /\ talk'[p].pc = "remove_other" /\ talk'[p].with = f
      /\ \A q \in Player \ {p} : talk'[q] = talk[q]
  <2>1. OnlyTalk(p, TalkOf("remove_other", f, talk[p].left \ {f}))
    BY TurnsToDoes DEF MutualInv, FriendsTypeOK, RemoveOwn
  <2> QED  BY <2>1 DEF OnlyTalk, TalkOf
<1>2. \A a, b \in Player : b \in friends'[a] <=> b \in friends[a] /\ ~ (a = p /\ b = f)
  BY DEF RemoveOwn, MutualInv, FriendsTypeOK
<1>3. RowsAgree'
  <2> SUFFICES ASSUME NEW a \in Player, NEW b \in Player, <<a, b>> \notin tangled',
                      ~ Between(a, b)', ~ Between(b, a)'
               PROVE  b \in friends'[a] <=> a \in friends'[b]
    BY DEF RowsAgree
  <2>1. CASE (a = p /\ b = f) \/ (a = f /\ b = p)
    BY <1>1, <1>2, <2>1 DEF Between, Stage, With
  <2>2. CASE ~ (a = p /\ b = f) /\ ~ (a = f /\ b = p)
    <3>1. ~ Between(a, b) /\ ~ Between(b, a)
      BY <1>1, <1>2, <2>2 DEF Between, Stage, With, RemoveOwn
    <3>2. b \in friends[a] <=> a \in friends[b]
      BY <3>1 DEF MutualInv, RowsAgree
    <3> QED  BY <1>1, <1>2, <2>2, <3>2
  <2> QED  BY <2>1, <2>2
<1>4. FirstRowStands'
  <2> SUFFICES ASSUME NEW a \in Player, NEW b \in Player,
                      With(a)' = b, <<a, b>> \notin tangled'
               PROVE  /\ Stage(a)' = "add_own" => a \in friends'[b]
                      /\ Stage(a)' = "remove_other" => b \notin friends'[a]
    BY DEF FirstRowStands
  <2>1. CASE a = p
    BY <1>1, <1>2, <2>1 DEF Stage, With
  <2>2. CASE a # p /\ ~ (a = f /\ b = p)
    BY <1>1, <1>2, <2>2 DEF MutualInv, FirstRowStands, Stage, With
  <2>3. CASE a # p /\ a = f /\ b = p
    <3>1. Stage(a)' = "add_own" => <<a, b>> \in tangled'
      <4>1. TangledKnown' /\ Stage(p)' = "remove_other" /\ With(p)' = a /\ With(a)' = p
        BY <1>1, <2>3 DEF Stage, With
      <4> QED  BY <4>1, <2>3 DEF TangledKnown, AtPair, Concerns, JoinStages, PartStages
    <3> QED  BY <1>1, <1>2, <2>3, <3>1 DEF MutualInv, FirstRowStands, Stage, With
  <2> QED  BY <2>1, <2>2, <2>3
<1> QED  BY <1>3, <1>4

LEMMA RemoveOtherMutual ==
  ASSUME MutualInv, NEW p \in Player, RemoveOther(p), tangled \subseteq tangled'
  PROVE  RowsAgree' /\ FirstRowStands'
<1> DEFINE g == With(p)
<1>1. /\ talk'[p].pc \notin {"add_own", "remove_other"}
      /\ \A q \in Player \ {p} : talk'[q] = talk[q]
  <2>1. \/ OnlyTalk(p, TalkOf("idle", NoPlayer, {}))
        \/ OnlyTalk(p, TalkOf("remove_own", NoPlayer, talk[p].left))
    BY IsDoneDoes DEF RemoveOther, MutualInv, FriendsTypeOK
  <2> QED  BY <2>1 DEF OnlyTalk, TalkOf
<1>2. /\ Stage(p) = "remove_other"
      /\ g \in Player
  BY TalkFields DEF MutualInv, FriendsTypeOK, HandlersKnowWhom, RemoveOther, With
<1>3. \A a, b \in Player : b \in friends'[a] <=> b \in friends[a] /\ ~ (a = g /\ b = p)
  BY <1>2 DEF RemoveOther, MutualInv, FriendsTypeOK
<1>4. <<p, g>> \notin tangled => g \notin friends[p]
  BY <1>2 DEF MutualInv, FirstRowStands
<1>5. <<g, p>> \in tangled <=> <<p, g>> \in tangled
  BY <1>2 DEF MutualInv, TangledKnown
<1>6. RowsAgree'
  <2> SUFFICES ASSUME NEW a \in Player, NEW b \in Player, <<a, b>> \notin tangled',
                      ~ Between(a, b)', ~ Between(b, a)'
               PROVE  b \in friends'[a] <=> a \in friends'[b]
    BY DEF RowsAgree
  <2>1. CASE (a = p /\ b = g) \/ (a = g /\ b = p)
    BY <1>1, <1>2, <1>3, <1>4, <1>5, <2>1 DEF Between, Stage, With
  <2>2. CASE ~ (a = p /\ b = g) /\ ~ (a = g /\ b = p)
    <3>1. ~ Between(a, b) /\ ~ Between(b, a)
      BY <1>1, <1>2, <1>3, <1>4, <1>5, <2>2 DEF Between, Stage, With
    <3>2. b \in friends[a] <=> a \in friends[b]
      BY <3>1 DEF MutualInv, RowsAgree
    <3> QED  BY <1>1, <1>2, <1>3, <1>4, <1>5, <2>2, <3>2
  <2> QED  BY <2>1, <2>2
<1>7. FirstRowStands'
  BY <1>1, <1>2, <1>3 DEF MutualInv, FirstRowStands, Stage, With
<1> QED  BY <1>6, <1>7

LEMMA MutualRowsStep ==
  ASSUME MutualInv, FriendsNext PROVE RowsAgree' /\ FirstRowStands'
<1> USE DEF MutualInv, FriendsTypeOK
<1>1. TangledKnown' /\ tangled \subseteq tangled'
  BY TangledKnownStep DEF FriendsNext
<1>2. PICK p \in Player : FriendStep(p)
  BY DEF FriendsNext
<1>3. ASSUME NEW t, OnlyTalk(p, t), t.pc \notin {"add_own", "remove_other"},
             Stage(p) \notin {"add_own", "remove_other"}, friends' = friends
      PROVE  RowsAgree' /\ FirstRowStands'
  BY <1>1, <1>3, ElsewhereMutual DEF OnlyTalk, Stage
<1>4. ASSUME NEW ids \in SUBSET Player, Ask(p, ids) \/ Agree(p, ids) \/ Remove(p, ids)
      PROVE  RowsAgree' /\ FirstRowStands'
  <2>1. PICK place \in {"ask", "agree", "remove_own"} : Opens(p, place, ids)
    BY <1>4 DEF Ask, Agree, Remove
  <2>2. OnlyTalk(p, TalkOf(place, NoPlayer, ids))
    BY <2>1, OpensDoes
  <2> QED  BY <1>3, <1>4, <2>1, <2>2 DEF Ask, Agree, Remove, Opens, TalkOf
<1>5. ASSUME NEW ids \in SUBSET Player, Refuse(p, ids)
      PROVE  RowsAgree' /\ FirstRowStands'
  BY <1>1, <1>5, ElsewhereMutual DEF Refuse, Stage
<1>6. ASSUME NEW f \in Player, PassesOver(p, f), Stage(p) \in {"ask", "agree"},
             friends' = friends
      PROVE  RowsAgree' /\ FirstRowStands'
  <2>1. \/ OnlyTalk(p, TalkOf("idle", NoPlayer, {}))
        \/ OnlyTalk(p, TalkOf(talk[p].pc, NoPlayer, talk[p].left \ {f}))
    BY <1>6, PassesOverDoes
  <2> QED  BY <1>3, <1>6, <2>1 DEF TalkOf, Stage
<1>7. ASSUME NEW f \in Player, AddAsk(p, f) PROVE RowsAgree' /\ FirstRowStands'
  BY <1>6, <1>7 DEF AddAsk
<1>8. ASSUME NEW f \in Player, CheckOther(p, f) PROVE RowsAgree' /\ FirstRowStands'
  <2>1. CASE TurnsTo(p, f, "add_other")
    <3>1. OnlyTalk(p, TalkOf("add_other", f, talk[p].left \ {f}))
      BY <2>1, TurnsToDoes
    <3> QED  BY <1>3, <1>8, <3>1 DEF CheckOther, TalkOf
  <2>2. CASE PassesOver(p, f)
    BY <1>6, <1>8, <2>2 DEF CheckOther
  <2> QED  BY <1>8, <2>1, <2>2 DEF CheckOther
<1>9. CASE DropAsk(p)
  <2>1. \/ OnlyTalk(p, TalkOf("idle", NoPlayer, {}))
        \/ OnlyTalk(p, TalkOf("agree", NoPlayer, talk[p].left))
    BY <1>9, IsDoneDoes DEF DropAsk
  <2> QED  BY <1>3, <1>9, <2>1 DEF DropAsk, TalkOf
<1>10. CASE AddToOther(p)
  BY <1>1, <1>10, AddToOtherMutual
<1>11. CASE AddToOwn(p)
  BY <1>1, <1>11, AddToOwnMutual
<1>12. ASSUME NEW f \in Player, RemoveOwn(p, f) PROVE RowsAgree' /\ FirstRowStands'
  BY <1>1, <1>12, RemoveOwnMutual
<1>13. CASE RemoveOther(p)
  BY <1>1, <1>13, RemoveOtherMutual
<1> QED  BY <1>2, <1>4, <1>5, <1>7, <1>8, <1>9, <1>10, <1>11, <1>12, <1>13 DEF FriendStep

LEMMA MutualStep == MutualInv /\ [FriendsNext]_friendVars => MutualInv'
<1> SUFFICES ASSUME MutualInv, [FriendsNext]_friendVars PROVE MutualInv'
  OBVIOUS
<1>1. FriendsTypeOK' /\ HandlersKnowWhom'
  BY FriendsTypeStep DEF MutualInv
<1>2. CASE FriendsNext
  BY <1>1, <1>2, MutualRowsStep, TangledKnownStep DEF MutualInv
<1>3. CASE UNCHANGED friendVars
  BY <1>1, <1>3 DEF friendVars, MutualInv, TangledKnown, RowsAgree, FirstRowStands, AtPair,
     Concerns, Between, Stage, With
<1> QED  BY <1>2, <1>3

LEMMA MutualInit == FriendsInit => MutualInv
<1> SUFFICES ASSUME FriendsInit PROVE MutualInv
  OBVIOUS
<1>1. \A p \in Player : talk[p].pc = "idle" /\ friends[p] = {}
  BY SilentType DEF FriendsInit, TalkOf
<1>2. TangledKnown /\ RowsAgree /\ FirstRowStands
  BY <1>1 DEF FriendsInit, TangledKnown, RowsAgree, FirstRowStands, AtPair, Concerns, Stage,
     JoinStages, PartStages
<1> QED  BY <1>2, FriendsTypeInit, HandlersKnowInit DEF MutualInv

\* A friendship has both its rows or none once neither of the two is at it, unless
\* one was removing the other while one of them was adding (agree_friend_ask,
\* remove_friend).
THEOREM FriendshipsCorrect == FriendsSpec => []FriendshipsAreMutual
<1>1. MutualInv => FriendshipsAreMutual
  BY DEF MutualInv, RowsAgree, FriendshipsAreMutual, Between, AtPair, Concerns
<1> QED  BY <1>1, MutualInit, MutualStep, PTL DEF FriendsSpec

(***************************************************************************)
(* The limit. A handler of p has counted p's friends and reserved a place  *)
(* for everybody it is still to add; one of another player has reserved a  *)
(* place for itself. Two reservations at a time make p crowded.            *)
(***************************************************************************)

CrowdedKnown ==
  \A p \in Player : \A q, r \in AddingTo(p) : q # r => p \in crowded

\* Whom p's handler is just adding.
Coming(p) == IF Stage(p) \in {"add_other", "add_own"} THEN {With(p)} ELSE {}

OwnPlaces(p) ==
  Stage(p) \in JoinStages \cup {"drop_ask"}
    => Cardinality(friends[p] \cup Coming(p)) + Cardinality(talk[p].left) <= FriendMaxNum

Room(p) ==
  /\ Cardinality(friends[p]) <= FriendMaxNum
  /\ OwnPlaces(p)
  /\ \A q \in Player \ {p} : Stage(q) = "add_other" /\ With(q) = p
                               => Cardinality(friends[p]) + 1 <= FriendMaxNum

LimitInv ==
  /\ FriendsTypeOK
  /\ HandlersKnowWhom
  /\ CrowdedKnown
  /\ \A p \in Player : p \in crowded \/ Room(p)

LEMMA CountGrows ==
  ASSUME NEW S \in SUBSET Player, NEW T \in SUBSET Player, S \subseteq T
  PROVE  Cardinality(S) <= Cardinality(T)
BY CountIsNat, FS_Subset

LEMMA CountOneMore ==
  ASSUME NEW S \in SUBSET Player, NEW x \in Player
  PROVE  /\ Cardinality(S \cup {x}) <= Cardinality(S) + 1
         /\ x \in S => Cardinality(S \ {x}) = Cardinality(S) - 1
BY CountIsNat, FS_AddElement, FS_RemoveElement

LEMMA CountOfTwo ==
  ASSUME NEW S \in SUBSET Player, NEW q \in S, NEW r \in S, q # r
  PROVE  Cardinality(S) >= 2
<1>1. {q, r} \in SUBSET Player
  OBVIOUS
<1>2. Cardinality({q, r}) = 2
  <2>1. Cardinality({q}) = 1 /\ IsFiniteSet({q})
    BY FS_Singleton
  <2>2. {q, r} = {q} \cup {r} /\ r \notin {q}
    OBVIOUS
  <2> QED  BY <2>1, <2>2, FS_AddElement
<1> QED  BY <1>1, <1>2, CountGrows, CountIsNat

LEMMA CrowdedKnownStep == FriendsNext => CrowdedKnown'
<1> SUFFICES ASSUME FriendsNext, NEW p \in Player, NEW q \in AddingTo(p)',
                    NEW r \in AddingTo(p)', q # r
             PROVE  p \in crowded'
  BY DEF CrowdedKnown
<1>1. Cardinality(AddingTo(p)') >= 2
  <2>1. AddingTo(p)' \in SUBSET Player
    BY DEF AddingTo
  <2> QED  BY <2>1, CountOfTwo
<1> QED  BY <1>1 DEF FriendsNext

LEMMA ComingArePlayers ==
  ASSUME RowsOK, HandlersKnowWhom, NEW p \in Player PROVE Coming(p) \in SUBSET Player
<1>1. Stage(p) \in {"add_other", "add_own"} => With(p) \in Player
  BY TalkFields DEF RowsOK, HandlersKnowWhom, Stage, With
<1> QED  BY <1>1 DEF Coming

\* Nobody else's handler comes to p: his room is what it was, or more.
LEMMA RoomStays ==
  ASSUME RowsOK, RowsOK', HandlersKnowWhom, NEW p \in Player, Room(p),
         friends'[p] \subseteq friends[p],
         talk'[p] = talk[p],
         \A q \in Player \ {p} : Stage(q)' = "add_other" /\ With(q)' = p
                                   => Stage(q) = "add_other" /\ With(q) = p
  PROVE  Room(p)'
<1>1. Cardinality(friends'[p]) <= Cardinality(friends[p])
  BY CountGrows DEF RowsOK
<1>2. Cardinality(friends'[p]) \in Nat /\ Cardinality(friends[p]) \in Nat
  BY CountIsNat DEF RowsOK
<1>3. OwnPlaces(p)'
  <2>1. Coming(p)' = Coming(p) /\ talk'[p].left = talk[p].left
    BY DEF Coming, Stage, With
  <2>2. Cardinality(friends'[p] \cup Coming(p)) <= Cardinality(friends[p] \cup Coming(p))
    BY ComingArePlayers, CountGrows DEF RowsOK
  <2>3. /\ Cardinality(friends'[p] \cup Coming(p)) \in Nat
        /\ Cardinality(friends[p] \cup Coming(p)) \in Nat
        /\ Cardinality(talk[p].left) \in Nat
    BY ComingArePlayers, TalkFields, CountIsNat DEF RowsOK
  <2> QED  BY <2>1, <2>2, <2>3, FriendsAssumption DEF Room, OwnPlaces, Stage
<1> QED  BY <1>1, <1>2, <1>3, FriendsAssumption DEF Room, Stage, With

\* p's own handler moves and adds nobody.
LEMMA RoomOfActor ==
  ASSUME RowsOK, RowsOK', NEW p \in Player, Room(p), friends'[p] \subseteq friends[p],
         OwnPlaces(p)', \A q \in Player \ {p} : talk'[q] = talk[q]
  PROVE  Room(p)'
<1>1. Cardinality(friends'[p]) <= Cardinality(friends[p])
  BY CountGrows DEF RowsOK
<1>2. Cardinality(friends'[p]) \in Nat /\ Cardinality(friends[p]) \in Nat
  BY CountIsNat DEF RowsOK
<1> QED  BY <1>1, <1>2, FriendsAssumption DEF Room, Stage, With

RoomsKept == \A p \in Player : p \in crowded' \/ Room(p)'

\* A step in which nobody gains a friend and nobody's handler comes to add_other.
LEMMA ElsewhereRoom ==
  ASSUME LimitInv, RowsOK', NEW p \in Player, crowded \subseteq crowded',
         \A r \in Player : friends'[r] \subseteq friends[r],
         \A q \in Player \ {p} : talk'[q] = talk[q],
         Stage(p)' # "add_other",
         p \notin crowded => OwnPlaces(p)'
  PROVE  RoomsKept
<1>1. RowsOK /\ HandlersKnowWhom
  BY DEF LimitInv, FriendsTypeOK, RowsOK
<1>2. p \notin crowded => Room(p)'
  BY <1>1, RoomOfActor DEF LimitInv
<1>3. ASSUME NEW r \in Player \ {p}, r \notin crowded PROVE Room(r)'
  BY <1>1, <1>3, RoomStays DEF LimitInv, Stage, With
<1> QED  BY <1>2, <1>3 DEF RoomsKept

LEMMA OpensRoom ==
  ASSUME LimitInv, RowsOK', NEW p \in Player, NEW ids \in SUBSET Player,
         Ask(p, ids) \/ Agree(p, ids) \/ Refuse(p, ids) \/ Remove(p, ids),
         crowded \subseteq crowded'
  PROVE  RoomsKept
<1> USE DEF LimitInv, FriendsTypeOK
<1>1. friends' = friends
  BY DEF Ask, Agree, Refuse, Remove
<1>2. CASE Refuse(p, ids)
  BY <1>1, <1>2, ElsewhereRoom DEF Refuse, OwnPlaces, Stage, JoinStages
<1>3. ASSUME NEW place \in {"ask", "remove_own"}, Opens(p, place, ids) PROVE RoomsKept
  <2>1. OnlyTalk(p, TalkOf(place, NoPlayer, ids))
    BY <1>3, OpensDoes
  <2>2. Stage(p)' = place /\ \A q \in Player \ {p} : talk'[q] = talk[q]
    BY <2>1 DEF OnlyTalk, TalkOf, Stage
  <2>3. OwnPlaces(p)'
    BY <2>2 DEF OwnPlaces, JoinStages
  <2> QED  BY <1>1, <2>2, <2>3, ElsewhereRoom
<1>4. CASE Agree(p, ids)
  <2>1. OnlyTalk(p, TalkOf("agree", NoPlayer, ids))
    BY <1>4, OpensDoes DEF Agree
  <2>2. /\ Stage(p)' = "agree" /\ talk'[p].left = ids
        /\ \A q \in Player \ {p} : talk'[q] = talk[q]
    BY <2>1 DEF OnlyTalk, TalkOf, Stage
  <2>3. Coming(p)' = {}
    BY <2>2 DEF Coming
  <2>4. OwnPlaces(p)'
    BY <1>1, <1>4, <2>2, <2>3 DEF OwnPlaces, Agree
  <2> QED  BY <1>1, <2>2, <2>4, ElsewhereRoom
<1> QED  BY <1>2, <1>3, <1>4 DEF Ask, Remove

LEMMA PassesOverRoom ==
  ASSUME LimitInv, RowsOK', NEW p \in Player, NEW f \in Player, PassesOver(p, f),
         Stage(p) \in {"ask", "agree"}, friends' = friends, crowded \subseteq crowded'
  PROVE  RoomsKept
<1> USE DEF LimitInv, FriendsTypeOK
<1>1. \/ OnlyTalk(p, TalkOf("idle", NoPlayer, {}))
      \/ OnlyTalk(p, TalkOf(talk[p].pc, NoPlayer, talk[p].left \ {f}))
  BY PassesOverDoes
<1>2. /\ \/ Stage(p)' = "idle"
         \/ Stage(p)' = Stage(p) /\ talk'[p].left = talk[p].left \ {f}
      /\ \A q \in Player \ {p} : talk'[q] = talk[q]
  BY <1>1 DEF OnlyTalk, TalkOf, Stage
<1>3. Coming(p)' = {} /\ Coming(p) = {}
  BY <1>2 DEF Coming
<1>4. /\ Cardinality(talk[p].left \ {f}) <= Cardinality(talk[p].left)
      /\ Cardinality(talk[p].left \ {f}) \in Nat
      /\ Cardinality(talk[p].left) \in Nat
      /\ Cardinality(friends[p]) \in Nat
  BY TalkFields, CountGrows, CountIsNat
<1>5. p \notin crowded => OwnPlaces(p)'
  <2>1. /\ friends[p] \cup Coming(p) = friends[p]
        /\ friends'[p] \cup Coming(p)' = friends[p]
    BY <1>3
  <2>2. CASE Stage(p)' = "agree"
    <3>1. Stage(p) = "agree" /\ talk'[p].left = talk[p].left \ {f}
      BY <1>2, <2>2
    <3>2. p \notin crowded
            => Cardinality(friends[p]) + Cardinality(talk[p].left) <= FriendMaxNum
      BY <2>1, <3>1 DEF OwnPlaces, Room, JoinStages
    <3>3. p \notin crowded
            => Cardinality(friends[p]) + Cardinality(talk'[p].left) <= FriendMaxNum
      BY <1>4, <3>1, <3>2, FriendsAssumption
    <3> QED  BY <2>1, <3>3 DEF OwnPlaces
  <2>3. CASE Stage(p)' # "agree"
    BY <1>2, <2>3 DEF OwnPlaces, JoinStages
  <2> QED  BY <2>2, <2>3
<1> QED  BY <1>2, <1>5, ElsewhereRoom

LEMMA DropAskRoom ==
  ASSUME LimitInv, RowsOK', NEW p \in Player, DropAsk(p), crowded \subseteq crowded'
  PROVE  RoomsKept
<1> USE DEF LimitInv, FriendsTypeOK
<1>1. \/ OnlyTalk(p, TalkOf("idle", NoPlayer, {}))
      \/ OnlyTalk(p, TalkOf("agree", NoPlayer, talk[p].left))
  BY IsDoneDoes DEF DropAsk
<1>2. /\ Stage(p)' \in {"idle", "agree"}
      /\ Stage(p)' = "agree" => talk'[p].left = talk[p].left
      /\ \A q \in Player \ {p} : talk'[q] = talk[q]
  BY <1>1 DEF OnlyTalk, TalkOf, Stage
<1>3. Coming(p)' = {} /\ Coming(p) = {} /\ friends' = friends /\ Stage(p) = "drop_ask"
  BY <1>2 DEF Coming, DropAsk
<1>4. p \notin crowded => OwnPlaces(p)'
  BY <1>2, <1>3 DEF OwnPlaces, Room, JoinStages
<1> QED  BY <1>2, <1>3, <1>4, ElsewhereRoom

LEMMA RemoveRoom ==
  ASSUME LimitInv, RowsOK', NEW p \in Player, crowded \subseteq crowded',
         RemoveOther(p) \/ \E f \in Player : RemoveOwn(p, f)
  PROVE  RoomsKept
<1> USE DEF LimitInv, FriendsTypeOK
<1>1. CASE RemoveOther(p)
  <2>1. \/ OnlyTalk(p, TalkOf("idle", NoPlayer, {}))
        \/ OnlyTalk(p, TalkOf("remove_own", NoPlayer, talk[p].left))
    BY <1>1, IsDoneDoes DEF RemoveOther
  <2>2. Stage(p)' \in {"idle", "remove_own"} /\ \A q \in Player \ {p} : talk'[q] = talk[q]
    BY <2>1 DEF OnlyTalk, TalkOf, Stage
  <2>3. \A r \in Player : friends'[r] \subseteq friends[r]
    BY <1>1 DEF RemoveOther
  <2>4. OwnPlaces(p)'
    BY <2>2 DEF OwnPlaces, JoinStages
  <2> QED  BY <2>2, <2>3, <2>4, ElsewhereRoom
<1>2. ASSUME NEW f \in Player, RemoveOwn(p, f) PROVE RoomsKept
  <2>1. OnlyTalk(p, TalkOf("remove_other", f, talk[p].left \ {f}))
    BY <1>2, TurnsToDoes DEF RemoveOwn
  <2>2. Stage(p)' = "remove_other" /\ \A q \in Player \ {p} : talk'[q] = talk[q]
    BY <2>1 DEF OnlyTalk, TalkOf, Stage
  <2>3. \A r \in Player : friends'[r] \subseteq friends[r]
    BY <1>2 DEF RemoveOwn
  <2>4. OwnPlaces(p)'
    BY <2>2 DEF OwnPlaces, JoinStages
  <2> QED  BY <2>2, <2>3, <2>4, ElsewhereRoom
<1> QED  BY <1>1, <1>2

\* The handler of p has found room with f and takes one of its own places for him.
LEMMA CheckOtherRoom ==
  ASSUME LimitInv, RowsOK', NEW p \in Player, NEW f \in Player, CheckOther(p, f),
         TurnsTo(p, f, "add_other"), Cardinality(friends[f]) < FriendMaxNum,
         crowded \subseteq crowded'
  PROVE  RoomsKept
<1> USE DEF LimitInv, FriendsTypeOK
<1>0. RowsOK /\ HandlersKnowWhom /\ Stage(p) = "agree" /\ f \in talk[p].left
        /\ friends' = friends
  BY DEF RowsOK, CheckOther
<1>1. OnlyTalk(p, TalkOf("add_other", f, talk[p].left \ {f}))
  BY TurnsToDoes
<1>2. /\ Stage(p)' = "add_other" /\ With(p)' = f /\ talk'[p].left = talk[p].left \ {f}
      /\ \A q \in Player \ {p} : talk'[q] = talk[q]
  BY <1>1 DEF OnlyTalk, TalkOf, Stage, With
<1>3. p \notin crowded => OwnPlaces(p)'
  <2>1. Coming(p)' = {f} /\ friends[p] \cup Coming(p) = friends[p]
    BY <1>0, <1>2 DEF Coming
  <2>2. /\ Cardinality(friends[p] \cup {f}) <= Cardinality(friends[p]) + 1
        /\ Cardinality(talk[p].left \ {f}) = Cardinality(talk[p].left) - 1
        /\ Cardinality(friends[p] \cup {f}) \in Nat /\ Cardinality(friends[p]) \in Nat
        /\ Cardinality(talk[p].left) \in Nat
    BY <1>0, TalkFields, CountOneMore, CountIsNat
  <2> QED  BY <1>0, <1>2, <2>1, <2>2, FriendsAssumption DEF OwnPlaces, Room, JoinStages
<1>4. p \notin crowded => Room(p)'
  BY <1>0, <1>2, <1>3, RoomOfActor
<1>5. ASSUME NEW r \in Player \ {p}, r \notin crowded, r # f PROVE Room(r)'
  BY <1>0, <1>2, <1>5, RoomStays DEF Stage, With
<1>6. ASSUME f # p, f \notin crowded PROVE Room(f)'
  <2>1. Cardinality(friends[f]) + 1 <= FriendMaxNum /\ Cardinality(friends[f]) \in Nat
    BY <1>0, CountIsNat, FriendsAssumption DEF RowsOK
  <2>2. OwnPlaces(f) /\ OwnPlaces(f)'
    BY <1>0, <1>2, <1>6 DEF Room, OwnPlaces, Coming, Stage, With
  <2> QED  BY <1>0, <1>6, <2>1, <2>2 DEF Room
<1> QED  BY <1>4, <1>5, <1>6 DEF RoomsKept

\* The handler of p takes the place it has reserved with f.
LEMMA AddToOtherRoom ==
  ASSUME LimitInv, RowsOK', NEW p \in Player, AddToOther(p), crowded \subseteq crowded'
  PROVE  RoomsKept
<1> USE DEF LimitInv, FriendsTypeOK
<1>0. RowsOK /\ HandlersKnowWhom /\ Stage(p) = "add_other"
  BY DEF RowsOK, AddToOther
<1>3. PICK g \in Player : g = With(p)
  BY <1>0, TalkFields DEF HandlersKnowWhom, With
<1>1. OnlyTalk(p, TalkOf("add_own", talk[p].with, talk[p].left))
  BY MovesDoes DEF AddToOther
<1>2. /\ Stage(p)' = "add_own" /\ With(p)' = g /\ talk'[p].left = talk[p].left
      /\ \A q \in Player \ {p} : talk'[q] = talk[q]
  BY <1>1, <1>3 DEF OnlyTalk, TalkOf, Stage, With
<1>4. /\ friends'[g] = friends[g] \cup {p}
      /\ \A r \in Player \ {g} : friends'[r] = friends[r]
  BY <1>3 DEF AddToOther
<1>5. ASSUME NEW r \in Player, r # p, r # g, r \notin crowded PROVE Room(r)'
  BY <1>0, <1>2, <1>4, <1>5, RoomStays DEF Stage, With
<1>6. ASSUME p # g, p \notin crowded PROVE Room(p)'
  <2>1. friends'[p] = friends[p] /\ Coming(p)' = Coming(p)
    BY <1>0, <1>2, <1>3, <1>4, <1>6 DEF Coming
  <2>2. OwnPlaces(p)'
    BY <1>0, <1>2, <1>6, <2>1 DEF Room, OwnPlaces, JoinStages
  <2> QED  BY <1>0, <1>2, <1>6, <2>1, <2>2, RoomOfActor
<1>7. ASSUME p # g, g \notin crowded PROVE Room(g)'
  <2>1. p \in AddingTo(g)
    BY <1>0, <1>3, <1>7 DEF AddingTo
  <2>2. ~ AddsOwn(g)
    BY <1>3, <1>7, <2>1 DEF CrowdedKnown, AddingTo
  <2>3. \A q \in Player \ {g} : ~ (Stage(q)' = "add_other" /\ With(q)' = g)
    BY <1>2, <1>3, <1>7, <2>1 DEF CrowdedKnown, AddingTo, Stage, With
  <2>4. Cardinality(friends'[g]) <= FriendMaxNum
    <3>1. Cardinality(friends[g]) + 1 <= FriendMaxNum
      BY <1>0, <1>3, <1>7 DEF Room
    <3>2. Cardinality(friends'[g]) <= Cardinality(friends[g]) + 1
      BY <1>3, <1>4, CountOneMore
    <3> QED  BY <1>3, <1>4, <3>1, <3>2, CountIsNat, FriendsAssumption
  <2>5. OwnPlaces(g)'
    <3>1. CASE Stage(g) = "drop_ask"
      <4>1. talk'[g].left = {} /\ Coming(g)' = {}
        BY <1>2, <1>3, <1>7, <2>2, <3>1 DEF AddsOwn, Coming, Stage
      <4>2. friends'[g] \cup Coming(g)' = friends'[g] /\ Cardinality(talk'[g].left) = 0
        BY <4>1, FS_EmptySet
      <4>3. Cardinality(friends'[g]) \in Nat
        BY <1>3, <1>4, CountIsNat
      <4>4. Cardinality(friends'[g]) + 0 <= FriendMaxNum
        BY <2>4, <4>3, FriendsAssumption
      <4>5. Cardinality(friends'[g] \cup Coming(g)') + Cardinality(talk'[g].left)
              <= FriendMaxNum
        BY <4>2, <4>4, Zenon
      <4> QED  BY <4>5 DEF OwnPlaces
    <3>2. CASE Stage(g) # "drop_ask"
      BY <1>2, <1>3, <1>7, <2>2, <3>2 DEF OwnPlaces, AddsOwn, Stage
    <3> QED  BY <3>1, <3>2
  <2> QED  BY <2>3, <2>4, <2>5 DEF Room
<1>8. ASSUME p = g, p \notin crowded PROVE Room(p)'
  <2>1. p \in AddingTo(p)
    BY <1>0 DEF AddingTo, AddsOwn, JoinStages
  <2>2. \A q \in Player \ {p} : ~ (Stage(q)' = "add_other" /\ With(q)' = p)
    BY <1>2, <1>8, <2>1 DEF CrowdedKnown, AddingTo, Stage, With
  <2>3. /\ Coming(p) = {p} /\ Coming(p)' = {p}
        /\ friends'[p] = friends[p] \cup {p}
    BY <1>0, <1>2, <1>3, <1>4, <1>8 DEF Coming
  <2>4. Cardinality(friends[p] \cup {p}) + Cardinality(talk[p].left) <= FriendMaxNum
    BY <1>0, <1>8, <2>3 DEF Room, OwnPlaces, JoinStages
  <2>5. Cardinality(friends[p] \cup {p}) \in Nat /\ Cardinality(talk[p].left) \in Nat
    BY TalkFields, CountIsNat
  <2>6. friends'[p] \cup Coming(p)' = friends[p] \cup {p}
    BY <2>3
  <2>7. OwnPlaces(p)'
    BY <1>2, <2>4, <2>6 DEF OwnPlaces
  <2>8. Cardinality(friends'[p]) <= FriendMaxNum
    BY <2>3, <2>4, <2>5, FriendsAssumption
  <2> QED  BY <2>2, <2>7, <2>8 DEF Room
<1> QED  BY <1>5, <1>6, <1>7, <1>8 DEF RoomsKept

LEMMA AddToOwnRoom ==
  ASSUME LimitInv, RowsOK', NEW p \in Player, AddToOwn(p), crowded \subseteq crowded'
  PROVE  RoomsKept
<1> USE DEF LimitInv, FriendsTypeOK
<1> DEFINE g == With(p)
<1>0. RowsOK /\ HandlersKnowWhom /\ Stage(p) = "add_own"
  BY DEF RowsOK, AddToOwn
<1>1. OnlyTalk(p, TalkOf("drop_ask", talk[p].with, talk[p].left))
  BY MovesDoes DEF AddToOwn
<1>2. /\ Stage(p)' = "drop_ask" /\ talk'[p].left = talk[p].left
      /\ \A q \in Player \ {p} : talk'[q] = talk[q]
  BY <1>1 DEF OnlyTalk, TalkOf, Stage
<1>3. g \in Player
  BY <1>0, TalkFields DEF HandlersKnowWhom, With
<1>4. /\ friends'[p] = friends[p] \cup {g}
      /\ \A r \in Player \ {p} : friends'[r] = friends[r]
  BY DEF AddToOwn
<1>5. ASSUME NEW r \in Player \ {p}, r \notin crowded PROVE Room(r)'
  BY <1>0, <1>2, <1>4, <1>5, RoomStays DEF Stage, With
<1>6. ASSUME p \notin crowded PROVE Room(p)'
  <2>1. p \in AddingTo(p)
    BY <1>0 DEF AddingTo, AddsOwn, JoinStages
  <2>2. \A q \in Player \ {p} : ~ (Stage(q)' = "add_other" /\ With(q)' = p)
    BY <1>2, <1>6, <2>1 DEF CrowdedKnown, AddingTo, Stage, With
  <2>3. Cardinality(friends[p] \cup {g}) + Cardinality(talk[p].left) <= FriendMaxNum
    <3>1. Coming(p) = {g}
      BY <1>0 DEF Coming
    <3> QED  BY <1>0, <1>6, <3>1 DEF Room, OwnPlaces, JoinStages
  <2>4. Cardinality(friends[p] \cup {g}) \in Nat /\ Cardinality(talk[p].left) \in Nat
    BY <1>3, TalkFields, CountIsNat
  <2>5. friends'[p] \cup Coming(p)' = friends[p] \cup {g}
    BY <1>2, <1>4 DEF Coming
  <2>6. OwnPlaces(p)'
    BY <1>2, <2>3, <2>5 DEF OwnPlaces
  <2>7. Cardinality(friends'[p]) <= FriendMaxNum
    BY <1>4, <2>3, <2>4, FriendsAssumption
  <2> QED  BY <2>2, <2>6, <2>7 DEF Room
<1> QED  BY <1>5, <1>6 DEF RoomsKept

LEMMA LimitStep == LimitInv /\ [FriendsNext]_friendVars => LimitInv'
<1> SUFFICES ASSUME LimitInv, [FriendsNext]_friendVars PROVE LimitInv'
  OBVIOUS
<1>1. FriendsTypeOK' /\ HandlersKnowWhom' /\ RowsOK'
  BY FriendsTypeStep DEF LimitInv, FriendsTypeOK, RowsOK
<1>2. CASE FriendsNext
  <2>1. crowded \subseteq crowded'
    BY <1>2 DEF FriendsNext
  <2>2. PICK p \in Player : FriendStep(p)
    BY <1>2 DEF FriendsNext
  <2>3. ASSUME NEW f \in Player, CheckOther(p, f) PROVE RoomsKept
    <3>1. CASE Cardinality(friends[f]) < FriendMaxNum
      BY <1>1, <2>1, <2>3, <3>1, CheckOtherRoom DEF CheckOther
    <3>2. CASE ~ (Cardinality(friends[f]) < FriendMaxNum)
      BY <1>1, <2>1, <2>3, <3>2, PassesOverRoom DEF CheckOther
    <3> QED  BY <3>1, <3>2
  <2>4. ASSUME NEW f \in Player, AddAsk(p, f) PROVE RoomsKept
    BY <1>1, <2>1, <2>4, PassesOverRoom DEF AddAsk
  <2>5. RoomsKept
    BY <1>1, <2>1, <2>2, <2>3, <2>4, OpensRoom, DropAskRoom, RemoveRoom, AddToOtherRoom,
       AddToOwnRoom DEF FriendStep
  <2> QED  BY <1>1, <1>2, <2>5, CrowdedKnownStep DEF LimitInv, RoomsKept
<1>3. CASE UNCHANGED friendVars
  <2>1. CrowdedKnown'
    BY <1>3 DEF friendVars, LimitInv, CrowdedKnown, AddingTo, AddsOwn, Stage, With
  <2>2. \A p \in Player : p \in crowded' \/ Room(p)'
    BY <1>3 DEF friendVars, LimitInv, Room, OwnPlaces, Coming, Stage, With
  <2> QED  BY <1>1, <2>1, <2>2 DEF LimitInv
<1> QED  BY <1>2, <1>3

LEMMA LimitInit == FriendsInit => LimitInv
<1> SUFFICES ASSUME FriendsInit PROVE LimitInv
  OBVIOUS
<1>1. \A p \in Player : talk[p].pc = "idle" /\ friends[p] = {} /\ talk[p].left = {}
  BY SilentType DEF FriendsInit, TalkOf
<1>2. CrowdedKnown
  BY <1>1 DEF CrowdedKnown, AddingTo, AddsOwn, Stage, JoinStages
<1>3. \A p \in Player : Room(p)
  BY <1>1, FS_EmptySet, FriendsAssumption DEF Room, OwnPlaces, Stage, JoinStages
<1> QED  BY <1>2, <1>3, FriendsTypeInit, HandlersKnowInit DEF LimitInv

\* Nobody has more friends than FriendMaxNum, unless two handlers had counted his
\* friends before either had added (agree_friend_ask).
THEOREM FriendLimitCorrect == FriendsSpec => []FriendsWithinLimit
<1>1. LimitInv => FriendsWithinLimit
  BY DEF LimitInv, Room, FriendsWithinLimit
<1> QED  BY <1>1, LimitInit, LimitStep, PTL DEF FriendsSpec

-----------------------------------------------------------------------------
(* The boss of a player (FriendBoss).                                      *)

(***************************************************************************)
(* What a step of a challenger does to his fight.                          *)
(***************************************************************************)

OnlyFight(c, g) ==
  /\ g \in Fights
  /\ fight'[c] = g
  /\ \A d \in Challenger \ {c} : fight'[d] = fight[d]
  /\ fight' \in [Challenger -> Fights]

LEMMA FightFields ==
  ASSUME BossTypeOK, NEW c \in Challenger
  PROVE  /\ fight[c].pc \in {"idle", "read", "init", "fight", "cancel", "won", "gone",
                             "reward"}
         /\ fight[c].todo \in 0 .. MaxSweep
         /\ fight[c].team \subseteq Monster
         /\ fight[c].boss \in 0 .. MaxBosses
         /\ fight[c] = FightAt(fight[c].pc, fight[c].todo, fight[c].team, fight[c].boss)
BY DEF BossTypeOK, Fights, FightAt

LEMMA FightReplaced ==
  ASSUME BossTypeOK, NEW c \in Challenger, NEW g \in Fights,
         fight' = [fight EXCEPT ![c] = g]
  PROVE  OnlyFight(c, g)
BY DEF BossTypeOK, OnlyFight

LEMMA TryFightDoes ==
  ASSUME BossTypeOK, NEW c \in Challenger, TryFight(c)
  PROVE  \E n \in 1 .. MaxSweep : OnlyFight(c, FightAt("read", n, {}, 0))
<1>1. PICK n \in 1 .. MaxSweep : fight' = [fight EXCEPT ![c] = FightAt("read", n, {}, 0)]
  BY DEF TryFight
<1>2. FightAt("read", n, {}, 0) \in Fights
  BY FriendBossAssumption DEF Fights, FightAt
<1> QED  BY <1>1, <1>2, FightReplaced

LEMMA ReadBossDoes ==
  ASSUME BossTypeOK, NEW c \in Challenger, ReadBoss(c)
  PROVE  \/ boss_id /\ OnlyFight(c, FightAt("init", fight[c].todo, fight[c].team, found))
         \/ OnlyFight(c, FightAt("cancel", fight[c].todo, fight[c].team, fight[c].boss))
<1> DEFINE g == FightAt("init", fight[c].todo, fight[c].team, found)
           h == FightAt("cancel", fight[c].todo, fight[c].team, fight[c].boss)
<1>1. g \in Fights /\ h \in Fights
  BY FightFields DEF Fights, FightAt, BossTypeOK
<1>2. \/ boss_id /\ fight' = [fight EXCEPT ![c] = g]
      \/ fight' = [fight EXCEPT ![c] = h]
  BY DEF ReadBoss, FightGoes, BossTypeOK
<1> QED  BY <1>1, <1>2, FightReplaced

LEMMA InitTeamDoes ==
  ASSUME BossTypeOK, NEW c \in Challenger, InitTeam(c)
  PROVE  \/ /\ OnlyFight(c, FightAt("fight", fight[c].todo, monsters, fight[c].boss))
            /\ early' = IF search \in {"clear", "add"}
                          THEN early \cup {fight[c].boss} ELSE early
         \/ /\ OnlyFight(c, FightAt("cancel", fight[c].todo, fight[c].team, fight[c].boss))
            /\ early' = early
<1> DEFINE g == FightAt("fight", fight[c].todo, monsters, fight[c].boss)
           h == FightAt("cancel", fight[c].todo, fight[c].team, fight[c].boss)
<1>1. g \in Fights /\ h \in Fights
  BY FightFields DEF Fights, FightAt, BossTypeOK
<1>2. \/ /\ fight' = [fight EXCEPT ![c] = g]
         /\ early' = IF search \in {"clear", "add"}
                       THEN early \cup {fight[c].boss} ELSE early
      \/ /\ fight' = [fight EXCEPT ![c] = h]
         /\ early' = early
  BY DEF InitTeam, FightGoes, BossTypeOK
<1> QED  BY <1>1, <1>2, FightReplaced

LEMMA FightEndsDoes ==
  ASSUME BossTypeOK, NEW c \in Challenger,
         NEW place \in {"won", "init", "cancel"}, NEW n \in 0 .. MaxSweep,
         FightEnds(c, place, n)
  PROVE  OnlyFight(c, FightAt(place, n, {}, fight[c].boss))
<1> DEFINE g == FightAt(place, n, {}, fight[c].boss)
<1>1. g \in Fights
  BY FightFields DEF Fights, FightAt
<1>2. fight' = [fight EXCEPT ![c] = g]
  BY DEF BossTypeOK, FightEnds
<1> QED  BY <1>1, <1>2, FightReplaced

\* In a fight dead of the team fall; the boss is beaten, or the sweep goes on, or
\* it is over.
LEMMA FightDoes ==
  ASSUME BossTypeOK, NEW c \in Challenger, Fight(c)
  PROVE  \E dead \in SUBSET fight[c].team :
           /\ monsters' = monsters \ dead
           /\ beaten' = [beaten EXCEPT ![fight[c].boss] = @ \cup dead]
           /\ \/ /\ dead = fight[c].team
                 /\ OnlyFight(c, FightAt("won", 0, {}, fight[c].boss))
              \/ /\ fight[c].todo > 1
                 /\ OnlyFight(c, FightAt("init", fight[c].todo - 1, {}, fight[c].boss))
              \/ OnlyFight(c, FightAt("cancel", 0, {}, fight[c].boss))
<1>1. PICK dead \in SUBSET fight[c].team :
        /\ monsters' = monsters \ dead
        /\ beaten' = [beaten EXCEPT ![fight[c].boss] = @ \cup dead]
        /\ \/ dead = fight[c].team /\ FightEnds(c, "won", 0)
           \/ fight[c].todo > 1 /\ FightEnds(c, "init", fight[c].todo - 1)
           \/ fight[c].todo = 1 /\ FightEnds(c, "cancel", 0)
  BY DEF Fight
<1>2. 0 \in 0 .. MaxSweep
  BY FriendBossAssumption
<1>3. fight[c].todo > 1 => fight[c].todo - 1 \in 0 .. MaxSweep
  BY FriendBossAssumption, FightFields
<1>4. FightEnds(c, "won", 0) => OnlyFight(c, FightAt("won", 0, {}, fight[c].boss))
  BY <1>2, FightEndsDoes
<1>5. fight[c].todo > 1 /\ FightEnds(c, "init", fight[c].todo - 1)
        => OnlyFight(c, FightAt("init", fight[c].todo - 1, {}, fight[c].boss))
  BY <1>3, FightEndsDoes
<1>6. FightEnds(c, "cancel", 0) => OnlyFight(c, FightAt("cancel", 0, {}, fight[c].boss))
  BY <1>2, FightEndsDoes
<1> QED  BY <1>1, <1>4, <1>5, <1>6

LEMMA FightGoesDoes ==
  ASSUME BossTypeOK, NEW c \in Challenger, NEW place \in {"gone", "reward"},
         FightGoes(c, place)
  PROVE  OnlyFight(c, FightAt(place, fight[c].todo, fight[c].team, fight[c].boss))
<1> DEFINE g == FightAt(place, fight[c].todo, fight[c].team, fight[c].boss)
<1>1. g \in Fights
  BY FightFields DEF Fights, FightAt
<1>2. fight' = [fight EXCEPT ![c] = g]
  BY DEF BossTypeOK, FightGoes
<1> QED  BY <1>1, <1>2, FightReplaced

LEMMA FightOverDoes ==
  ASSUME BossTypeOK, NEW c \in Challenger, fight' = [fight EXCEPT ![c] = NoFight]
  PROVE  OnlyFight(c, FightAt("idle", 0, {}, 0))
<1>1. NoFight = FightAt("idle", 0, {}, 0) /\ NoFight \in Fights
  BY FriendBossAssumption DEF NoFight, Fights, FightAt
<1> QED  BY <1>1, FightReplaced

(***************************************************************************)
(* Types.                                                                  *)
(***************************************************************************)

\* The types but those of the flags.
ValuesOK ==
  /\ search \in {"idle", "clear", "add", "end"}
  /\ monsters \subseteq Monster
  /\ coming \subseteq Monster
  /\ fight \in [Challenger -> Fights]
  /\ found \in 0 .. MaxBosses
  /\ beaten \in [Boss -> SUBSET Monster]
  /\ rewarded \in [Boss -> Nat]
  /\ early \subseteq 0 .. MaxBosses

FlagsOK == boss_id \in BOOLEAN /\ refreshed \in BOOLEAN /\ fighting \in BOOLEAN

LEMMA TypeParts == BossTypeOK <=> ValuesOK /\ FlagsOK
BY Zenon DEF BossTypeOK, ValuesOK, FlagsOK

LEMMA BossTypeInit == BossInit => BossTypeOK
<1> SUFFICES ASSUME BossInit PROVE ValuesOK /\ FlagsOK
  BY TypeParts
<1>1. NoFight \in Fights
  BY FriendBossAssumption DEF NoFight, Fights, FightAt
<1>2. ValuesOK
  BY <1>1, FriendBossAssumption DEF BossInit, ValuesOK, Boss
<1>3. FlagsOK
  BY Zenon DEF BossInit, FlagsOK
<1> QED  BY <1>2, <1>3

LEMMA FlagsStep == BossTypeOK /\ BossNext => FlagsOK'
<1> SUFFICES ASSUME FlagsOK, BossNext PROVE FlagsOK'
  BY TypeParts
<1>1. CASE Search \/ ClearMonsters \/ AddMonster \/ EndSearch
  BY <1>1, Zenon DEF FlagsOK, Search, ClearMonsters, AddMonster, EndSearch
<1>2. ASSUME NEW c \in Challenger, ChallengeStep(c) PROVE FlagsOK'
  BY <1>2, Zenon DEF FlagsOK, searchVars, ChallengeStep, TryFight, ReadBoss, InitTeam,
     Fight, BossGone, CancelFight, Reward
<1> QED  BY <1>1, <1>2 DEF BossNext

LEMMA SearchValues ==
  ASSUME ValuesOK, Search \/ ClearMonsters \/ AddMonster \/ EndSearch
  PROVE  ValuesOK'
<1> USE FriendBossAssumption DEF ValuesOK, Boss
<1>1. CASE Search
  BY <1>1 DEF Search
<1>2. CASE ClearMonsters
  BY <1>2 DEF ClearMonsters
<1>3. CASE AddMonster
  BY <1>3 DEF AddMonster
<1>4. CASE EndSearch
  BY <1>4 DEF EndSearch
<1> QED  BY <1>1, <1>2, <1>3, <1>4

LEMMA ChallengeValues ==
  ASSUME BossTypeOK, NEW c \in Challenger, ChallengeStep(c) PROVE ValuesOK'
<1> USE FriendBossAssumption DEF Boss, searchVars, OnlyFight
<1>0. ValuesOK
  BY TypeParts
<1>1. CASE TryFight(c)
  BY <1>0, <1>1, TryFightDoes DEF TryFight, ValuesOK
<1>2. CASE ReadBoss(c)
  BY <1>0, <1>2, ReadBossDoes DEF ReadBoss, ValuesOK
<1>3. CASE InitTeam(c)
  <2>1. fight' \in [Challenger -> Fights]
    BY <1>3, InitTeamDoes
  <2>2. early' \subseteq 0 .. MaxBosses
    BY <1>0, <1>3, InitTeamDoes, FightFields DEF ValuesOK
  <2> QED  BY <1>0, <1>3, <2>1, <2>2 DEF InitTeam, ValuesOK
<1>4. CASE Fight(c)
  <2>1. PICK dead \in SUBSET fight[c].team :
          /\ monsters' = monsters \ dead
          /\ beaten' = [beaten EXCEPT ![fight[c].boss] = @ \cup dead]
          /\ fight' \in [Challenger -> Fights]
    BY <1>4, FightDoes
  <2>2. dead \subseteq Monster
    BY FightFields
  <2> QED  BY <1>0, <1>4, <2>1, <2>2 DEF Fight, ValuesOK
<1>5. CASE BossGone(c)
  BY <1>0, <1>5, FightGoesDoes DEF BossGone, ValuesOK
<1>6. CASE CancelFight(c)
  <2>1. fight' \in [Challenger -> Fights]
    BY <1>6, FightGoesDoes, FightOverDoes DEF CancelFight
  <2> QED  BY <1>0, <1>6, <2>1 DEF CancelFight, ValuesOK
<1>7. CASE Reward(c)
  <2>1. fight' \in [Challenger -> Fights]
    BY <1>7, FightOverDoes DEF Reward
  <2>2. ASSUME NEW b \in Boss PROVE rewarded'[b] \in Nat
    BY <1>0, <1>7 DEF Reward, ValuesOK
  <2>3. rewarded' \in [Boss -> Nat]
    BY <1>0, <1>7, <2>2 DEF Reward, ValuesOK
  <2> QED  BY <1>0, <1>7, <2>1, <2>3 DEF Reward, ValuesOK
<1> QED  BY <1>1, <1>2, <1>3, <1>4, <1>5, <1>6, <1>7 DEF ChallengeStep

LEMMA BossTypeStep == BossTypeOK /\ [BossNext]_bossVars => BossTypeOK'
<1> SUFFICES ASSUME BossTypeOK, [BossNext]_bossVars PROVE ValuesOK' /\ FlagsOK'
  BY TypeParts DEF BossTypeOK, ValuesOK, FlagsOK
<1>1. CASE BossNext
  <2>1. ValuesOK'
    BY <1>1, TypeParts, SearchValues, ChallengeValues DEF BossNext
  <2> QED  BY <1>1, <2>1, FlagsStep
<1>2. CASE UNCHANGED bossVars
  <2>1. ValuesOK'
    BY <1>2, TypeParts DEF bossVars, ValuesOK
  <2>2. FlagsOK'
    BY <1>2, TypeParts, Zenon DEF bossVars, FlagsOK
  <2> QED  BY <2>1, <2>2
<1> QED  BY <1>1, <1>2

\* Every variable of the boss and its challenges has its type (player_friend.go).
THEOREM BossTypeCorrect == BossSpec => []BossTypeOK
BY BossTypeInit, BossTypeStep, PTL DEF BossSpec

(***************************************************************************)
(* Why a boss falls once. fighing_friend_boss keeps the challengers apart, *)
(* so that nobody else is between InitWithStage and the end of a fight;    *)
(* whoever wins takes the boss's id away before he lets go of the flag.    *)
(***************************************************************************)

InFight == {"read", "init", "fight", "cancel", "won", "gone"}
WithBoss == {"init", "fight", "won"}
RewardIsDue == {"won", "gone", "reward"}

OneFighter ==
  /\ \A c \in Challenger : fight[c].pc \in InFight => fighting
  /\ \A c, d \in Challenger : fight[c].pc \in InFight /\ fight[d].pc \in InFight => c = d

BossOfTheFight ==
  /\ \A c \in Challenger : fight[c].pc \in WithBoss => boss_id /\ fight[c].boss = found
  /\ \A c \in Challenger : fight[c].pc \in WithBoss \cup RewardIsDue
                             => 1 <= fight[c].boss /\ fight[c].boss <= found

BossIsAlive ==
  boss_id => /\ found > 0
             /\ rewarded[found] = 0
             /\ \A c \in Challenger : fight[c].pc \in RewardIsDue /\ fight[c].boss = found
                                        => fight[c].pc = "won"

OneReward ==
  /\ \A b \in Boss : rewarded[b] <= 1 /\ (rewarded[b] > 0 => b <= found)
  /\ \A c \in Challenger : fight[c].pc \in RewardIsDue => rewarded[fight[c].boss] = 0
  /\ \A c, d \in Challenger :
       /\ fight[c].pc \in RewardIsDue
       /\ fight[d].pc \in RewardIsDue
       /\ fight[c].boss = fight[d].boss
       => c = d

MonstersLeft ==
  /\ coming # {} => search = "add"
  /\ boss_id /\ search # "clear" => Monster \subseteq monsters \cup coming \cup beaten[found]
  /\ \A c \in Challenger : fight[c].pc = "fight" /\ fight[c].boss \notin early
                             => Monster \subseteq fight[c].team \cup beaten[fight[c].boss]

MonstersFell ==
  /\ \A c \in Challenger : fight[c].pc \in RewardIsDue /\ fight[c].boss \notin early
                             => beaten[fight[c].boss] = Monster
  /\ \A b \in Boss : rewarded[b] = 1 /\ b \notin early => beaten[b] = Monster

BossInv ==
  /\ OneFighter
  /\ BossOfTheFight
  /\ BossIsAlive
  /\ OneReward
  /\ MonstersLeft
  /\ MonstersFell

LEMMA BossInvInit == BossInit => BossInv
<1> SUFFICES ASSUME BossInit PROVE BossInv
  OBVIOUS
<1>1. \A c \in Challenger : fight[c].pc = "idle"
  BY DEF BossInit, NoFight, FightAt
<1>2. ~ boss_id
  BY Zenon DEF BossInit
<1>3. coming = {} /\ \A b \in Boss : rewarded[b] = 0
  BY DEF BossInit
<1> QED  BY <1>1, <1>2, <1>3 DEF BossInv, OneFighter, BossOfTheFight, BossIsAlive,
            OneReward, MonstersLeft, MonstersFell, InFight, WithBoss, RewardIsDue

LEMMA SearchKeepsInv ==
  ASSUME BossTypeOK, BossInv, Search PROVE BossInv'
<1> USE FriendBossAssumption DEF BossTypeOK, Boss, InFight, WithBoss, RewardIsDue
<1>1. \A c \in Challenger : fight[c].pc \notin WithBoss
  BY DEF BossInv, BossOfTheFight, Search
<1>2. CASE search' = "end" /\ UNCHANGED <<boss_id, found>>
  BY <1>2 DEF BossInv, OneFighter, BossOfTheFight, BossIsAlive, OneReward,
     MonstersLeft, MonstersFell, Search
<1>3. CASE /\ found < MaxBosses
           /\ search' = "clear"
           /\ boss_id' = TRUE
           /\ found' = found + 1
  <2>1. OneFighter' /\ MonstersFell' /\ MonstersLeft'
    BY <1>1, <1>3 DEF BossInv, OneFighter, MonstersFell, MonstersLeft, Search
  <2>2. BossOfTheFight'
    <3>1. \A c \in Challenger : fight'[c].pc \notin WithBoss
      BY <1>1 DEF Search
    <3>2. \A c \in Challenger : fight'[c].pc \in RewardIsDue
                                => 1 <= fight'[c].boss /\ fight'[c].boss <= found'
      BY <1>3, FightFields DEF BossInv, BossOfTheFight, Search
    <3> QED  BY <3>1, <3>2 DEF BossOfTheFight
  <2>3. OneReward'
    BY <1>3 DEF BossInv, OneReward, Search
  <2>4. BossIsAlive'
    BY <1>1, <1>3 DEF BossInv, BossIsAlive, OneReward, BossOfTheFight, Search
  <2> QED  BY <2>1, <2>2, <2>3, <2>4 DEF BossInv
<1> QED  BY <1>2, <1>3 DEF Search

LEMMA MonstersComeKeepsInv ==
  ASSUME BossTypeOK, BossInv, ClearMonsters \/ AddMonster \/ EndSearch PROVE BossInv'
<1> USE DEF BossTypeOK
<1>1. OneFighter' /\ BossOfTheFight' /\ BossIsAlive' /\ OneReward' /\ MonstersFell'
  BY DEF BossInv, OneFighter, BossOfTheFight, BossIsAlive, OneReward, MonstersFell,
     ClearMonsters, AddMonster, EndSearch
<1>2. MonstersLeft'
  <2>1. CASE ClearMonsters
    BY <2>1 DEF BossInv, MonstersLeft, ClearMonsters
  <2>2. CASE AddMonster
    <3>1. PICK m \in coming : monsters' = monsters \cup {m} /\ coming' = coming \ {m}
      BY <2>2 DEF AddMonster
    <3>2. monsters' \cup coming' = monsters \cup coming
      BY <3>1
    <3>3. search = "add" /\ search' = IF coming' = {} THEN "end" ELSE "add"
      BY <2>2 DEF AddMonster
    <3>4. UNCHANGED <<boss_id, beaten, found, fight, early>>
      BY <2>2 DEF AddMonster
    <3>5. boss_id' => Monster \subseteq monsters' \cup coming' \cup beaten'[found']
      BY <3>2, <3>3, <3>4 DEF BossInv, MonstersLeft
    <3>6. coming' # {} => search' = "add"
      BY <3>3
    <3> QED  BY <3>4, <3>5, <3>6 DEF BossInv, MonstersLeft
  <2>3. CASE EndSearch
    BY <2>3 DEF BossInv, MonstersLeft, EndSearch
  <2> QED  BY <2>1, <2>2, <2>3
<1> QED  BY <1>1, <1>2 DEF BossInv

LEMMA TryFightKeepsInv ==
  ASSUME BossTypeOK, BossInv, NEW c \in Challenger, TryFight(c) PROVE BossInv'
<1>1. PICK n \in 1 .. MaxSweep : OnlyFight(c, FightAt("read", n, {}, 0))
  BY TryFightDoes
<1>2. /\ fight'[c].pc = "read"
      /\ \A d \in Challenger \ {c} : fight'[d] = fight[d]
  BY <1>1 DEF OnlyFight, FightAt
<1> USE DEF BossTypeOK, InFight, WithBoss, RewardIsDue
<1>3. OneFighter'
  BY <1>2 DEF BossInv, OneFighter, TryFight
<1>4. BossOfTheFight' /\ BossIsAlive' /\ OneReward'
  BY <1>2 DEF BossInv, BossOfTheFight, BossIsAlive, OneReward, TryFight, searchVars
<1>5. MonstersLeft' /\ MonstersFell'
  BY <1>2 DEF BossInv, MonstersLeft, MonstersFell, TryFight, searchVars
<1> QED  BY <1>3, <1>4, <1>5 DEF BossInv

LEMMA ReadBossKeepsInv ==
  ASSUME BossTypeOK, BossInv, NEW c \in Challenger, ReadBoss(c) PROVE BossInv'
<1>1. /\ \/ boss_id /\ fight'[c].pc = "init" /\ fight'[c].boss = found
         \/ fight'[c].pc = "cancel"
      /\ \A d \in Challenger \ {c} : fight'[d] = fight[d]
  <2>1. \/ boss_id /\ OnlyFight(c, FightAt("init", fight[c].todo, fight[c].team, found))
        \/ OnlyFight(c, FightAt("cancel", fight[c].todo, fight[c].team, fight[c].boss))
    BY ReadBossDoes
  <2> QED  BY <2>1 DEF OnlyFight, FightAt
<1> USE DEF BossTypeOK, InFight, WithBoss, RewardIsDue
<1>2. fight[c].pc = "read"
  BY DEF ReadBoss
<1>3. OneFighter'
  BY <1>1, <1>2 DEF BossInv, OneFighter, ReadBoss
<1>4. BossOfTheFight'
  BY <1>1 DEF BossInv, BossOfTheFight, BossIsAlive, ReadBoss, searchVars
<1>5. BossIsAlive' /\ OneReward'
  BY <1>1 DEF BossInv, BossIsAlive, OneReward, ReadBoss, searchVars
<1>6. MonstersLeft' /\ MonstersFell'
  BY <1>1 DEF BossInv, MonstersLeft, MonstersFell, ReadBoss, searchVars
<1> QED  BY <1>3, <1>4, <1>5, <1>6 DEF BossInv

LEMMA InitTeamKeepsInv ==
  ASSUME BossTypeOK, BossInv, NEW c \in Challenger, InitTeam(c) PROVE BossInv'
<1>1. /\ \/ /\ fight'[c].pc = "fight" /\ fight'[c].team = monsters
            /\ fight'[c].boss = fight[c].boss
            /\ search \in {"clear", "add"} => fight[c].boss \in early'
         \/ fight'[c].pc = "cancel"
      /\ early \subseteq early'
      /\ \A d \in Challenger \ {c} : fight'[d] = fight[d]
  <2>1. \/ /\ OnlyFight(c, FightAt("fight", fight[c].todo, monsters, fight[c].boss))
           /\ early' = IF search \in {"clear", "add"}
                         THEN early \cup {fight[c].boss} ELSE early
        \/ /\ OnlyFight(c, FightAt("cancel", fight[c].todo, fight[c].team, fight[c].boss))
           /\ early' = early
    BY InitTeamDoes
  <2> QED  BY <2>1 DEF OnlyFight, FightAt
<1> USE DEF BossTypeOK, InFight, WithBoss, RewardIsDue
<1>2. fight[c].pc = "init" /\ boss_id /\ fight[c].boss = found
  BY DEF InitTeam, BossInv, BossOfTheFight
<1>3. OneFighter'
  BY <1>1, <1>2 DEF BossInv, OneFighter, InitTeam
<1>4. BossOfTheFight'
  BY <1>1, <1>2 DEF BossInv, BossOfTheFight, InitTeam, searchVars
<1>5. BossIsAlive' /\ OneReward'
  BY <1>1 DEF BossInv, BossIsAlive, OneReward, InitTeam, searchVars
<1>6. MonstersFell'
  BY <1>1 DEF BossInv, MonstersFell, InitTeam, searchVars
<1>7. search \notin {"clear", "add"} => Monster \subseteq monsters \cup beaten[found]
  BY <1>2 DEF BossInv, MonstersLeft
<1>8. MonstersLeft'
  BY <1>1, <1>2, <1>7 DEF BossInv, MonstersLeft, InitTeam, searchVars
<1> QED  BY <1>3, <1>4, <1>5, <1>6, <1>8 DEF BossInv

LEMMA FightKeepsInv ==
  ASSUME BossTypeOK, BossInv, NEW c \in Challenger, Fight(c) PROVE BossInv'
<1> USE DEF BossTypeOK, InFight, WithBoss, RewardIsDue
<1> DEFINE b == fight[c].boss
<1>1. /\ fight[c].pc = "fight"
      /\ boss_id /\ b = found
      /\ found \in Boss
  BY DEF Fight, BossInv, BossOfTheFight, Boss
<1>2. PICK dead \in SUBSET fight[c].team :
        /\ monsters' = monsters \ dead
        /\ beaten' = [beaten EXCEPT ![b] = @ \cup dead]
        /\ \/ dead = fight[c].team /\ OnlyFight(c, FightAt("won", 0, {}, b))
           \/ OnlyFight(c, FightAt("init", fight[c].todo - 1, {}, b))
           \/ OnlyFight(c, FightAt("cancel", 0, {}, b))
  BY FightDoes
<1>3. /\ fight'[c].pc \in {"won", "init", "cancel"} /\ fight'[c].boss = b
      /\ fight'[c].pc = "won" => dead = fight[c].team
      /\ \A d \in Challenger \ {c} : fight'[d] = fight[d]
  BY <1>2 DEF OnlyFight, FightAt
<1>4. /\ beaten'[found] = beaten[found] \cup dead
      /\ \A a \in Boss : a # found => beaten'[a] = beaten[a]
      /\ \A a \in Boss : beaten[a] \subseteq beaten'[a] /\ beaten'[a] \subseteq Monster
  BY <1>1, <1>2, FightFields
<1>5. OneFighter'
  BY <1>1, <1>3 DEF BossInv, OneFighter, Fight
<1>6. BossOfTheFight'
  BY <1>1, <1>3 DEF BossInv, BossOfTheFight, Fight, searchVars
<1>7. /\ \A d \in Challenger : fight[d].pc \in RewardIsDue => fight[d].boss # found
  BY <1>1 DEF BossInv, BossIsAlive, OneFighter
<1>8. BossIsAlive'
  BY <1>1, <1>3, <1>7 DEF BossInv, BossIsAlive, Fight, searchVars
<1>9. OneReward'
  BY <1>1, <1>3, <1>7 DEF BossInv, OneReward, BossIsAlive, Fight, searchVars
<1>10. MonstersLeft'
  BY <1>1, <1>2, <1>3, <1>4 DEF BossInv, MonstersLeft, OneFighter, Fight, searchVars
<1>11. MonstersFell'
  BY <1>1, <1>2, <1>3, <1>4, <1>7
     DEF BossInv, MonstersFell, MonstersLeft, BossOfTheFight, BossIsAlive, Fight, searchVars
<1> QED  BY <1>5, <1>6, <1>8, <1>9, <1>10, <1>11 DEF BossInv

LEMMA BossGoneKeepsInv ==
  ASSUME BossTypeOK, BossInv, NEW c \in Challenger, BossGone(c) PROVE BossInv'
<1>1. /\ fight[c].pc = "won"
      /\ fight'[c].pc = "gone" /\ fight'[c].boss = fight[c].boss
      /\ \A d \in Challenger \ {c} : fight'[d] = fight[d]
  <2>1. OnlyFight(c, FightAt("gone", fight[c].todo, fight[c].team, fight[c].boss))
    BY FightGoesDoes DEF BossGone
  <2> QED  BY <2>1 DEF BossGone, OnlyFight, FightAt
<1> USE DEF BossTypeOK, InFight, WithBoss, RewardIsDue
<1>2. boss_id' = FALSE
  BY DEF BossGone
<1>3. OneFighter' /\ OneReward' /\ MonstersFell'
  BY <1>1 DEF BossInv, OneFighter, OneReward, MonstersFell, BossGone, searchVars
<1>4. BossOfTheFight'
  BY <1>1 DEF BossInv, OneFighter, BossOfTheFight, BossGone, searchVars
<1>5. BossIsAlive'
  BY <1>2 DEF BossIsAlive
<1>6. MonstersLeft'
  BY <1>1, <1>2 DEF BossInv, MonstersLeft, BossGone, searchVars
<1> QED  BY <1>3, <1>4, <1>5, <1>6 DEF BossInv

LEMMA CancelKeepsInv ==
  ASSUME BossTypeOK, BossInv, NEW c \in Challenger, CancelFight(c) PROVE BossInv'
<1>1. /\ \/ fight[c].pc = "cancel" /\ fight'[c].pc = "idle"
         \/ /\ fight[c].pc = "gone" /\ fight'[c].pc = "reward"
            /\ fight'[c].boss = fight[c].boss
      /\ \A d \in Challenger \ {c} : fight'[d] = fight[d]
  <2>1. \/ fight[c].pc = "cancel" /\ OnlyFight(c, FightAt("idle", 0, {}, 0))
        \/ /\ fight[c].pc = "gone"
           /\ OnlyFight(c, FightAt("reward", fight[c].todo, fight[c].team, fight[c].boss))
    BY FightGoesDoes, FightOverDoes DEF CancelFight
  <2> QED  BY <2>1 DEF OnlyFight, FightAt
<1> USE DEF BossTypeOK, InFight, WithBoss, RewardIsDue
<1>2. OneFighter'
  BY <1>1 DEF BossInv, OneFighter, CancelFight
<1>3. BossOfTheFight' /\ BossIsAlive' /\ OneReward'
  BY <1>1 DEF BossInv, BossOfTheFight, BossIsAlive, OneReward, CancelFight, searchVars
<1>4. MonstersLeft' /\ MonstersFell'
  BY <1>1 DEF BossInv, MonstersLeft, MonstersFell, CancelFight, searchVars
<1> QED  BY <1>2, <1>3, <1>4 DEF BossInv

LEMMA RewardKeepsInv ==
  ASSUME BossTypeOK, BossInv, NEW c \in Challenger, Reward(c) PROVE BossInv'
<1> DEFINE b == fight[c].boss
<1>1. /\ fight[c].pc = "reward"
      /\ fight'[c].pc = "idle"
      /\ \A d \in Challenger \ {c} : fight'[d] = fight[d]
  <2>1. OnlyFight(c, FightAt("idle", 0, {}, 0))
    BY FightOverDoes DEF Reward
  <2> QED  BY <2>1 DEF Reward, OnlyFight, FightAt
<1> USE DEF BossTypeOK, InFight, WithBoss, RewardIsDue
<1>2. b \in Boss /\ b <= found /\ rewarded[b] = 0
  BY <1>1, FightFields, FriendBossAssumption DEF BossInv, BossOfTheFight, OneReward, Boss
<1>3. /\ rewarded'[b] = 1
      /\ \A a \in Boss : a # b => rewarded'[a] = rewarded[a]
  BY <1>2 DEF Reward
<1>4. OneFighter' /\ BossOfTheFight' /\ MonstersLeft'
  BY <1>1 DEF BossInv, OneFighter, BossOfTheFight, MonstersLeft, Reward, searchVars
<1>5. BossIsAlive'
  <2>1. boss_id => b # found
    BY <1>1 DEF BossInv, BossIsAlive
  <2>2. boss_id => found \in Boss
    BY DEF BossInv, BossIsAlive, Boss
  <2> QED  BY <1>1, <1>3, <2>1, <2>2 DEF BossInv, BossIsAlive, Reward, searchVars
<1>6. OneReward'
  <2>1. \A d \in Challenger \ {c} : fight[d].pc \in RewardIsDue
                                     => fight[d].boss # b /\ fight[d].boss \in Boss
    BY <1>1, FightFields, FriendBossAssumption
       DEF BossInv, OneReward, BossOfTheFight, Boss
  <2> QED  BY <1>1, <1>2, <1>3, <2>1 DEF BossInv, OneReward, Reward, searchVars
<1>7. MonstersFell'
  BY <1>1, <1>2, <1>3 DEF BossInv, MonstersFell, Reward, searchVars
<1> QED  BY <1>4, <1>5, <1>6, <1>7 DEF BossInv

LEMMA BossInvStep == BossTypeOK /\ BossInv /\ [BossNext]_bossVars => BossInv'
<1> SUFFICES ASSUME BossTypeOK, BossInv, [BossNext]_bossVars PROVE BossInv'
  OBVIOUS
<1>1. CASE UNCHANGED bossVars
  BY <1>1 DEF bossVars, BossInv, OneFighter, BossOfTheFight, BossIsAlive, OneReward,
     MonstersLeft, MonstersFell
<1>2. ASSUME NEW c \in Challenger, ChallengeStep(c) PROVE BossInv'
  BY <1>2, TryFightKeepsInv, ReadBossKeepsInv, InitTeamKeepsInv, FightKeepsInv,
     BossGoneKeepsInv, CancelKeepsInv, RewardKeepsInv DEF ChallengeStep
<1> QED  BY <1>1, <1>2, SearchKeepsInv, MonstersComeKeepsInv DEF BossNext

\* A boss is rewarded once and, unless somebody met it while the owner's search
\* was still putting its monsters in place, only when all of them have fallen
\* (friend_boss_challenge, player_friend.go).
THEOREM BossFallsOnceCorrect == BossSpec => []BossFallsOnce
<1>1. BossInv => BossFallsOnce
  BY DEF BossInv, OneReward, MonstersFell, BossFallsOnce
<1> QED  BY <1>1, BossTypeInit, BossTypeStep, BossInvInit, BossInvStep, PTL DEF BossSpec

(***************************************************************************)
(* Purchases: types. The manager awards only days of a card in use.        *)
(***************************************************************************)

BuyOK == buy \in [Purchase -> Buys]

OrdersOK ==
  /\ is_paying \subseteq Payer
  /\ orders \subseteq Order
  /\ loose \subseteq Order
  /\ credited \in [Order -> Nat]

CardsOK ==
  /\ send_num \in [Payer -> {NoCard} \cup (0 .. CardDays)]
  /\ days \in [Payer -> {Never} \cup (0 .. MaxDue)]
  /\ mgr \in Managers

AwardsACard == mgr.pc = "award" /\ mgr.left > 0 => CardInUse(mgr.p)

\* Who is at a store holds an order of it.
StorePlaces == {"verify", "check", "save", "release"}

OrdersAreKnown == \A r \in Purchase : buy[r].pc \in StorePlaces => buy[r].order \in Order

RestOK ==
  /\ player_ids_chan \subseteq Payer
  /\ players_map \subseteq Payer
  /\ begun \in 0 .. MaxBegun
  /\ bought \in [Payer -> Nat]
  /\ crossed \subseteq Payer
  /\ mailed \in [Payer -> Nat]

TypeInv == BuyOK /\ OrdersAreKnown /\ OrdersOK /\ CardsOK /\ RestOK /\ AwardsACard

LEMMA TypeInvTypes == TypeInv => ChargeTypeOK
BY Zenon DEF TypeInv, BuyOK, OrdersOK, CardsOK, RestOK, ChargeTypeOK

LEMMA IdleType == Idle \in Buys /\ AnyPayer \in Payer
BY ChargeAssumption DEF Idle, AnyPayer, Buying, Buys, Places, Bundles

LEMMA TypeInvInit == ChargeInit => TypeInv
<1> SUFFICES ASSUME ChargeInit PROVE TypeInv
  OBVIOUS
<1>1. BuyOK
  BY IdleType DEF ChargeInit, BuyOK
<1>2. OrdersOK /\ OrdersAreKnown
  BY DEF ChargeInit, OrdersOK, OrdersAreKnown, StorePlaces, Idle, Buying
<1>3. CardsOK /\ AwardsACard
  BY IdleType, ChargeAssumption DEF ChargeInit, CardsOK, AwardsACard, Managers
<1>4. RestOK
  BY ChargeAssumption DEF ChargeInit, RestOK
<1> QED  BY <1>1, <1>2, <1>3, <1>4 DEF TypeInv

\* What a step of a purchase does to it, field by field.
OnlyBuy(r, place) ==
  /\ buy'[r].pc = place
  /\ place # "idle" => /\ buy'[r].p = buy[r].p
                       /\ buy'[r].order = buy[r].order
                       /\ buy'[r].what = buy[r].what
  /\ \A s \in Purchase \ {r} : buy'[s] = buy[s]

LEMMA BuyingType ==
  ASSUME NEW place \in Places, NEW p \in Payer, NEW order \in Order \cup {NoOrder},
         NEW what \in Bundles
  PROVE  /\ Buying(place, p, order, what) \in Buys
         /\ Buying(place, p, order, what).pc = place
         /\ Buying(place, p, order, what).p = p
         /\ Buying(place, p, order, what).order = order
         /\ Buying(place, p, order, what).what = what
BY DEF Buying, Buys

LEMMA FieldTypes ==
  ASSUME BuyOK, NEW r \in Purchase
  PROVE  /\ buy[r].pc \in Places
         /\ buy[r].p \in Payer
         /\ buy[r].order \in Order \cup {NoOrder}
         /\ buy[r].what \in Bundles
BY DEF BuyOK, Buys

LEMMA GoToDoes ==
  ASSUME BuyOK, NEW r \in Purchase, NEW place \in Places, GoTo(r, place)
  PROVE  BuyOK' /\ OnlyBuy(r, place)
<1> DEFINE b == IF place = "idle" THEN Idle
                ELSE Buying(place, buy[r].p, buy[r].order, buy[r].what)
<1>1. buy' = [buy EXCEPT ![r] = b]
  BY DEF GoTo, BuyOK
<1>2. b \in Buys
  BY FieldTypes, BuyingType, IdleType
<1>3. /\ b.pc = place
      /\ place # "idle" => /\ b.p = buy[r].p
                           /\ b.order = buy[r].order
                           /\ b.what = buy[r].what
  <2>1. CASE place = "idle"
    BY <2>1 DEF Idle, Buying
  <2>2. CASE place # "idle"
    BY <2>2 DEF Buying
  <2> QED  BY <2>1, <2>2
<1> HIDE DEF b
<1>4. buy'[r] = b /\ \A s \in Purchase \ {r} : buy'[s] = buy[s]
  BY <1>1 DEF BuyOK
<1>5. BuyOK'
  BY <1>1, <1>2 DEF BuyOK
<1> QED  BY <1>3, <1>4, <1>5 DEF OnlyBuy

LEMMA BeginChargeDoes ==
  ASSUME BuyOK, NEW r \in Purchase, BeginCharge(r)
  PROVE  /\ BuyOK'
         /\ \/ buy'[r].pc = "credit" /\ buy'[r].order = NoOrder
            \/ buy'[r].pc = "verify" /\ buy'[r].order \in Order
         /\ \A s \in Purchase \ {r} : buy'[s] = buy[s]
         /\ crossed' \subseteq crossed \cup Payer
<1>1. PICK p \in Payer, order \in Order \cup {NoOrder} :
        \E what \in {"goods", IF send_num[p] = NoCard THEN "card" ELSE "renewal"} :
         /\ buy' = [buy EXCEPT ![r] =
              Buying(IF order = NoOrder THEN "credit" ELSE "verify", p, order, what)]
         /\ crossed' = IF what # "goods" /\ BuyingCard(p) # {}
                       THEN crossed \cup {p} ELSE crossed
  BY Zenon DEF BeginCharge
<1>2. PICK what \in Bundles :
         /\ buy' = [buy EXCEPT ![r] =
              Buying(IF order = NoOrder THEN "credit" ELSE "verify", p, order, what)]
         /\ crossed' = IF what # "goods" /\ BuyingCard(p) # {}
                       THEN crossed \cup {p} ELSE crossed
  BY <1>1 DEF Bundles
<1> DEFINE place == IF order = NoOrder THEN "credit" ELSE "verify"
           b == Buying(place, p, order, what)
<1>3. place \in Places
  BY DEF Places
<1>4. b \in Buys /\ b.pc = place /\ b.order = order
  BY <1>3, BuyingType
<1>5. buy' = [buy EXCEPT ![r] = b]
  BY <1>2
<1> HIDE DEF b
<1>6. BuyOK' /\ buy'[r] = b /\ \A s \in Purchase \ {r} : buy'[s] = buy[s]
  BY <1>4, <1>5 DEF BuyOK
<1>7. order # NoOrder => order \in Order
  OBVIOUS
<1> QED  BY <1>2, <1>4, <1>6, <1>7

LEMMA OrderSteps ==
  ASSUME BuyOK, NEW r \in Purchase,
         \/ TryPay(r) \/ CheckOrder(r) \/ VerifyFails(r) \/ SaveOrder(r) \/ ReleasePay(r)
  PROVE  /\ BuyOK'
         /\ \E place \in Places : OnlyBuy(r, place)
         /\ UNCHANGED <<send_num, days, player_ids_chan, players_map, mgr, credited,
                        bought, crossed, begun, mailed>>
<1>1. \E place \in Places : GoTo(r, place)
  BY DEF TryPay, CheckOrder, VerifyFails, SaveOrder, ReleasePay, Places
<1>2. UNCHANGED <<send_num, days, player_ids_chan, players_map, mgr, credited,
                  bought, crossed, begun, mailed>>
  BY DEF TryPay, CheckOrder, VerifyFails, SaveOrder, ReleasePay
<1> QED  BY <1>1, <1>2, GoToDoes

LEMMA OrderStepTypes ==
  ASSUME TypeInv, NEW r \in Purchase,
         \/ TryPay(r) \/ CheckOrder(r) \/ VerifyFails(r) \/ SaveOrder(r) \/ ReleasePay(r)
  PROVE  TypeInv'
<1>1. BuyOK'
  BY OrderSteps DEF TypeInv
<1>2. CardsOK' /\ RestOK' /\ AwardsACard'
  BY OrderSteps DEF TypeInv, CardsOK, RestOK, AwardsACard, CardInUse
<1>3. PICK place \in Places : OnlyBuy(r, place)
  BY OrderSteps DEF TypeInv
<1>4. buy[r].p \in Payer /\ (buy[r].pc \in StorePlaces => buy[r].order \in Order)
  BY FieldTypes DEF TypeInv, OrdersAreKnown
<1>5. OrdersOK'
  BY <1>4 DEF TypeInv, OrdersOK, StorePlaces, TryPay, CheckOrder, VerifyFails, SaveOrder,
     ReleasePay, At
<1>6. buy[r].pc \in StorePlaces
  BY DEF StorePlaces, TryPay, CheckOrder, VerifyFails, SaveOrder, ReleasePay, At
<1>7. OrdersAreKnown'
  BY <1>3, <1>6 DEF TypeInv, OrdersAreKnown, OnlyBuy, StorePlaces
<1> QED  BY <1>1, <1>2, <1>5, <1>7 DEF TypeInv

LEMMA CreditTypes == ASSUME TypeInv, NEW r \in Purchase, Credit(r) PROVE TypeInv'
<1> DEFINE p == buy[r].p
<1>0. PICK place \in {"award_time", "idle"} : GoTo(r, place)
  BY DEF Credit
<1>1. BuyOK' /\ OnlyBuy(r, place)
  BY <1>0, GoToDoes DEF TypeInv, Places
<1>2. OrdersAreKnown'
  BY <1>1 DEF TypeInv, OrdersAreKnown, OnlyBuy, StorePlaces
<1>3. OrdersOK'
  BY DEF Credit, TypeInv, OrdersOK
<1>4. /\ p \in Payer
      /\ \/ UNCHANGED <<send_num, bought>>
         \/ /\ \/ send_num' = [send_num EXCEPT ![p] = 0]
               \/ send_num' = send_num /\ send_num[p] # NoCard
            /\ bought' = [bought EXCEPT ![p] = @ + 1]
      /\ UNCHANGED <<days, mgr, player_ids_chan, players_map, crossed, begun, mailed>>
  BY FieldTypes DEF Credit, TypeInv, CardsOK
<1> HIDE DEF p
<1>5. CardsOK'
  BY <1>4, ChargeAssumption DEF TypeInv, CardsOK
<1>6. AwardsACard'
  BY <1>4, ChargeAssumption DEF TypeInv, CardsOK, AwardsACard, CardInUse, Managers
<1>7. RestOK'
  BY <1>4 DEF TypeInv, RestOK
<1> QED  BY <1>1, <1>2, <1>3, <1>5, <1>6, <1>7 DEF TypeInv

LEMMA PurchaseStepTypes == ASSUME TypeInv, NEW r \in Purchase, PurchaseStep(r) PROVE TypeInv'
<1>1. CASE BeginCharge(r)
  <2>1. BuyOK' /\ crossed' \subseteq Payer
    BY <1>1, BeginChargeDoes DEF TypeInv, RestOK
  <2>2. OrdersOK' /\ CardsOK' /\ AwardsACard'
    BY <1>1 DEF BeginCharge, TypeInv, OrdersOK, CardsOK, AwardsACard, CardInUse
  <2>3. RestOK'
    BY <1>1, <2>1, ChargeAssumption DEF BeginCharge, TypeInv, RestOK
  <2>4. OrdersAreKnown'
    BY <1>1, BeginChargeDoes DEF TypeInv, OrdersAreKnown, StorePlaces
  <2> QED  BY <2>1, <2>2, <2>3, <2>4 DEF TypeInv
<1>2. CASE ResetAwardTime(r)
  <2>1. BuyOK' /\ OnlyBuy(r, "insert") /\ buy[r].p \in Payer
    BY <1>2, GoToDoes, FieldTypes DEF ResetAwardTime, TypeInv, Places
  <2>2. OrdersAreKnown'
    BY <2>1 DEF TypeInv, OrdersAreKnown, OnlyBuy, StorePlaces
  <2>3. OrdersOK' /\ RestOK' /\ AwardsACard'
    BY <1>2 DEF ResetAwardTime, TypeInv, OrdersOK, RestOK, AwardsACard, CardInUse
  <2>4. CardsOK'
    BY <1>2, <2>1 DEF ResetAwardTime, TypeInv, CardsOK
  <2> QED  BY <2>1, <2>2, <2>3, <2>4 DEF TypeInv
<1>3. CASE InsertPlayer(r)
  <2>1. BuyOK' /\ OnlyBuy(r, "idle") /\ buy[r].p \in Payer
    BY <1>3, GoToDoes, FieldTypes DEF InsertPlayer, TypeInv, Places
  <2>2. OrdersAreKnown'
    BY <2>1 DEF TypeInv, OrdersAreKnown, OnlyBuy, StorePlaces
  <2>3. OrdersOK' /\ CardsOK' /\ AwardsACard'
    BY <1>3 DEF InsertPlayer, TypeInv, OrdersOK, CardsOK, AwardsACard, CardInUse
  <2>4. RestOK'
    BY <1>3, <2>1 DEF InsertPlayer, TypeInv, RestOK
  <2> QED  BY <2>1, <2>2, <2>3, <2>4 DEF TypeInv
<1> QED  BY <1>1, <1>2, <1>3, CreditTypes, OrderStepTypes DEF PurchaseStep

LEMMA ManagerStepTypes == ASSUME TypeInv, ManagerStep \/ DayPasses PROVE TypeInv'
<1> USE ChargeAssumption
<1>0. BuyOK' /\ OrdersAreKnown' /\ OrdersOK'
  BY DEF ManagerStep, DayPasses, managerUnchanged, DrainPlayers, LookAtCard, SendCardMail,
     AwardEnds, DropPlayers, TypeInv, BuyOK, OrdersAreKnown, OrdersOK
<1>1. ASSUME CardsOK', AwardsACard', RestOK' PROVE TypeInv'
  BY <1>0, <1>1 DEF TypeInv
<1>2. CASE DrainPlayers
  <2>1. mgr'.pc = "send" /\ mgr' \in Managers
    BY <1>2 DEF DrainPlayers, TypeInv, CardsOK, RestOK, Managers
  <2> QED  BY <1>1, <1>2, <2>1
           DEF DrainPlayers, managerUnchanged, TypeInv, CardsOK, RestOK, AwardsACard
<1>3. ASSUME NEW p \in Payer, LookAtCard(p) PROVE TypeInv'
  <2>1. DaysDue(p) \in 0 .. MaxDue
    BY DEF DaysDue, TypeInv, CardsOK
  <2>2. /\ mgr' \in Managers
        /\ mgr'.pc = "award" => mgr'.p = p /\ CardInUse(p)
    BY <1>3, <2>1 DEF LookAtCard, TypeInv, CardsOK, Managers
  <2> QED  BY <1>1, <1>3, <2>2
           DEF LookAtCard, managerUnchanged, TypeInv, CardsOK, RestOK, AwardsACard, CardInUse
<1>4. CASE SendCardMail
  <2>1. /\ mgr.p \in Payer /\ mgr.left \in 1 .. MaxDue
        /\ send_num[mgr.p] \in 0 .. CardDays - 1
    BY <1>4 DEF SendCardMail, TypeInv, CardsOK, Managers, AwardsACard, CardInUse
  <2>2. send_num' = [send_num EXCEPT ![mgr.p] = @ + 1]
    BY <1>4 DEF SendCardMail
  <2>3. /\ mgr' \in Managers /\ mgr'.p = mgr.p
        /\ mgr'.left > 0 => send_num'[mgr.p] < CardDays
    BY <1>4, <2>1 DEF SendCardMail, TypeInv, CardsOK, Managers
  <2>4. CardsOK'
    BY <1>4, <2>1, <2>2, <2>3 DEF SendCardMail, TypeInv, CardsOK
  <2>5. AwardsACard'
    BY <2>1, <2>2, <2>3 DEF TypeInv, CardsOK, AwardsACard, CardInUse
  <2>6. RestOK'
    BY <1>4, <2>1 DEF SendCardMail, managerUnchanged, TypeInv, RestOK
  <2> QED  BY <1>1, <2>4, <2>5, <2>6
<1>5. CASE AwardEnds
  <2>1. mgr' \in Managers /\ mgr'.pc = "send" /\ mgr.p \in Payer
    BY <1>5 DEF AwardEnds, TypeInv, CardsOK, Managers
  <2> QED  BY <1>1, <1>5, <2>1
           DEF AwardEnds, managerUnchanged, TypeInv, CardsOK, RestOK, AwardsACard
<1>6. CASE DropPlayers
  <2>1. mgr' \in Managers /\ mgr'.pc = "drain"
    BY <1>6 DEF DropPlayers, TypeInv, CardsOK, Managers
  <2> QED  BY <1>1, <1>6, <2>1
           DEF DropPlayers, managerUnchanged, TypeInv, CardsOK, RestOK, AwardsACard
<1>7. CASE DayPasses
  BY <1>1, <1>7 DEF DayPasses, managerUnchanged, TypeInv, CardsOK, RestOK, AwardsACard,
     CardInUse, Never
<1> QED  BY <1>2, <1>3, <1>4, <1>5, <1>6, <1>7 DEF ManagerStep

LEMMA TypeInvStep == TypeInv /\ [ChargeNext]_chargeVars => TypeInv'
<1>1. ASSUME TypeInv, UNCHANGED chargeVars PROVE TypeInv'
  BY <1>1 DEF chargeVars, TypeInv, BuyOK, OrdersAreKnown, OrdersOK, CardsOK, RestOK,
     AwardsACard, CardInUse
<1> QED  BY <1>1, PurchaseStepTypes, ManagerStepTypes DEF ChargeNext

\* Every variable of purchases and of the manager (pay.go, player_charge.go) is
\* of its type; SendMailNum stays within the days of a card.
THEOREM ChargeTypeCorrect == ChargeSpec => []ChargeTypeOK
BY TypeInvInit, TypeInvStep, TypeInvTypes, PTL DEF ChargeSpec

(***************************************************************************)
(* Orders. is_paying keeps the check and the save of one player's order    *)
(* together; whom it does not keep apart is among the rivals of a check.   *)
(***************************************************************************)

AtStore == {"check", "save", "release"}
\* From the check that found the order unused to the credit.
Holding == {"save", "release", "credit"}

PayingKnown == \A r \in Purchase : buy[r].pc \in AtStore => buy[r].p \in is_paying

OnePays ==
  \A r, s \in Purchase :
    buy[r].pc \in AtStore /\ buy[s].pc \in AtStore /\ buy[r].p = buy[s].p => r = s

OneHolds ==
  \A r, s \in Purchase :
    /\ buy[r].pc \in Holding /\ buy[s].pc \in Holding
    /\ buy[r].order = buy[s].order /\ buy[r].order \in Order \ loose
    => r = s

HeldIsUncredited ==
  \A r \in Purchase :
    buy[r].pc \in Holding /\ buy[r].order \in Order \ loose => credited[buy[r].order] = 0

HeldIsSaved ==
  \A r \in Purchase :
    buy[r].pc \in {"release", "credit"} /\ buy[r].order \in Order \ loose
    => buy[r].order \in orders

CreditedIsSaved == \A o \in Order \ loose : credited[o] > 0 => o \in orders

PayInv == PayingKnown /\ OnePays

OrderInv == OneHolds /\ HeldIsUncredited /\ HeldIsSaved /\ CreditedIsSaved /\ OrderCreditedOnce

LEMMA OrdersInvInit == ChargeInit => PayInv /\ OrderInv
BY DEF ChargeInit, Idle, Buying, AtStore, Holding, PayInv, PayingKnown, OnePays, OrderInv,
   OneHolds, HeldIsUncredited, HeldIsSaved, CreditedIsSaved, OrderCreditedOnce

\* A purchase that ends, or goes where it pays no more, leaves the others alone.
LEMMA PayLeaves ==
  ASSUME PayInv, BuyOK, NEW r \in Purchase, NEW place, OnlyBuy(r, place), place \notin AtStore,
         \/ is_paying' = is_paying
         \/ is_paying' = is_paying \ {buy[r].p} /\ buy[r].pc \in AtStore
  PROVE  PayInv'
BY DEF PayInv, PayingKnown, OnePays, OnlyBuy

LEMMA PayStays ==
  ASSUME PayInv, BuyOK, NEW r \in Purchase, NEW place, OnlyBuy(r, place),
         place # "idle", buy[r].pc \in AtStore, is_paying' = is_paying
  PROVE  PayInv'
BY DEF PayInv, PayingKnown, OnePays, OnlyBuy

LEMMA PurchaseKeepsPay ==
  ASSUME TypeInv, PayInv, NEW r \in Purchase, PurchaseStep(r) PROVE PayInv'
<1>0. BuyOK
  BY DEF TypeInv
<1>1. CASE BeginCharge(r)
  <2>1. /\ buy'[r].pc \notin AtStore
        /\ \A s \in Purchase \ {r} : buy'[s] = buy[s]
        /\ is_paying' = is_paying
    BY <1>0, <1>1, BeginChargeDoes DEF BeginCharge, AtStore
  <2> QED  BY <2>1 DEF PayInv, PayingKnown, OnePays
<1>2. CASE TryPay(r)
  <2>1. CASE buy[r].p \in is_paying
    <3>1. OnlyBuy(r, "idle") /\ is_paying' = is_paying
      BY <1>0, <1>2, <2>1, GoToDoes DEF TryPay, Places
    <3> QED  BY <1>0, <3>1, PayLeaves DEF AtStore
  <2>2. CASE buy[r].p \notin is_paying
    <3>1. OnlyBuy(r, "check") /\ is_paying' = is_paying \cup {buy[r].p}
      BY <1>0, <1>2, <2>2, GoToDoes DEF TryPay, Places
    <3> QED  BY <2>2, <3>1 DEF PayInv, PayingKnown, OnePays, OnlyBuy
  <2> QED  BY <2>1, <2>2
<1>3. CASE CheckOrder(r) \/ VerifyFails(r) \/ SaveOrder(r) \/ ReleasePay(r)
  <2>1. buy[r].pc \in AtStore
    BY <1>3 DEF CheckOrder, VerifyFails, SaveOrder, ReleasePay, At, AtStore
  <2>2. \/ GoTo(r, "idle") /\ is_paying' = is_paying \ {buy[r].p}
        \/ GoTo(r, "credit") /\ is_paying' = is_paying \ {buy[r].p}
        \/ GoTo(r, "save") /\ is_paying' = is_paying
        \/ GoTo(r, "release") /\ is_paying' = is_paying
    BY <1>3 DEF CheckOrder, VerifyFails, SaveOrder, ReleasePay
  <2>3. \/ OnlyBuy(r, "idle") /\ is_paying' = is_paying \ {buy[r].p}
        \/ OnlyBuy(r, "credit") /\ is_paying' = is_paying \ {buy[r].p}
        \/ OnlyBuy(r, "save") /\ is_paying' = is_paying
        \/ OnlyBuy(r, "release") /\ is_paying' = is_paying
    BY <1>0, <2>2, GoToDoes DEF Places
  <2> QED  BY <1>0, <2>1, <2>3, PayLeaves, PayStays DEF AtStore
<1>4. CASE Credit(r) \/ ResetAwardTime(r) \/ InsertPlayer(r)
  <2>1. \E place \in {"award_time", "insert", "idle"} : GoTo(r, place) /\ is_paying' = is_paying
    BY <1>4 DEF Credit, ResetAwardTime, InsertPlayer
  <2>2. \E place \in {"award_time", "insert", "idle"} : OnlyBuy(r, place) /\ is_paying' = is_paying
    BY <1>0, <2>1, GoToDoes DEF Places
  <2> QED  BY <1>0, <2>2, PayLeaves DEF AtStore
<1> QED  BY <1>1, <1>2, <1>3, <1>4 DEF PurchaseStep

\* A step after which no purchase holds an order that none held before.
LEMMA NobodyTakesHold ==
  ASSUME OrderInv, NEW r \in Purchase,
         \A s \in Purchase \ {r} : buy'[s] = buy[s],
         \/ buy'[r].pc \notin Holding
         \/ buy'[r].order = NoOrder,
         loose' = loose, orders' = orders, credited' = credited
  PROVE  OrderInv'
BY ChargeAssumption
   DEF OrderInv, OneHolds, HeldIsUncredited, HeldIsSaved, CreditedIsSaved, OrderCreditedOnce,
       Holding

\* One that holds an order goes on with it.
LEMMA HolderGoesOn ==
  ASSUME OrderInv, NEW r \in Purchase, NEW place, OnlyBuy(r, place), place # "idle",
         buy[r].pc \in Holding, loose \subseteq loose', orders \subseteq orders',
         credited' = credited,
         place \in {"release", "credit"} =>
           buy[r].order \in loose' \cup orders'
  PROVE  OrderInv'
BY DEF OrderInv, OneHolds, HeldIsUncredited, HeldIsSaved, CreditedIsSaved, OrderCreditedOnce,
       OnlyBuy

LEMMA CheckKeepsOrders ==
  ASSUME TypeInv, PayInv, OrderInv, NEW r \in Purchase, CheckOrder(r)
  PROVE  OrderInv'
<1>0. BuyOK /\ buy[r].pc = "check" /\ orders' = orders /\ credited' = credited
  BY DEF TypeInv, CheckOrder, At
<1>1. CASE GoTo(r, "idle") /\ loose' = loose
  <2>1. OnlyBuy(r, "idle")
    BY <1>0, <1>1, GoToDoes DEF Places
  <2> QED  BY <1>0, <1>1, <2>1, NobodyTakesHold DEF OnlyBuy, Holding
<1>2. CASE /\ GoTo(r, "save")
           /\ \/ loose' = loose \cup {buy[r].order}
              \/ loose' = loose /\ Rivals(r) = {} /\ buy[r].order \notin orders
  <2>1. OnlyBuy(r, "save")
    BY <1>0, <1>2, GoToDoes DEF Places
  <2>2. ASSUME buy[r].order \in Order \ loose'
        PROVE  /\ buy[r].order \notin orders /\ Rivals(r) = {}
               /\ credited[buy[r].order] = 0
               /\ \A s \in Purchase \ {r} : buy[s].order = buy[r].order => buy[s].pc \notin Holding
    <3>1. loose' = loose /\ Rivals(r) = {} /\ buy[r].order \notin orders
      BY <1>2, <2>2
    <3>2. credited[buy[r].order] = 0
      BY <2>2, <3>1 DEF OrderInv, CreditedIsSaved, TypeInv, OrdersOK
    <3>3. ASSUME NEW s \in Purchase \ {r}, buy[s].order = buy[r].order, buy[s].pc \in Holding
          PROVE  FALSE
      <4>1. buy[s].pc = "save"
        BY <2>2, <3>1, <3>3 DEF OrderInv, HeldIsSaved, Holding
      <4>2. buy[s].p = buy[r].p
        BY <3>1, <3>3, <4>1 DEF Rivals
      <4> QED  BY <1>0, <3>3, <4>1, <4>2 DEF PayInv, OnePays, AtStore
    <3> QED  BY <3>1, <3>2, <3>3
  <2>3. OneHolds'
    BY <1>2, <2>1, <2>2 DEF OrderInv, OneHolds, OnlyBuy
  <2>4. HeldIsUncredited'
    BY <1>0, <1>2, <2>1, <2>2 DEF OrderInv, HeldIsUncredited, OnlyBuy
  <2>5. HeldIsSaved' /\ CreditedIsSaved' /\ OrderCreditedOnce'
    BY <1>0, <1>2, <2>1
       DEF OrderInv, HeldIsSaved, CreditedIsSaved, OrderCreditedOnce, OnlyBuy
  <2> QED  BY <2>3, <2>4, <2>5 DEF OrderInv
<1> QED  BY <1>1, <1>2 DEF CheckOrder

LEMMA CreditKeepsOrders ==
  ASSUME TypeInv, OrderInv, NEW r \in Purchase, Credit(r) PROVE OrderInv'
<1>0. BuyOK /\ buy[r].pc = "credit" /\ orders' = orders /\ loose' = loose
  BY DEF TypeInv, Credit, At
<1>1. PICK place \in {"award_time", "idle"} : OnlyBuy(r, place)
  BY <1>0, GoToDoes DEF Credit, Places
<1>2. credited \in [Order -> Nat]
  BY DEF TypeInv, OrdersOK
<1>3. /\ credited' \in [Order -> Nat]
      /\ \A o \in Order : credited'[o] = IF o = buy[r].order THEN credited[o] + 1 ELSE credited[o]
  BY <1>2 DEF Credit
<1>4. ASSUME NEW o \in Order \ loose, o = buy[r].order
      PROVE  /\ credited[o] = 0 /\ o \in orders
             /\ \A s \in Purchase \ {r} : buy[s].order = o => buy[s].pc \notin Holding
  BY <1>0, <1>4 DEF OrderInv, HeldIsUncredited, HeldIsSaved, OneHolds, Holding
<1>5. OneHolds' /\ HeldIsSaved'
  BY <1>0, <1>1 DEF OrderInv, OneHolds, HeldIsSaved, OnlyBuy, Holding
<1>6. HeldIsUncredited'
  BY <1>0, <1>1, <1>3, <1>4 DEF OrderInv, HeldIsUncredited, OnlyBuy, Holding
<1>7. CreditedIsSaved' /\ OrderCreditedOnce'
  BY <1>0, <1>2, <1>3, <1>4 DEF OrderInv, CreditedIsSaved, OrderCreditedOnce
<1> QED  BY <1>5, <1>6, <1>7 DEF OrderInv

LEMMA PurchaseKeepsOrders ==
  ASSUME TypeInv, PayInv, OrderInv, NEW r \in Purchase, PurchaseStep(r) PROVE OrderInv'
<1>0. BuyOK
  BY DEF TypeInv
<1>1. CASE BeginCharge(r)
  <2>1. /\ buy'[r].order = NoOrder \/ buy'[r].pc \notin Holding
        /\ \A s \in Purchase \ {r} : buy'[s] = buy[s]
    BY <1>0, <1>1, BeginChargeDoes DEF Holding
  <2> QED  BY <1>1, <2>1, NobodyTakesHold DEF BeginCharge
<1>2. CASE TryPay(r) \/ VerifyFails(r) \/ ResetAwardTime(r) \/ InsertPlayer(r)
  <2>1. \E place \in {"check", "insert", "idle"} : GoTo(r, place)
    BY <1>2 DEF TryPay, VerifyFails, ResetAwardTime, InsertPlayer
  <2>2. loose' = loose /\ orders' = orders /\ credited' = credited
    BY <1>2 DEF TryPay, VerifyFails, ResetAwardTime, InsertPlayer
  <2>3. buy'[r].pc \notin Holding /\ \A s \in Purchase \ {r} : buy'[s] = buy[s]
    BY <1>0, <2>1, GoToDoes DEF Places, OnlyBuy, Holding
  <2> QED  BY <2>2, <2>3, NobodyTakesHold
<1>3. CASE SaveOrder(r)
  <2>1. OnlyBuy(r, "release") /\ buy[r].pc = "save" /\ credited' = credited
    BY <1>0, <1>3, GoToDoes DEF SaveOrder, At, Places
  <2>2. /\ loose \subseteq loose' /\ orders \subseteq orders'
        /\ buy[r].order \in loose' \cup orders'
    BY <1>3 DEF SaveOrder
  <2> QED  BY <2>1, <2>2, HolderGoesOn DEF Holding
<1>4. CASE ReleasePay(r)
  <2>1. /\ OnlyBuy(r, "credit") /\ buy[r].pc = "release" /\ buy[r].order \in Order
        /\ credited' = credited /\ loose' = loose /\ orders' = orders
    BY <1>0, <1>4, GoToDoes DEF ReleasePay, At, Places, TypeInv, OrdersAreKnown, StorePlaces
  <2>2. buy[r].order \in loose \cup orders
    BY <2>1 DEF OrderInv, HeldIsSaved
  <2> QED  BY <2>1, <2>2, HolderGoesOn DEF Holding
<1> QED  BY <1>1, <1>2, <1>3, <1>4, CheckKeepsOrders, CreditKeepsOrders DEF PurchaseStep

LEMMA OrderInvStep ==
  TypeInv /\ PayInv /\ OrderInv /\ [ChargeNext]_chargeVars => PayInv' /\ OrderInv'
<1>1. ASSUME PayInv, OrderInv, UNCHANGED <<buy, is_paying, orders, loose, credited>>
      PROVE  PayInv' /\ OrderInv'
  BY <1>1 DEF PayInv, PayingKnown, OnePays, OrderInv, OneHolds, HeldIsUncredited, HeldIsSaved,
     CreditedIsSaved, OrderCreditedOnce
<1>2. ManagerStep \/ DayPasses \/ UNCHANGED chargeVars
      => UNCHANGED <<buy, is_paying, orders, loose, credited>>
  BY DEF ManagerStep, DrainPlayers, LookAtCard, SendCardMail, AwardEnds, DropPlayers, DayPasses,
     managerUnchanged, chargeVars
<1> QED  BY <1>1, <1>2, PurchaseKeepsPay, PurchaseKeepsOrders DEF ChargeNext

\* An order of a store is credited once at most (verify_google_purchase_data,
\* verify_apple_purchase_data), but for one whose check or save met an error of
\* Redis and one that two players send at a time.
THEOREM OrderCorrect == ChargeSpec => []OrderCreditedOnce
<1>1. TypeInv /\ PayInv /\ OrderInv /\ [ChargeNext]_chargeVars => TypeInv' /\ PayInv' /\ OrderInv'
  BY TypeInvStep, OrderInvStep
<1>2. OrderInv => OrderCreditedOnce
  BY DEF OrderInv
<1> QED  BY <1>1, <1>2, TypeInvInit, OrdersInvInit, PTL DEF ChargeSpec

(***************************************************************************)
(* Card holders: who has a card in use is with the manager, in the channel *)
(* or about to be put there.                                               *)
(***************************************************************************)

LEMMA PurchaseKeepsHolders ==
  ASSUME TypeInv, CardHolderIsServed, NEW r \in Purchase, PurchaseStep(r)
  PROVE  CardHolderIsServed'
<1>0. BuyOK
  BY DEF TypeInv
<1>a. players_map' = players_map /\ mgr' = mgr /\ player_ids_chan \subseteq player_ids_chan'
  BY DEF PurchaseStep, BeginCharge, TryPay, CheckOrder, VerifyFails, SaveOrder, ReleasePay,
     Credit, ResetAwardTime, InsertPlayer
<1>1. CASE BeginCharge(r) \/ TryPay(r) \/ CheckOrder(r) \/ VerifyFails(r) \/ SaveOrder(r)
           \/ ReleasePay(r)
  <2>1. send_num' = send_num /\ buy[r].pc \notin {"award_time", "insert"}
    BY <1>1 DEF BeginCharge, TryPay, CheckOrder, VerifyFails, SaveOrder, ReleasePay, At
  <2>2. \A s \in Purchase \ {r} : buy'[s] = buy[s]
    BY <1>0, <1>1, BeginChargeDoes, OrderSteps DEF OnlyBuy
  <2> QED  BY <1>a, <2>1, <2>2 DEF CardHolderIsServed, CardInUse
<1>2. CASE Credit(r) /\ buy[r].what # "goods"
  <2>1. OnlyBuy(r, "award_time") /\ buy[r].p \in Payer
    BY <1>0, <1>2, GoToDoes, FieldTypes DEF Credit, Places
  <2>2. \A p \in Payer \ {buy[r].p} : send_num'[p] = send_num[p]
    BY <1>2 DEF Credit, TypeInv, CardsOK
  <2>3. \A s \in Purchase : /\ buy[s].pc \in {"award_time", "insert"}
                            => buy'[s].pc \in {"award_time", "insert"} /\ buy'[s].p = buy[s].p
    BY <2>1 DEF OnlyBuy
  <2>4. buy'[r].pc = "award_time" /\ buy'[r].p = buy[r].p
    BY <2>1 DEF OnlyBuy
  <2> QED  BY <1>a, <2>1, <2>2, <2>3, <2>4 DEF CardHolderIsServed, CardInUse
<1>3. CASE Credit(r) /\ buy[r].what = "goods"
  <2>1. OnlyBuy(r, "idle") /\ send_num' = send_num /\ buy[r].pc = "credit"
    BY <1>0, <1>3, GoToDoes DEF Credit, Places, At
  <2> QED  BY <1>a, <2>1 DEF CardHolderIsServed, CardInUse, OnlyBuy
<1>4. CASE ResetAwardTime(r)
  <2>1. OnlyBuy(r, "insert") /\ send_num' = send_num
    BY <1>0, <1>4, GoToDoes DEF ResetAwardTime, Places
  <2> QED  BY <1>a, <2>1 DEF CardHolderIsServed, CardInUse, OnlyBuy
<1>5. CASE InsertPlayer(r)
  <2>1. OnlyBuy(r, "idle") /\ send_num' = send_num /\ buy[r].p \in player_ids_chan'
    BY <1>0, <1>5, GoToDoes DEF InsertPlayer, Places
  <2> QED  BY <1>a, <2>1 DEF CardHolderIsServed, CardInUse, OnlyBuy
<1> QED  BY <1>1, <1>2, <1>3, <1>4, <1>5 DEF PurchaseStep

LEMMA ManagerKeepsHolders ==
  ASSUME TypeInv, CardHolderIsServed, ManagerStep PROVE CardHolderIsServed'
<1>0. buy' = buy
  BY DEF ManagerStep, DrainPlayers, LookAtCard, SendCardMail, AwardEnds, DropPlayers,
     managerUnchanged
<1>1. CASE DrainPlayers
  <2>1. mgr'.gone = {}
    BY <1>1 DEF DrainPlayers, TypeInv, CardsOK, Managers
  <2> QED  BY <1>0, <1>1, <2>1 DEF DrainPlayers, CardHolderIsServed, CardInUse
<1>2. ASSUME NEW p \in Payer, LookAtCard(p) PROVE CardHolderIsServed'
  <2>1. mgr'.gone = IF CardInUse(p) THEN mgr.gone ELSE mgr.gone \cup {p}
    BY <1>2 DEF LookAtCard, TypeInv, CardsOK, Managers
  <2> QED  BY <1>0, <1>2, <2>1 DEF LookAtCard, CardHolderIsServed, CardInUse
<1>3. CASE SendCardMail
  <2>1. mgr'.gone = mgr.gone /\ mgr.p \in Payer /\ CardInUse(mgr.p)
    BY <1>3 DEF SendCardMail, TypeInv, CardsOK, Managers, AwardsACard
  <2>2. \A p \in Payer : p # mgr.p => send_num'[p] = send_num[p]
    BY <1>3 DEF SendCardMail, TypeInv, CardsOK
  <2> QED  BY <1>0, <1>3, <2>1, <2>2 DEF SendCardMail, CardHolderIsServed, CardInUse
<1>4. CASE AwardEnds
  <2>1. mgr'.gone = mgr.gone
    BY <1>4 DEF AwardEnds, TypeInv, CardsOK, Managers
  <2> QED  BY <1>0, <1>4, <2>1 DEF AwardEnds, CardHolderIsServed, CardInUse
<1>5. CASE DropPlayers
  <2>1. mgr'.gone = {}
    BY <1>5 DEF DropPlayers, TypeInv, CardsOK, Managers
  <2> QED  BY <1>0, <1>5, <2>1 DEF DropPlayers, CardHolderIsServed, CardInUse
<1> QED  BY <1>1, <1>2, <1>3, <1>4, <1>5 DEF ManagerStep

\* A player with a card in use is in the manager's map and stays there, or is in
\* the channel, or his purchase is about to put him there (InsertPlayer, Run,
\* _process_send_mails): the mails of the days he has paid for will come.
THEOREM HolderCorrect == ChargeSpec => []CardHolderIsServed
<1>1. ChargeInit => CardHolderIsServed
  BY ChargeAssumption DEF ChargeInit, CardHolderIsServed, CardInUse, NoCard
<1>2. ASSUME CardHolderIsServed, DayPasses \/ UNCHANGED chargeVars PROVE CardHolderIsServed'
  BY <1>2 DEF DayPasses, managerUnchanged, chargeVars, CardHolderIsServed, CardInUse
<1>3. TypeInv /\ CardHolderIsServed /\ [ChargeNext]_chargeVars => TypeInv' /\ CardHolderIsServed'
  BY <1>2, TypeInvStep, PurchaseKeepsHolders, ManagerKeepsHolders DEF ChargeNext
<1> QED  BY <1>1, <1>3, TypeInvInit, PTL DEF ChargeSpec
(***************************************************************************)
(* Cards. Between the look at a card and the credit nobody else buys one   *)
(* for the player, so the look still holds at the credit: the card is gone *)
(* through all its days, or there is none.                                 *)
(***************************************************************************)

Looked(r) == buy[r].what # "goods" /\ buy[r].pc \notin {"idle", "award_time", "insert"}

OneLooks ==
  \A r, s \in Purchase :
    Looked(r) /\ Looked(s) /\ buy[r].p = buy[s].p /\ buy[r].p \notin crossed => r = s

LookHolds ==
  \A r \in Purchase :
    Looked(r) /\ buy[r].p \notin crossed
    => send_num[buy[r].p] = IF buy[r].what = "card" THEN NoCard ELSE CardDays

BoughtACard == \A p \in Payer : bought[p] = 0 <=> send_num[p] = NoCard

CardInv == OneLooks /\ LookHolds /\ BoughtACard /\ CardMailsAddUp

\* Where a purchase has not looked at a card yet, or has been credited.
Aside == {"idle", "award_time", "insert"}

LEMMA CardInvInit == ChargeInit => CardInv
BY IdleType DEF ChargeInit, Idle, Buying, Looked, CardInv, OneLooks, LookHolds, BoughtACard,
   CardMailsAddUp, NoCard

\* A purchase that goes on, or ends, without a credit.
LEMMA LookerGoesOn ==
  ASSUME CardInv, NEW r \in Purchase, NEW place, OnlyBuy(r, place),
         place \in Aside \/ buy[r].pc \notin Aside,
         UNCHANGED <<send_num, bought, mailed, crossed>>
  PROVE  CardInv'
<1>1. \A s \in Purchase :
        Looked(s)' => Looked(s) /\ buy'[s].p = buy[s].p /\ buy'[s].what = buy[s].what
  BY DEF OnlyBuy, Looked, Aside
<1>2. OneLooks' /\ LookHolds'
  BY <1>1 DEF CardInv, OneLooks, LookHolds
<1>3. BoughtACard' /\ CardMailsAddUp'
  BY DEF CardInv, BoughtACard, CardMailsAddUp
<1> QED  BY <1>2, <1>3 DEF CardInv

LEMMA BeginLooks ==
  ASSUME BuyOK, NEW r \in Purchase, BeginCharge(r)
  PROVE  \E p \in Payer, what \in Bundles :
           /\ buy'[r].p = p /\ buy'[r].what = what
           /\ what # "goods" => ~ CardInUse(p) /\ (what = "card" <=> send_num[p] = NoCard)
           /\ crossed' = IF what # "goods" /\ BuyingCard(p) # {}
                         THEN crossed \cup {p} ELSE crossed
<1>1. PICK p \in Payer, order \in Order \cup {NoOrder} :
        \E what \in {"goods", IF send_num[p] = NoCard THEN "card" ELSE "renewal"} :
         /\ what # "goods" => ~ CardInUse(p)
         /\ buy' = [buy EXCEPT ![r] =
              Buying(IF order = NoOrder THEN "credit" ELSE "verify", p, order, what)]
         /\ crossed' = IF what # "goods" /\ BuyingCard(p) # {}
                       THEN crossed \cup {p} ELSE crossed
  BY Zenon DEF BeginCharge
<1>2. PICK what \in Bundles :
         /\ what # "goods" => ~ CardInUse(p) /\ (what = "card" <=> send_num[p] = NoCard)
         /\ buy' = [buy EXCEPT ![r] =
              Buying(IF order = NoOrder THEN "credit" ELSE "verify", p, order, what)]
         /\ crossed' = IF what # "goods" /\ BuyingCard(p) # {}
                       THEN crossed \cup {p} ELSE crossed
  BY <1>1 DEF Bundles
<1> DEFINE b == Buying(IF order = NoOrder THEN "credit" ELSE "verify", p, order, what)
<1>3. b.p = p /\ b.what = what /\ buy'[r] = b
  BY <1>2 DEF BuyOK, Buying
<1> HIDE DEF b
<1> QED  BY <1>2, <1>3

LEMMA BeginKeepsCards ==
  ASSUME TypeInv, CardInv, NEW r \in Purchase, BeginCharge(r) PROVE CardInv'
<1>0. BuyOK /\ buy[r].pc = "idle" /\ UNCHANGED <<send_num, bought, mailed>>
  BY DEF TypeInv, BeginCharge, At
<1>1. PICK p \in Payer, what \in Bundles :
           /\ buy'[r].p = p /\ buy'[r].what = what
           /\ what # "goods" => ~ CardInUse(p) /\ (what = "card" <=> send_num[p] = NoCard)
           /\ crossed' = IF what # "goods" /\ BuyingCard(p) # {}
                         THEN crossed \cup {p} ELSE crossed
  BY <1>0, BeginLooks
<1>2. \A s \in Purchase \ {r} : buy'[s] = buy[s]
  BY <1>0, BeginChargeDoes
<1>3. crossed \subseteq crossed' /\ send_num[p] \in {NoCard} \cup (0 .. CardDays)
  BY <1>1 DEF TypeInv, CardsOK
<1>4. what # "goods" => send_num[p] = IF what = "card" THEN NoCard ELSE CardDays
  BY <1>1, <1>3, ChargeAssumption DEF CardInUse, NoCard
<1>5. ASSUME what # "goods", p \notin crossed', NEW s \in Purchase, Looked(s), buy[s].p = p
      PROVE  FALSE
  <2>1. s \in BuyingCard(p)
    BY <1>5 DEF Looked, BuyingCard
  <2> QED  BY <1>1, <1>5, <2>1
<1>6. OneLooks'
  BY <1>1, <1>2, <1>3, <1>5 DEF CardInv, OneLooks, Looked
<1>7. LookHolds'
  BY <1>0, <1>1, <1>2, <1>3, <1>4 DEF CardInv, LookHolds, Looked
<1>8. BoughtACard' /\ CardMailsAddUp'
  BY <1>0, <1>3 DEF CardInv, BoughtACard, CardMailsAddUp
<1> QED  BY <1>6, <1>7, <1>8 DEF CardInv

LEMMA CreditKeepsCards ==
  ASSUME TypeInv, CardInv, NEW r \in Purchase, Credit(r) PROVE CardInv'
<1>0. /\ BuyOK /\ buy[r].pc = "credit" /\ UNCHANGED <<mailed, crossed>>
      /\ send_num \in [Payer -> {NoCard} \cup (0 .. CardDays)]
      /\ bought \in [Payer -> Nat] /\ mailed \in [Payer -> Nat]
      /\ buy[r].p \in Payer /\ buy[r].what \in Bundles
  BY FieldTypes DEF TypeInv, CardsOK, RestOK, Credit, At
<1>1. CASE buy[r].what = "goods"
  <2>1. OnlyBuy(r, "idle") /\ UNCHANGED <<send_num, bought, mailed, crossed>>
    BY <1>0, <1>1, GoToDoes DEF Credit, Places
  <2> QED  BY <2>1, LookerGoesOn DEF Aside
<1>2. CASE buy[r].what # "goods"
  <2> DEFINE p == buy[r].p
  <2>1. OnlyBuy(r, "award_time") /\ Looked(r)
    BY <1>0, <1>2, GoToDoes DEF Credit, Places, Looked
  <2>2. /\ send_num' = [send_num EXCEPT ![p] =
                          IF buy[r].what = "renewal" \/ @ = NoCard THEN 0 ELSE @]
        /\ bought' = [bought EXCEPT ![p] = @ + 1]
    BY <1>2 DEF Credit
  <2>3. /\ \A q \in Payer \ {p} : send_num'[q] = send_num[q] /\ bought'[q] = bought[q]
        /\ bought'[p] = bought[p] + 1 /\ bought[p] \in Nat /\ mailed[p] \in Nat
        /\ send_num'[p] = IF buy[r].what = "renewal" \/ send_num[p] = NoCard
                          THEN 0 ELSE send_num[p]
    BY <1>0, <2>2
  <2>4. send_num'[p] # NoCard
    BY <1>0, <2>3 DEF NoCard
  <2>5. \A s \in Purchase : Looked(s)' => /\ s # r /\ Looked(s)
                                          /\ buy'[s] = buy[s]
    BY <2>1 DEF OnlyBuy, Looked
  <2>6. \A s \in Purchase : Looked(s)' /\ p \notin crossed => buy[s].p # p
    BY <2>1, <2>5 DEF CardInv, OneLooks
  <2>7. OneLooks'
    BY <1>0, <2>5 DEF CardInv, OneLooks
  <2>8. LookHolds'
    BY <1>0, <2>3, <2>5, <2>6, FieldTypes DEF CardInv, LookHolds
  <2>9. BoughtACard'
    BY <1>0, <2>3, <2>4 DEF CardInv, BoughtACard
  <2>10. CardMailsAddUp'
    <3>1. ASSUME p \notin crossed
          PROVE  mailed[p] = CardDays * (bought'[p] - 1) + send_num'[p]
      <4>1. send_num[p] = IF buy[r].what = "card" THEN NoCard ELSE CardDays
        BY <1>0, <2>1, <3>1 DEF CardInv, LookHolds
      <4>2. send_num'[p] = 0
        BY <1>0, <1>2, <2>3, <4>1 DEF Bundles
      <4>3. IF bought[p] = 0 THEN mailed[p] = 0
            ELSE mailed[p] = CardDays * (bought[p] - 1) + send_num[p]
        BY <1>0, <3>1 DEF CardInv, CardMailsAddUp
      <4>4. bought[p] = 0 <=> send_num[p] = NoCard
        BY <1>0 DEF CardInv, BoughtACard
      <4>5. CardDays * bought[p] = IF bought[p] = 0 THEN 0
                                   ELSE CardDays * (bought[p] - 1) + CardDays
        BY <2>3, ChargeAssumption
      <4>6. mailed[p] = CardDays * bought[p]
        BY <4>1, <4>3, <4>4, <4>5, <2>3, ChargeAssumption DEF NoCard
      <4>7. bought'[p] - 1 = bought[p] /\ CardDays * bought[p] \in Nat
        BY <2>3, <4>5, <4>6
      <4> HIDE DEF p
      <4> QED  BY <4>2, <4>6, <4>7
    <3>2. bought'[p] # 0
      BY <2>3
    <3> QED  BY <1>0, <2>3, <3>1, <3>2 DEF CardInv, CardMailsAddUp
  <2> QED  BY <2>7, <2>8, <2>9, <2>10 DEF CardInv
<1> QED  BY <1>1, <1>2

\* Nobody who has looked waits for a player whose card gives mails.
LEMMA MailKeepsCards == ASSUME TypeInv, CardInv, SendCardMail PROVE CardInv'
<1> DEFINE p == mgr.p
<1>1. /\ p \in Payer /\ send_num[p] \in 0 .. CardDays - 1
      /\ send_num \in [Payer -> {NoCard} \cup (0 .. CardDays)]
      /\ bought \in [Payer -> Nat] /\ mailed \in [Payer -> Nat]
  BY DEF SendCardMail, TypeInv, CardsOK, RestOK, Managers, AwardsACard, CardInUse
<1>2. /\ \A q \in Payer \ {p} : send_num'[q] = send_num[q] /\ mailed'[q] = mailed[q]
      /\ send_num'[p] = send_num[p] + 1 /\ mailed'[p] = mailed[p] + 1
      /\ UNCHANGED <<buy, bought, crossed>>
  BY <1>1 DEF SendCardMail, managerUnchanged
<1> HIDE DEF p
<1>3. send_num[p] # NoCard /\ send_num[p] # CardDays /\ send_num'[p] # NoCard
  BY <1>1, <1>2, ChargeAssumption DEF NoCard
<1>4. BoughtACard'
  BY <1>2, <1>3 DEF CardInv, BoughtACard
<1>5. OneLooks'
  BY <1>2 DEF CardInv, OneLooks, Looked
<1>6. \A s \in Purchase : Looked(s) /\ buy[s].p \notin crossed => buy[s].p # p
  BY <1>3 DEF CardInv, LookHolds
<1>7. LookHolds'
  BY <1>2, <1>6, FieldTypes DEF TypeInv, CardInv, LookHolds, Looked
<1>8. CardMailsAddUp'
  <2>1. bought[p] # 0
    BY <1>1, <1>3 DEF CardInv, BoughtACard
  <2>2. bought[p] \in Nat /\ mailed[p] \in Nat /\ CardDays * (bought[p] - 1) \in Int
    BY <1>1, ChargeAssumption
  <2> DEFINE before == CardDays * (bought[p] - 1)
  <2>3. p \notin crossed => mailed[p] = before + send_num[p]
    BY <1>1, <2>1 DEF CardInv, CardMailsAddUp
  <2>4. p \notin crossed => mailed'[p] = before + send_num'[p]
    <3> HIDE DEF before
    <3> QED  BY <1>1, <1>2, <2>2, <2>3 DEF before
  <2> QED  BY <1>2, <2>1, <2>4 DEF CardInv, CardMailsAddUp
<1> QED  BY <1>4, <1>5, <1>7, <1>8 DEF CardInv

LEMMA CardInvStep == TypeInv /\ CardInv /\ [ChargeNext]_chargeVars => CardInv'
<1>1. ASSUME CardInv, UNCHANGED <<buy, send_num, bought, mailed, crossed>> PROVE CardInv'
  BY <1>1 DEF CardInv, OneLooks, LookHolds, BoughtACard, CardMailsAddUp, Looked
<1>2. ManagerStep \/ DayPasses \/ UNCHANGED chargeVars
      => SendCardMail \/ UNCHANGED <<buy, send_num, bought, mailed, crossed>>
  BY DEF ManagerStep, DrainPlayers, LookAtCard, AwardEnds, DropPlayers, DayPasses,
     managerUnchanged, chargeVars
<1>3. ASSUME TypeInv, CardInv, NEW r \in Purchase, PurchaseStep(r) PROVE CardInv'
  <2>0. BuyOK
    BY <1>3 DEF TypeInv
  <2>1. CASE \/ TryPay(r) \/ CheckOrder(r) \/ VerifyFails(r) \/ SaveOrder(r) \/ ReleasePay(r)
    <3>1. /\ \E place \in Places : OnlyBuy(r, place)
          /\ UNCHANGED <<send_num, bought, mailed, crossed>>
      BY <2>0, <2>1, OrderSteps
    <3>2. buy[r].pc \notin Aside
      BY <2>1 DEF TryPay, CheckOrder, VerifyFails, SaveOrder, ReleasePay, At, Aside
    <3> QED  BY <1>3, <3>1, <3>2, LookerGoesOn
  <2>2. CASE ResetAwardTime(r) \/ InsertPlayer(r)
    <3>1. /\ \E place \in {"insert", "idle"} : GoTo(r, place)
          /\ UNCHANGED <<send_num, bought, mailed, crossed>>
      BY <2>2 DEF ResetAwardTime, InsertPlayer
    <3>2. \E place \in {"insert", "idle"} : OnlyBuy(r, place)
      BY <2>0, <3>1, GoToDoes DEF Places
    <3> QED  BY <1>3, <3>1, <3>2, LookerGoesOn DEF Aside
  <2> QED  BY <1>3, <2>1, <2>2, BeginKeepsCards, CreditKeepsCards DEF PurchaseStep
<1> QED  BY <1>1, <1>2, <1>3, MailKeepsCards DEF ChargeNext

\* Every card gives the mails of its days, neither more nor fewer
\* (charge_month_card_award, _charge_with_bundle_id), but for a player two of
\* whose purchases have looked at the card before either was credited.
THEOREM CardMailsCorrect == ChargeSpec => []CardMailsAddUp
<1>1. TypeInv /\ CardInv /\ [ChargeNext]_chargeVars => TypeInv' /\ CardInv'
  BY TypeInvStep, CardInvStep
<1>2. CardInv => CardMailsAddUp
  BY DEF CardInv
<1> QED  BY <1>1, <1>2, TypeInvInit, CardInvInit, PTL DEF ChargeSpec

(***************************************************************************)
(* Together. A step of the composition is a step of one component, and the *)
(* others stutter.                                                         *)
(***************************************************************************)

LEMMA ComponentsStart ==
  ServicesInit => /\ ChargeInit /\ FriendsInit /\ BossInit
                  /\ LinksInit /\ RegistryInit /\ AccountsInit
                  /\ Init /\ MailInit /\ SysMailsInit
BY Zenon DEF ServicesInit, PowerInit

\* What a step of MCServices is to each component but the list and the roles.
LEMMA ComponentsStep ==
  [ServicesNext]_servicesVars =>
    /\ [ChargeNext]_chargeVars /\ [FriendsNext]_friendVars /\ [BossNext]_bossVars
    /\ [LinksNext]_linksVars /\ [RegistryNext]_registryVars /\ [AccountsNext]_accountVars
    /\ [MailNext]_mailVars /\ [SysMailsNext]_sysMailVars
<1>1. ASSUME ServicesNext
      PROVE  /\ ChargeNext \/ UNCHANGED chargeVars
             /\ FriendsNext \/ UNCHANGED friendVars
             /\ BossNext \/ UNCHANGED bossVars
             /\ LinksNext \/ UNCHANGED linksVars
             /\ RegistryNext \/ UNCHANGED registryVars
             /\ AccountsNext \/ UNCHANGED accountVars
             /\ MailNext \/ UNCHANGED mailVars
             /\ SysMailsNext \/ UNCHANGED sysMailVars
  BY <1>1, Zenon DEF ServicesNext, HallNext, LoginNext, PlayerDataNext
<1>2. ASSUME UNCHANGED servicesVars
      PROVE  /\ UNCHANGED chargeVars /\ UNCHANGED friendVars /\ UNCHANGED bossVars
             /\ UNCHANGED linksVars /\ UNCHANGED registryVars /\ UNCHANGED accountVars
             /\ UNCHANGED mailVars /\ UNCHANGED sysMailVars
  BY <1>2 DEF servicesVars
<1> QED  BY <1>1, <1>2

\* The list is moved by itself or by the roles; of these, one at most in a behaviour.
LEMMA RolesStep ==
  [ServicesNext]_servicesVars =>
    /\ focus' = focus
    /\ focus = "roles" => [PowerNext]_powerVars
    /\ focus # "roles" => /\ [Next]_listVars
                          /\ UNCHANGED <<roles, power, to_load, loaded, told_powers, unranked, intruders>>
<1> DEFINE RolesStay == UNCHANGED <<roles, power, to_load, loaded, told_powers, unranked, intruders>>
<1>1. UNCHANGED powerVars <=> UNCHANGED listVars /\ RolesStay
  BY DEF powerVars, listVars
<1>2. ASSUME ServicesNext
      PROVE  /\ focus' = focus
             /\ focus = "roles" => PowerNext \/ UNCHANGED powerVars
             /\ focus # "roles" => \/ Next /\ RolesStay
                                   \/ UNCHANGED powerVars
  <2> HIDE DEF RolesStay
  <2>1. CASE HallNext \/ LoginNext
    BY <1>2, <2>1, Zenon DEF ServicesNext, HallNext, LoginNext
  <2>2. CASE PlayerDataNext
    <3>1. CASE focus = "list"
      BY <1>2, <2>2, <3>1 DEF ServicesNext, PlayerDataNext, RolesStay
    <3>2. CASE focus # "list"
      BY <1>2, <2>2, <3>2, Zenon DEF ServicesNext, PlayerDataNext
    <3> QED  BY <3>1, <3>2
  <2> QED  BY <1>2, <2>1, <2>2 DEF ServicesNext
<1>3. ASSUME UNCHANGED servicesVars
      PROVE  focus' = focus /\ UNCHANGED powerVars
  BY <1>3 DEF servicesVars
<1> HIDE DEF RolesStay
<1>4. [ServicesNext]_servicesVars =>
        /\ focus' = focus
        /\ focus = "roles" => [PowerNext]_powerVars
        /\ focus # "roles" => [Next]_listVars /\ RolesStay
  BY <1>1, <1>2, <1>3
<1> QED  BY <1>4 DEF RolesStay

\* Whoever moves, the list is a list and the roles are of their types.
RolesInv == RankInv /\ PowerTypeOK /\ (focus = "roles" => PowerInv)

LEMMA RolesInvInit == ServicesInit => RolesInv
BY PowerInvInit, Zenon DEF ServicesInit, RolesInv, PowerInv

LEMMA RolesInvStep == RolesInv /\ [ServicesNext]_servicesVars => RolesInv'
<1> SUFFICES ASSUME RolesInv, [ServicesNext]_servicesVars PROVE RolesInv'
  OBVIOUS
<1>1. CASE focus = "roles"
  <2>1. PowerInv'
    BY <1>1, RolesStep, PowerInvStep DEF RolesInv
  <2> QED  BY <2>1 DEF PowerInv, RolesInv
<1>2. CASE focus # "roles"
  <2>1. /\ RankInv' /\ focus' # "roles"
        /\ UNCHANGED <<roles, power, to_load, loaded, told_powers, unranked, intruders>>
    BY <1>2, RolesStep, ListStep DEF RolesInv
  <2>2. PowerTypeOK'
    BY <2>1 DEF RolesInv, RankInv, PowerTypeOK
  <2> QED  BY <2>1, <2>2 DEF RolesInv
<1> QED  BY <1>1, <1>2

LEMMA RolesInvHolds == ServicesSpec => []RolesInv
BY RolesInvInit, RolesInvStep, PTL DEF ServicesSpec

LEMMA ListMoves == RolesInv /\ [ServicesNext]_servicesVars => [Next]_listVars
BY RolesStep, RolesMoveList DEF RolesInv

\* Purchases, friends, bosses, links, registry, accounts, rank list, mails and system mails
\* behave beside each other as each of them does alone: nothing one of them does is seen by
\* another, and the list is a rank list also where the roles of a player move it.
THEOREM ServicesAreTheirParts ==
  ServicesSpec => /\ ChargeSpec /\ FriendsSpec /\ BossSpec
                  /\ LinksSpec /\ RegistrySpec /\ AccountsSpec
                  /\ Spec /\ MailSpec /\ SysMailsSpec
BY ComponentsStart, ComponentsStep, RolesInvHolds, ListMoves, PTL
   DEF ServicesSpec, ChargeSpec, FriendsSpec, BossSpec, LinksSpec, RegistrySpec, AccountsSpec,
       Spec, MailSpec, SysMailsSpec

\* Every variable of purchases, friends, bosses, links, registry, accounts, rank list, roles,
\* mails and system mails is of its type in any behaviour of them together.
THEOREM ServicesTypeCorrect == ServicesSpec => []ServicesTypeOK
<1>1. ChargeTypeOK /\ FriendsTypeOK /\ BossTypeOK /\ LinksTypeOK /\ RegistryTypeOK
        /\ AccountsTypeOK /\ MailTypeOK /\ SysMailsTypeOK /\ RolesInv
        => ServicesTypeOK
  BY DEF ServicesTypeOK, RolesInv
<1> QED
  BY <1>1, ServicesAreTheirParts, RolesInvHolds, ChargeTypeCorrect, FriendsTypeCorrect,
     BossTypeCorrect, LinksTypeCorrect, RegistryTypeCorrect, AccountsTypeCorrect,
     MailTypeCorrect, SysMailsTypeCorrect, PTL
=============================================================================
