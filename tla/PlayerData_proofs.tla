------------------------- MODULE PlayerData_proofs --------------------------
(***************************************************************************)
(* The rank list: array and map agree, the best stand first, and an update *)
(* moves one key and nobody else, for any keys, places and values. Then a  *)
(* player's roles by power: nobody is refused by the list, and the first   *)
(* places are told, for any roles and bag. Then his mails: the box keeps   *)
(* its limit, a new mail is whole and is told of; and the system mails,    *)
(* which reach him, and not more than twice.                               *)
(***************************************************************************)
EXTENDS RolePowerRank, Mail, SysMails, FiniteSetTheorems, TLAPS

(***************************************************************************)
(* Moving an item. Whoever stood at i stands at Dest(from, to, i) then,    *)
(* and only the place `to` is taken anew.                                  *)
(***************************************************************************)

Dest(from, to, i) ==
  IF i \in to..(from - 1) THEN i + 1
  ELSE IF i \in (from + 1)..to THEN i - 1
  ELSE i

ItemsOK == items \in [Idx -> Item \cup {NoItem}]
MapOK == keys_map \in [Key -> Idx \cup {NoIdx}]

LEMMA IdxType == /\ Idx \subseteq Int /\ NoIdx \notin Idx /\ NoIdx \in Int
                 /\ MaxNum \in Nat /\ \A i \in Int : i \in Idx <=> 0 <= i /\ i < MaxNum
BY ShortRankListAssumption DEF Idx, NoIdx

LEMMA ItemKinds ==
  ASSUME NEW it \in Item \cup {NoItem}
  PROVE  /\ it.key \in Key <=> it \in Item
         /\ it.key = NoKey <=> it = NoItem
         /\ it.key \in Key \cup {NoKey}
         /\ it.value \in Value
         /\ it \in Item <=> it # NoItem
BY ShortRankListAssumption DEF Item, NoItem, Value

LEMMA DestPlaces ==
  ASSUME NEW from \in Idx, NEW to \in Idx
  PROVE  /\ \A i \in Idx \ {from} : Dest(from, to, i) \in Idx \ {to}
         /\ \A i \in Idx \ {to} : \E j \in Idx \ {from} : Dest(from, to, j) = i
<1>1. ASSUME NEW i \in Idx \ {from}
      PROVE  Dest(from, to, i) \in Idx \ {to}
  BY <1>1, ShortRankListAssumption DEF Dest, Idx
<1>2. ASSUME NEW i \in Idx \ {to}
      PROVE  \E j \in Idx \ {from} : Dest(from, to, j) = i
  <2>1. CASE i \in (to + 1)..from
    <3>1. i - 1 \in Idx \ {from} /\ Dest(from, to, i - 1) = i
      BY <2>1, <1>2, ShortRankListAssumption DEF Dest, Idx
    <3>2. QED BY <3>1
  <2>2. CASE i \in from..(to - 1)
    <3>1. i + 1 \in Idx \ {from} /\ Dest(from, to, i + 1) = i
      BY <2>2, <1>2, ShortRankListAssumption DEF Dest, Idx
    <3>2. QED BY <3>1
  <2>3. CASE i \notin (to + 1)..from /\ i \notin from..(to - 1)
    <3>1. i \in Idx \ {from} /\ Dest(from, to, i) = i
      BY <2>3, <1>2, ShortRankListAssumption DEF Dest, Idx
    <3>2. QED BY <3>1
  <2>4. QED BY <2>1, <2>2, <2>3
<1>3. QED BY <1>1, <1>2

LEMMA DestOrder ==
  ASSUME NEW from \in Int, NEW to \in Int, NEW i \in Int, NEW j \in Int,
         i # from, j # from
  PROVE  Dest(from, to, i) < Dest(from, to, j) <=> i < j
BY DEF Dest

LEMMA MovedItems ==
  ASSUME ItemsOK, NEW from \in Idx, NEW to \in Idx, NEW it \in Item \cup {NoItem}
  PROVE  /\ Moved(from, to, it) \in [Idx -> Item \cup {NoItem}]
         /\ Moved(from, to, it)[to] = it
         /\ \A i \in Idx \ {from} : Moved(from, to, it)[Dest(from, to, i)] = items[i]
<1>1. ASSUME NEW i \in Idx
      PROVE  Moved(from, to, it)[i] \in Item \cup {NoItem}
  <2>1. /\ i \in (to + 1)..from => i - 1 \in Idx
        /\ i \in from..(to - 1) => i + 1 \in Idx
    BY ShortRankListAssumption DEF Idx
  <2>2. QED BY <2>1 DEF Moved, ItemsOK
<1>2. Moved(from, to, it)[to] = it
  BY DEF Moved
<1>3. ASSUME NEW i \in Idx \ {from}
      PROVE  Moved(from, to, it)[Dest(from, to, i)] = items[i]
  <2> DEFINE d == Dest(from, to, i)
  <2>1. d \in Idx /\ d # to
    BY DestPlaces
  <2>2. CASE i \in to..(from - 1)
    <3>1. d = i + 1 /\ d \in (to + 1)..from /\ d - 1 = i
      BY <2>2, IdxType DEF Dest
    <3>2. QED BY <3>1, <2>1 DEF Moved
  <2>3. CASE i \in (from + 1)..to
    <3>1. d = i - 1 /\ d \in from..(to - 1) /\ d \notin (to + 1)..from /\ d + 1 = i
      BY <2>3, IdxType DEF Dest
    <3>2. QED BY <3>1, <2>1 DEF Moved
  <2>4. CASE i \notin to..(from - 1) /\ i \notin (from + 1)..to
    <3>1. d = i /\ d \notin (to + 1)..from /\ d \notin from..(to - 1)
      BY <2>4, <2>1, IdxType DEF Dest
    <3>2. QED BY <3>1, <2>1 DEF Moved
  <2>5. QED BY <2>2, <2>3, <2>4
<1>4. Moved(from, to, it) = [i \in Idx |-> Moved(from, to, it)[i]]
  BY DEF Moved
<1>5. QED BY <1>1, <1>2, <1>3, <1>4

(***************************************************************************)
(* What every operation on a key k does: the item `it` comes to the place  *)
(* `to`, the others are shifted and the map follows them.                  *)
(***************************************************************************)

RankInv == TypeOK /\ MapLeadsToItems /\ BestFirst

\* Where the item of k is, or the place behind the last.
PlaceOf(k) == IF Has(k) THEN keys_map[k] ELSE curr_num

Shifted(k, to, it) ==
  /\ ItemsOK' /\ MapOK'
  /\ items'[to] = it
  /\ \A i \in Idx \ {PlaceOf(k)} : items'[Dest(PlaceOf(k), to, i)] = items[i]
  /\ \A j \in Key \ {k} : keys_map'[j] = IF Has(j) THEN Dest(PlaceOf(k), to, keys_map[j])
                                         ELSE NoIdx
  /\ keys_map'[k] = IF it = NoItem THEN NoIdx ELSE to

LEMMA ItemsOfKeys ==
  ASSUME TypeOK, MapLeadsToItems
  PROVE  /\ \A i \in Idx, j \in Key : items[i].key = j <=> keys_map[j] = i
         /\ \A j \in Key : Has(j) => keys_map[j] \in Idx /\ keys_map[j] \in 0..(curr_num - 1)
         /\ \A i \in Idx : i < curr_num => items[i] \in Item
         /\ \A i \in Idx : i >= curr_num => items[i] = NoItem
<1>1. ASSUME NEW i \in Idx, NEW j \in Key, items[i].key = j
      PROVE  keys_map[j] = i
  <2>1. i < curr_num
    BY <1>1, ShortRankListAssumption DEF MapLeadsToItems, NoItem
  <2>2. QED BY <1>1, <2>1 DEF MapLeadsToItems
<1>2. ASSUME NEW i \in Idx, NEW j \in Key, keys_map[j] = i
      PROVE  items[i].key = j
  BY <1>2, IdxType DEF MapLeadsToItems, Has
<1>3. ASSUME NEW j \in Key, Has(j)
      PROVE  keys_map[j] \in Idx /\ keys_map[j] \in 0..(curr_num - 1)
  <2>1. keys_map[j] \in Idx /\ keys_map[j] < curr_num /\ curr_num \in Nat
    BY <1>3 DEF TypeOK, MapLeadsToItems, Has
  <2>2. QED BY <2>1, ShortRankListAssumption DEF Idx
<1>4. ASSUME NEW i \in Idx, i < curr_num
      PROVE  items[i] \in Item
  BY <1>4, ItemKinds DEF MapLeadsToItems, TypeOK
<1>5. ASSUME NEW i \in Idx, i >= curr_num
      PROVE  items[i] = NoItem
  <2>1. ~ i < curr_num
    BY <1>5, IdxType DEF TypeOK
  <2>2. QED BY <2>1 DEF MapLeadsToItems
<1>6. QED BY <1>1, <1>2, <1>3, <1>4, <1>5

\* The places that are entered anew hold every item that was shifted, and each key once.
LEMMA MappedFollows ==
  ASSUME TypeOK, MapLeadsToItems, NEW k \in Key, NEW to \in Idx, PlaceOf(k) \in Idx,
         NEW it \in Item \cup {NoItem}, it.key \in {k, NoKey},
         items' = Moved(PlaceOf(k), to, it),
         NEW places \in SUBSET Idx, it.key = k => to \in places,
         \A i \in Idx \ {PlaceOf(k)} :
            i < curr_num => \/ Dest(PlaceOf(k), to, i) \in places
                            \/ Dest(PlaceOf(k), to, i) = i
  PROVE  /\ \A j \in Key \ {k} : Mapped(items', places)[j] =
              IF Has(j) THEN Dest(PlaceOf(k), to, keys_map[j]) ELSE NoIdx
         /\ it.key = k => Mapped(items', places)[k] = to
         /\ Mapped(items', places) \in [Key -> Idx \cup {NoIdx}]
<1> DEFINE from == PlaceOf(k)
<1>1. /\ items'[to] = it
      /\ \A i \in Idx \ {from} : items'[Dest(from, to, i)] = items[i]
  BY MovedItems DEF TypeOK, ItemsOK
<1>2. NoKey \notin Key
  BY ShortRankListAssumption
<1>3. \A i \in Idx, j \in Key : items[i].key = j <=> keys_map[j] = i
  BY ItemsOfKeys
<1>4. \A i \in Idx \ {from} : items[i].key # k
  BY <1>3, IdxType DEF PlaceOf, Has
\* A key other than k is where Dest says, or nowhere.
<1>5. ASSUME NEW j \in Key \ {k}, NEW d \in Idx, items'[d].key = j
      PROVE  Has(j) /\ d = Dest(from, to, keys_map[j])
  <2>1. d # to
    BY <1>5, <1>1, <1>2
  <2>2. PICK i \in Idx \ {from} : Dest(from, to, i) = d
    BY <2>1, DestPlaces
  <2>3. items[i].key = j
    BY <2>2, <1>1, <1>5
  <2>4. keys_map[j] = i
    BY <2>3, <1>3
  <2>5. QED BY <2>4, <2>2, IdxType DEF Has
<1>6. ASSUME NEW j \in Key, Has(j), j # k
      PROVE  /\ keys_map[j] \in Idx \ {from} /\ keys_map[j] < curr_num
             /\ items'[Dest(from, to, keys_map[j])].key = j
             /\ Dest(from, to, keys_map[j]) \in Idx
  <2>1. keys_map[j] \in Idx /\ items[keys_map[j]].key = j /\ keys_map[j] < curr_num
    BY <1>6 DEF TypeOK, MapLeadsToItems, Has
  <2>2. keys_map[j] # from
    <3>1. CASE Has(k)
      BY <3>1, <2>1, <1>3, <1>6, IdxType DEF PlaceOf, Has
    <3>2. CASE ~ Has(k)
      BY <3>2, <2>1, IdxType DEF PlaceOf, TypeOK
    <3>3. QED BY <3>1, <3>2
  <2>3. QED BY <2>1, <2>2, <1>1, DestPlaces
<1>7. ASSUME NEW j \in Key \ {k}
      PROVE  Mapped(items', places)[j] =
               IF Has(j) THEN Dest(from, to, keys_map[j]) ELSE NoIdx
  <2>1. CASE \E i \in places : items'[i].key = j
    <3>1. PICK i \in places : items'[i].key = j /\ Mapped(items', places)[j] = i
      BY <2>1 DEF Mapped
    <3>2. QED BY <3>1, <1>5
  <2>2. CASE ~ \E i \in places : items'[i].key = j
    <3>1. Mapped(items', places)[j] = keys_map[j]
      BY <2>2 DEF Mapped
    <3>2. CASE ~ Has(j)
      BY <3>1, <3>2 DEF Has
    <3>3. CASE Has(j)
      <4>1. Dest(from, to, keys_map[j]) \notin places
        BY <3>3, <1>6, <2>2
      <4>2. QED BY <4>1, <3>1, <3>3, <1>6
    <3>4. QED BY <3>2, <3>3
  <2>3. QED BY <2>1, <2>2
<1>8. ASSUME it.key = k
      PROVE  Mapped(items', places)[k] = to
  <2>1. \E i \in places : items'[i].key = k
    BY <1>8, <1>1
  <2>2. PICK i \in places : items'[i].key = k /\ Mapped(items', places)[k] = i
    BY <2>1 DEF Mapped
  <2>3. ASSUME i # to
        PROVE  FALSE
    <3>1. PICK j \in Idx \ {from} : Dest(from, to, j) = i
      BY <2>3, DestPlaces
    <3>2. QED BY <3>1, <1>1, <1>4, <2>2
  <2>4. QED BY <2>2, <2>3
<1>9. Mapped(items', places) \in [Key -> Idx \cup {NoIdx}]
  <2>1. ASSUME NEW j \in Key
        PROVE  Mapped(items', places)[j] \in Idx \cup {NoIdx}
    <3>1. CASE \E i \in places : items'[i].key = j
      BY <3>1 DEF Mapped
    <3>2. CASE ~ \E i \in places : items'[i].key = j
      BY <3>2 DEF Mapped, TypeOK
    <3>3. QED BY <3>1, <3>2
  <2>2. Mapped(items', places) = [j \in Key |-> Mapped(items', places)[j]]
    BY DEF Mapped
  <2>3. QED BY <2>1, <2>2
<1>10. QED BY <1>7, <1>8, <1>9

(***************************************************************************)
(* The operations shift.                                                   *)
(***************************************************************************)

\* The scans end where all that stand before are as good and all behind are worse.
RightPlace(k, to, v) ==
  \A i \in 0..(curr_num - 1) : i # PlaceOf(k) =>
     (Dest(PlaceOf(k), to, i) < to <=> items[i].value >= v)

LEMMA InOrder ==
  ASSUME TypeOK, MapLeadsToItems, BestFirst
  PROVE  /\ \A i \in 0..(curr_num - 1) : items[i].value \in Int /\ i \in Idx
         /\ \A i, j \in 0..(curr_num - 1) : i <= j => items[i].value >= items[j].value
<1>1. ASSUME NEW i \in 0..(curr_num - 1)
      PROVE  i \in Idx
  BY ShortRankListAssumption DEF TypeOK, Idx
<1>2. ASSUME NEW i \in 0..(curr_num - 1)
      PROVE  items[i].value \in Int
  BY <1>1, ItemKinds, ShortRankListAssumption DEF TypeOK, Value
<1>3. ASSUME NEW i \in 0..(curr_num - 1), NEW j \in 0..(curr_num - 1), i <= j
      PROVE  items[i].value >= items[j].value
  <2>1. CASE i = j
    BY <2>1, <1>2
  <2>2. CASE i < j
    BY <2>2 DEF BestFirst
  <2>3. QED BY <2>1, <2>2, <1>3
<1>4. QED BY <1>1, <1>2, <1>3

LEMMA UpToRightPlace ==
  ASSUME RankInv, NEW k \in Key, NEW v \in Value, NEW to \in 0..PlaceOf(k),
         UpTo(to, PlaceOf(k), v),
         Has(k) => v > items[keys_map[k]].value
  PROVE  RightPlace(k, to, v)
<1> DEFINE from == PlaceOf(k)
<1>1. TypeOK /\ MapLeadsToItems /\ BestFirst /\ curr_num \in Nat /\ v \in Int
  BY ShortRankListAssumption DEF RankInv, TypeOK, Value
<1>2. from \in Nat /\ to \in Nat /\ to <= from /\ from <= curr_num
  BY <1>1, ItemsOfKeys DEF PlaceOf
<1>3. SUFFICES ASSUME NEW i \in 0..(curr_num - 1), i # from
               PROVE  Dest(from, to, i) < to <=> items[i].value >= v
  BY DEF RightPlace
<1>4. /\ items[i].value \in Int /\ i \in Idx
      /\ \A j \in 0..(curr_num - 1) : i <= j => items[i].value >= items[j].value
      /\ \A j \in 0..(curr_num - 1) : j <= i => items[j].value >= items[i].value
  BY <1>1, InOrder
<1>5. CASE i < to
  <2>1. Dest(from, to, i) = i
    BY <1>5, <1>2 DEF Dest
  <2>2. to - 1 \in 0..(curr_num - 1) /\ i <= to - 1 /\ to > 0
    BY <1>5, <1>2, <1>1
  <2>3. ~ v > items[to - 1].value /\ items[to - 1].value \in Int
    BY <2>2, <1>1, InOrder DEF UpTo
  <2>4. QED BY <2>1, <2>2, <2>3, <1>4, <1>5, <1>1
<1>6. CASE to <= i /\ i < from
  <2>1. Dest(from, to, i) = i + 1
    BY <1>6, <1>2 DEF Dest
  <2>2. v > items[i].value
    BY <1>6, <1>2 DEF UpTo
  <2>3. QED BY <2>1, <2>2, <1>6, <1>4, <1>1, <1>2
<1>7. CASE from < i
  <2>1. Dest(from, to, i) = i
    BY <1>7, <1>2 DEF Dest
  <2>2. Has(k) /\ from = keys_map[k]
    BY <1>7, <1>1 DEF PlaceOf
  <2>3. from \in 0..(curr_num - 1) /\ items[from].value \in Int
    BY <2>2, <1>7, <1>2, <1>1, InOrder
  <2>4. v > items[i].value
    BY <2>2, <2>3, <1>4, <1>7, <1>1
  <2>5. QED BY <2>1, <2>4, <1>7, <1>4, <1>1, <1>2
<1>8. QED BY <1>5, <1>6, <1>7, <1>3, <1>2

LEMMA DownToRightPlace ==
  ASSUME RankInv, NEW k \in Key, Has(k), NEW v \in Value,
         NEW to \in PlaceOf(k)..(curr_num - 1), DownTo(to, PlaceOf(k), v),
         v < items[keys_map[k]].value
  PROVE  RightPlace(k, to, v)
<1> DEFINE from == PlaceOf(k)
<1>1. TypeOK /\ MapLeadsToItems /\ BestFirst /\ curr_num \in Nat /\ v \in Int
  BY ShortRankListAssumption DEF RankInv, TypeOK, Value
<1>2. from = keys_map[k] /\ from \in 0..(curr_num - 1)
  BY <1>1, ItemsOfKeys DEF PlaceOf
<1>3. from <= to /\ to < curr_num /\ to \in Nat /\ from \in Nat
  BY <1>2, <1>1
<1>4. SUFFICES ASSUME NEW i \in 0..(curr_num - 1), i # from
               PROVE  Dest(from, to, i) < to <=> items[i].value >= v
  BY DEF RightPlace
<1>5. /\ items[i].value \in Int /\ i \in Idx /\ items[from].value \in Int
      /\ i <= from => items[i].value >= items[from].value
  BY <1>1, <1>2, InOrder
<1>6. CASE i < from
  <2>1. Dest(from, to, i) = i
    BY <1>6, <1>3 DEF Dest
  <2>2. QED BY <2>1, <1>6, <1>5, <1>3, <1>2, <1>1
<1>7. CASE from < i /\ i <= to
  <2>1. Dest(from, to, i) = i - 1
    BY <1>7, <1>3 DEF Dest
  <2>2. ~ v > items[i].value
    BY <1>7, <1>3 DEF DownTo
  <2>3. QED BY <2>1, <2>2, <1>7, <1>5, <1>3, <1>1
<1>8. CASE to < i
  <2>1. Dest(from, to, i) = i
    BY <1>8, <1>3 DEF Dest
  <2>2. to + 1 \in 0..(curr_num - 1) /\ to + 1 <= i /\ to < curr_num - 1
    BY <1>8, <1>3, <1>1
  <2>3. v > items[to + 1].value
    BY <2>2 DEF DownTo
  <2>4. items[to + 1].value >= items[i].value /\ items[to + 1].value \in Int
    BY <2>2, <1>1, InOrder
  <2>5. QED BY <2>1, <2>3, <2>4, <1>8, <1>5, <1>3, <1>1
<1>9. QED BY <1>6, <1>7, <1>8, <1>4, <1>3

\* The item of k with the value v comes to the place where it belongs.
PutAt(k, v) ==
  /\ curr_num' = IF Has(k) THEN curr_num ELSE curr_num + 1
  /\ PlaceOf(k) \in Idx
  /\ \E to \in Idx : /\ to < curr_num'
                     /\ Shifted(k, to, [key |-> k, value |-> v])
                     /\ RightPlace(k, to, v)

\* The last place is left free.
TakenOut(k) ==
  /\ curr_num' = curr_num - 1
  /\ PlaceOf(k) \in Idx
  /\ curr_num - 1 \in Idx
  /\ Shifted(k, curr_num - 1, NoItem)

LEMMA NewItem ==
  ASSUME NEW k \in Key, NEW v \in Value
  PROVE  /\ [key |-> k, value |-> v] \in Item
         /\ [key |-> k, value |-> v].key = k
         /\ [key |-> k, value |-> v] # NoItem
<1>1. [key |-> k, value |-> v] \in Item
  BY DEF Item
<1>2. QED BY <1>1, ItemKinds

LEMMA InsertPuts ==
  ASSUME RankInv, NEW k \in Key, NEW v \in Value, Insert(k, v)
  PROVE  PutAt(k, v)
<1> DEFINE it == [key |-> k, value |-> v]
<1>1. TypeOK /\ MapLeadsToItems /\ ~ Has(k) /\ curr_num \in Nat /\ curr_num < MaxNum
      /\ curr_num' = curr_num + 1
  BY DEF RankInv, Insert, TypeOK
<1>2. PlaceOf(k) = curr_num /\ PlaceOf(k) \in Idx
  BY <1>1, IdxType DEF PlaceOf
<1>3. PICK to \in 0..curr_num : /\ UpTo(to, curr_num, v)
                                /\ items' = Moved(curr_num, to, it)
                                /\ keys_map' = Mapped(items', to..curr_num)
  BY DEF Insert
<1>4. to \in Idx /\ to < curr_num' /\ to..curr_num \in SUBSET Idx /\ to \in to..curr_num
  BY <1>1, ShortRankListAssumption DEF Idx
<1>5. it \in Item /\ it.key = k /\ it # NoItem
  BY NewItem
<1>6. \A i \in Idx \ {curr_num} :
         i < curr_num => Dest(curr_num, to, i) \in to..curr_num \/ Dest(curr_num, to, i) = i
  BY <1>1, <1>4, ShortRankListAssumption DEF Dest, Idx
<1>7. /\ \A j \in Key \ {k} : keys_map'[j] =
            IF Has(j) THEN Dest(PlaceOf(k), to, keys_map[j]) ELSE NoIdx
      /\ keys_map'[k] = to
      /\ keys_map' \in [Key -> Idx \cup {NoIdx}]
  <2> HIDE DEF it
  <2> QED BY <1>1, <1>2, <1>3, <1>4, <1>5, <1>6, MappedFollows
<1>8. /\ items' \in [Idx -> Item \cup {NoItem}]
      /\ items'[to] = it
      /\ \A i \in Idx \ {PlaceOf(k)} : items'[Dest(PlaceOf(k), to, i)] = items[i]
  <2> HIDE DEF it
  <2> QED BY <1>1, <1>2, <1>3, <1>4, <1>5, MovedItems DEF TypeOK, ItemsOK
<1>9. RightPlace(k, to, v)
  BY <1>1, <1>2, <1>3, UpToRightPlace
<1>10. Shifted(k, to, it)
  BY <1>7, <1>8, <1>5 DEF Shifted, ItemsOK, MapOK
<1>11. QED BY <1>1, <1>2, <1>4, <1>9, <1>10 DEF PutAt

\* An item in the list, moved to a place in the list.
LEMMA ReplacePuts ==
  ASSUME RankInv, NEW k \in Key, Has(k), NEW v \in Value, NEW to \in 0..(curr_num - 1),
         RightPlace(k, to, v), curr_num' = curr_num,
         NEW places \in SUBSET Int,
         places = (IF to <= keys_map[k] THEN to..keys_map[k] ELSE keys_map[k]..to),
         items' = Moved(keys_map[k], to, [key |-> k, value |-> v]),
         keys_map' = Mapped(items', places)
  PROVE  PutAt(k, v)
<1> DEFINE it == [key |-> k, value |-> v]
           from == keys_map[k]
<1>1. TypeOK /\ MapLeadsToItems /\ curr_num \in Nat /\ curr_num <= MaxNum
  BY ShortRankListAssumption DEF RankInv, TypeOK
<1>2. PlaceOf(k) = from /\ from \in Idx /\ from \in 0..(curr_num - 1)
  BY <1>1, ItemsOfKeys DEF PlaceOf
<1>4. to \in Idx /\ to < curr_num' /\ places \in SUBSET Idx /\ to \in places
  BY <1>1, <1>2, ShortRankListAssumption DEF Idx
<1>5. it \in Item /\ it.key = k /\ it # NoItem
  BY NewItem
<1>6. \A i \in Idx \ {from} :
         i < curr_num => Dest(from, to, i) \in places \/ Dest(from, to, i) = i
  BY <1>1, <1>2, <1>4, ShortRankListAssumption DEF Dest, Idx
<1>7. /\ \A j \in Key \ {k} : keys_map'[j] =
            IF Has(j) THEN Dest(PlaceOf(k), to, keys_map[j]) ELSE NoIdx
      /\ keys_map'[k] = to
      /\ keys_map' \in [Key -> Idx \cup {NoIdx}]
  <2> HIDE DEF it
  <2>1. items' = Moved(PlaceOf(k), to, it)
    BY <1>2 DEF it
  <2> QED BY <2>1, <1>1, <1>2, <1>4, <1>5, <1>6, MappedFollows
<1>8. /\ items' \in [Idx -> Item \cup {NoItem}]
      /\ items'[to] = it
      /\ \A i \in Idx \ {PlaceOf(k)} : items'[Dest(PlaceOf(k), to, i)] = items[i]
  <2>1. items' = Moved(from, to, it)
    OBVIOUS
  <2>2. ItemsOK /\ it \in Item \cup {NoItem}
    BY <1>1, <1>5 DEF TypeOK, ItemsOK
  <2>3. /\ items' \in [Idx -> Item \cup {NoItem}]
        /\ items'[to] = it
        /\ \A i \in Idx \ {from} : items'[Dest(from, to, i)] = items[i]
    <3> HIDE DEF it, from
    <3> QED BY <2>1, <2>2, <1>2, <1>4, MovedItems
  <2>4. QED BY <2>3, <1>2
<1>10. Shifted(k, to, it)
  BY <1>7, <1>8, <1>5 DEF Shifted, ItemsOK, MapOK
<1>11. QED BY <1>1, <1>2, <1>4, <1>10 DEF PutAt

LEMMA RaisePuts ==
  ASSUME RankInv, NEW k \in Key, NEW v \in Value, Raise(k, v)
  PROVE  PutAt(k, v)
<1>1. TypeOK /\ MapLeadsToItems /\ Has(k) /\ curr_num' = curr_num /\ v > items[keys_map[k]].value
  BY DEF RankInv, Raise
<1>2. PlaceOf(k) = keys_map[k] /\ keys_map[k] \in 0..(curr_num - 1) /\ curr_num \in Nat
  BY <1>1, ItemsOfKeys DEF PlaceOf, TypeOK
<1>3. PICK to \in 0..keys_map[k] :
            /\ UpTo(to, keys_map[k], v)
            /\ items' = Moved(keys_map[k], to, [key |-> k, value |-> v])
            /\ keys_map' = Mapped(items', to..keys_map[k])
  BY DEF Raise
<1>4. RightPlace(k, to, v)
  BY <1>1, <1>2, <1>3, UpToRightPlace
<1>5. to \in 0..(curr_num - 1) /\ to <= keys_map[k] /\ to..keys_map[k] \in SUBSET Int
  BY <1>2
<1>6. QED BY <1>1, <1>3, <1>4, <1>5, ReplacePuts

LEMMA LowerPuts ==
  ASSUME RankInv, NEW k \in Key, NEW v \in Value, Lower(k, v)
  PROVE  PutAt(k, v)
<1>1. TypeOK /\ MapLeadsToItems /\ Has(k) /\ curr_num' = curr_num /\ v < items[keys_map[k]].value
  BY DEF RankInv, Lower
<1>2. PlaceOf(k) = keys_map[k] /\ keys_map[k] \in 0..(curr_num - 1) /\ curr_num \in Nat
  BY <1>1, ItemsOfKeys DEF PlaceOf, TypeOK
<1>3. PICK to \in keys_map[k]..(curr_num - 1) :
            /\ DownTo(to, keys_map[k], v)
            /\ items' = Moved(keys_map[k], to, [key |-> k, value |-> v])
            /\ keys_map' = Mapped(items', keys_map[k]..to)
  BY DEF Lower
<1>4. RightPlace(k, to, v)
  BY <1>1, <1>2, <1>3, DownToRightPlace
<1>5. to \in 0..(curr_num - 1) /\ keys_map[k] <= to /\ keys_map[k]..to \in SUBSET Int
  BY <1>2
<1>6. keys_map[k]..to = IF to <= keys_map[k] THEN to..keys_map[k] ELSE keys_map[k]..to
  BY <1>5, <1>2
<1>7. QED BY <1>1, <1>3, <1>4, <1>5, <1>6, ReplacePuts

LEMMA DeleteTakesOut ==
  ASSUME RankInv, NEW k \in Key, Delete(k)
  PROVE  Has(k) /\ TakenOut(k)
<1> DEFINE from == keys_map[k]
           to == curr_num - 1
           places == from..(curr_num - 2)
<1>1. /\ TypeOK /\ MapLeadsToItems /\ Has(k) /\ curr_num' = curr_num - 1
      /\ curr_num \in Nat /\ curr_num <= MaxNum
      /\ items' = Moved(from, to, NoItem)
      /\ keys_map' = [Mapped(items', places) EXCEPT ![k] = NoIdx]
  BY ShortRankListAssumption DEF RankInv, Delete, TypeOK
<1>2. PlaceOf(k) = from /\ from \in Idx /\ from \in 0..(curr_num - 1)
  BY <1>1, ItemsOfKeys DEF PlaceOf
<1>3. to \in Idx /\ places \in SUBSET Idx
  BY <1>1, <1>2, ShortRankListAssumption DEF Idx
<1>4. NoItem.key = NoKey /\ NoItem.key # k
  BY ShortRankListAssumption DEF NoItem
<1>5. \A i \in Idx \ {from} :
         i < curr_num => Dest(from, to, i) \in places \/ Dest(from, to, i) = i
  BY <1>1, <1>2, ShortRankListAssumption DEF Dest, Idx
<1>6. /\ \A j \in Key \ {k} : Mapped(items', places)[j] =
            IF Has(j) THEN Dest(PlaceOf(k), to, keys_map[j]) ELSE NoIdx
      /\ Mapped(items', places) \in [Key -> Idx \cup {NoIdx}]
  <2>1. items' = Moved(PlaceOf(k), to, NoItem) /\ NoItem.key \in {k, NoKey}
    BY <1>1, <1>2, <1>4
  <2>2. \A i \in Idx \ {PlaceOf(k)} :
          i < curr_num => Dest(PlaceOf(k), to, i) \in places \/ Dest(PlaceOf(k), to, i) = i
    BY <1>2, <1>5
  <2> HIDE DEF places, to
  <2> QED BY <2>1, <2>2, <1>1, <1>2, <1>3, <1>4, MappedFollows
<1>7. /\ \A j \in Key \ {k} : keys_map'[j] =
            IF Has(j) THEN Dest(PlaceOf(k), to, keys_map[j]) ELSE NoIdx
      /\ keys_map'[k] = NoIdx
      /\ keys_map' \in [Key -> Idx \cup {NoIdx}]
  <2> HIDE DEF places, to
  <2> QED BY <1>1, <1>6
<1>8. /\ items' \in [Idx -> Item \cup {NoItem}]
      /\ items'[to] = NoItem
      /\ \A i \in Idx \ {PlaceOf(k)} : items'[Dest(PlaceOf(k), to, i)] = items[i]
  <2> HIDE DEF to
  <2> QED BY <1>1, <1>2, <1>3, MovedItems DEF TypeOK, ItemsOK
<1>9. Shifted(k, to, NoItem)
  BY <1>7, <1>8 DEF Shifted, ItemsOK, MapOK
<1>10. QED BY <1>1, <1>2, <1>3, <1>9 DEF TakenOut

(***************************************************************************)
(* A shift keeps the invariant of the list.                                *)
(***************************************************************************)

LEMMA PlaceOfKeys ==
  ASSUME TypeOK, MapLeadsToItems, NEW k \in Key, PlaceOf(k) \in Idx
  PROVE  /\ \A j \in Key \ {k} : Has(j) => /\ keys_map[j] \in Idx \ {PlaceOf(k)}
                                           /\ keys_map[j] \in 0..(curr_num - 1)
         /\ \A i \in Idx \ {PlaceOf(k)} : i < curr_num => /\ items[i].key \in Key \ {k}
                                                          /\ keys_map[items[i].key] = i
                                                          /\ Has(items[i].key)
         /\ curr_num \in Nat /\ PlaceOf(k) <= curr_num
         /\ Has(k) => PlaceOf(k) \in 0..(curr_num - 1)
<1>1. /\ \A i \in Idx, j \in Key : items[i].key = j <=> keys_map[j] = i
      /\ \A j \in Key : Has(j) => keys_map[j] \in Idx /\ keys_map[j] \in 0..(curr_num - 1)
      /\ curr_num \in Nat
  BY ItemsOfKeys DEF TypeOK
<1>2. ASSUME NEW j \in Key \ {k}, Has(j)
      PROVE  keys_map[j] # PlaceOf(k)
  <2>1. CASE Has(k)
    BY <2>1, <1>1, <1>2 DEF PlaceOf
  <2>2. CASE ~ Has(k)
    BY <2>2, <1>1, <1>2 DEF PlaceOf
  <2>3. QED BY <2>1, <2>2
<1>3. ASSUME NEW i \in Idx \ {PlaceOf(k)}, i < curr_num
      PROVE  items[i].key \in Key \ {k} /\ keys_map[items[i].key] = i /\ Has(items[i].key)
  <2>1. items[i].key \in Key /\ keys_map[items[i].key] = i
    BY <1>3 DEF MapLeadsToItems
  <2>2. Has(items[i].key)
    BY <2>1, IdxType DEF Has
  <2>3. items[i].key # k
    BY <2>1, <2>2 DEF PlaceOf
  <2>4. QED BY <2>1, <2>2, <2>3
<1>4. PlaceOf(k) <= curr_num /\ (Has(k) => PlaceOf(k) \in 0..(curr_num - 1))
  BY <1>1 DEF PlaceOf
<1>5. QED BY <1>1, <1>2, <1>3, <1>4

LEMMA PutKeepsList ==
  ASSUME RankInv, NEW k \in Key, NEW v \in Value, PutAt(k, v), curr_num' \in 0..MaxNum
  PROVE  RankInv'
<1> DEFINE it == [key |-> k, value |-> v]
           from == PlaceOf(k)
<1>1. TypeOK /\ MapLeadsToItems /\ BestFirst /\ from \in Idx
  BY DEF RankInv, PutAt
<1>2. PICK to \in Idx : to < curr_num' /\ Shifted(k, to, it) /\ RightPlace(k, to, v)
  BY DEF PutAt
<1>3. it.key = k /\ it.value = v /\ it # NoItem
  BY NewItem
<1>4. /\ items' \in [Idx -> Item \cup {NoItem}] /\ keys_map' \in [Key -> Idx \cup {NoIdx}]
      /\ items'[to] = it /\ keys_map'[k] = to
      /\ \A i \in Idx \ {from} : items'[Dest(from, to, i)] = items[i]
      /\ \A j \in Key \ {k} : keys_map'[j] = IF Has(j) THEN Dest(from, to, keys_map[j])
                                             ELSE NoIdx
  BY <1>2, <1>3 DEF Shifted, ItemsOK, MapOK
<1>5. curr_num' = (IF Has(k) THEN curr_num ELSE curr_num + 1) /\ to < curr_num'
  BY <1>2 DEF PutAt
<1>6. /\ \A j \in Key \ {k} : Has(j) => /\ keys_map[j] \in Idx \ {from}
                                        /\ keys_map[j] \in 0..(curr_num - 1)
      /\ \A i \in Idx \ {from} : i < curr_num => /\ items[i].key \in Key \ {k}
                                                 /\ keys_map[items[i].key] = i
                                                 /\ Has(items[i].key)
      /\ curr_num \in Nat /\ from \in Nat /\ from <= curr_num
      /\ Has(k) => from \in 0..(curr_num - 1)
      /\ ~ Has(k) => from = curr_num
  BY <1>1, PlaceOfKeys, IdxType DEF PlaceOf
<1> HIDE DEF from, it
<1>7. to \in Nat /\ MaxNum \in Nat
  BY IdxType
\* The places that were taken, without the one that is left, and the one that is taken.
<1>8. ASSUME NEW i \in Idx \ {from}
      PROVE  i < curr_num <=> Dest(from, to, i) < curr_num'
  <2>0. i \in Int /\ curr_num \in Int /\ from \in Int /\ to \in Int /\ i # from
    BY <1>6, <1>7, IdxType
  <2>1. CASE Has(k)
    <3>1. curr_num' = curr_num /\ from < curr_num /\ to < curr_num
      BY <1>5, <1>6, <2>1
    <3> QED  BY <2>0, <3>1 DEF Dest
  <2>2. CASE ~ Has(k)
    <3>1. curr_num' = curr_num + 1 /\ from = curr_num /\ to <= curr_num
      BY <1>5, <1>6, <2>0, <2>2
    <3> QED  BY <2>0, <3>1 DEF Dest
  <2> QED  BY <2>1, <2>2
<1>9. ASSUME NEW j \in Key, keys_map'[j] # NoIdx
      PROVE  keys_map'[j] < curr_num' /\ items'[keys_map'[j]].key = j
  <2>1. CASE j = k
    BY <2>1, <1>3, <1>4, <1>5
  <2>2. CASE j # k
    <3>1. Has(j)
      BY <2>2, <1>9, <1>4
    <3>2. keys_map[j] \in Idx \ {from} /\ keys_map[j] < curr_num /\ items[keys_map[j]].key = j
      BY <3>1, <2>2, <1>6, <1>1, ItemsOfKeys
    <3>3. keys_map'[j] = Dest(from, to, keys_map[j])
      BY <3>1, <2>2, <1>4
    <3>4. QED BY <3>2, <3>3, <1>4, <1>8
  <2>3. QED BY <2>1, <2>2
<1>10. ASSUME NEW i \in Idx
       PROVE  IF i < curr_num' THEN items'[i].key \in Key /\ keys_map'[items'[i].key] = i
                               ELSE items'[i] = NoItem
  <2>1. CASE i = to
    BY <2>1, <1>3, <1>4, <1>5
  <2>2. CASE i # to
    <3>1. PICK j \in Idx \ {from} : Dest(from, to, j) = i
      BY <2>2, <1>1, DestPlaces DEF from
    <3>2. items'[i] = items[j] /\ (j < curr_num <=> i < curr_num')
      BY <3>1, <1>4, <1>8
    <3>3. CASE j < curr_num
      <4>1. items[j].key \in Key \ {k} /\ keys_map[items[j].key] = j /\ Has(items[j].key)
        BY <3>3, <1>6
      <4>2. keys_map'[items[j].key] = i
        BY <4>1, <3>1, <1>4
      <4>3. QED BY <4>1, <4>2, <3>2, <3>3
    <3>4. CASE ~ j < curr_num
      BY <3>4, <3>2, <1>1 DEF MapLeadsToItems
    <3>5. QED BY <3>3, <3>4
  <2>3. QED BY <2>1, <2>2
<1>11. MapLeadsToItems'
  BY <1>9, <1>10 DEF MapLeadsToItems, Has
<1>12. ASSUME NEW i \in 0..(curr_num' - 1), NEW j \in 0..(curr_num' - 1), i < j
       PROVE  items'[i].value >= items'[j].value
  <2>1. i \in Idx /\ j \in Idx /\ i < curr_num' /\ j < curr_num'
    <3>1. \A n \in 0..MaxNum : 0..(n - 1) \subseteq Idx
      BY ShortRankListAssumption DEF Idx
    <3>2. \A n \in 0..MaxNum : \A m \in 0..(n - 1) : m < n
      BY ShortRankListAssumption
    <3>3. QED BY <3>1, <3>2
  <2>2. ASSUME NEW d \in Idx \ {to}, d < curr_num'
        PROVE  \E e \in 0..(curr_num - 1) : /\ e \in Idx \ {from} /\ Dest(from, to, e) = d
                                            /\ items'[d] = items[e]
                                            /\ d < to <=> items[e].value >= v
                                            /\ items[e].value \in Int
    <3>1. PICK e \in Idx \ {from} : Dest(from, to, e) = d
      BY <1>1, DestPlaces DEF from
    <3>2. e \in 0..(curr_num - 1)
      BY <3>1, <1>8, <2>2, IdxType, <1>6
    <3>3. d < to <=> items[e].value >= v
      BY <3>1, <3>2, <1>2 DEF RightPlace, from
    <3>4. items[e].value \in Int
      BY <3>2, <1>1, InOrder
    <3>5. QED BY <3>1, <3>2, <3>3, <3>4, <1>4
  <2>3. v \in Int
    BY ShortRankListAssumption DEF Value
  <2>4. CASE i = to
    <3>1. PICK e \in 0..(curr_num - 1) : /\ items'[j] = items[e] /\ items[e].value \in Int
                                         /\ j < to <=> items[e].value >= v
      BY <2>1, <2>2, <2>4, <1>12
    <3>2. QED BY <3>1, <2>3, <2>4, <1>3, <1>4, <1>12, <2>1, IdxType
  <2>5. CASE j = to
    <3>1. PICK e \in 0..(curr_num - 1) : /\ items'[i] = items[e] /\ items[e].value \in Int
                                         /\ i < to <=> items[e].value >= v
      BY <2>1, <2>2, <2>5, <1>12
    <3>2. QED BY <3>1, <2>3, <2>5, <1>3, <1>4, <1>12, <2>1, IdxType
  <2>6. CASE i # to /\ j # to
    <3>1. PICK e \in 0..(curr_num - 1) : /\ e \in Idx \ {from} /\ Dest(from, to, e) = i
                                         /\ items'[i] = items[e]
      BY <2>1, <2>2, <2>6
    <3>2. PICK f \in 0..(curr_num - 1) : /\ f \in Idx \ {from} /\ Dest(from, to, f) = j
                                         /\ items'[j] = items[f]
      BY <2>1, <2>2, <2>6
    <3>3. e < f
      BY <3>1, <3>2, <1>12, <1>6, <1>7, DestOrder
    <3>4. QED BY <3>1, <3>2, <3>3, <1>1 DEF BestFirst
  <2>7. QED BY <2>4, <2>5, <2>6
<1>13. BestFirst'
  BY <1>12 DEF BestFirst
<1>14. TypeOK'
  BY <1>4 DEF TypeOK
<1>15. QED BY <1>11, <1>13, <1>14 DEF RankInv

LEMMA TakeKeepsList ==
  ASSUME RankInv, NEW k \in Key, Has(k), TakenOut(k)
  PROVE  RankInv'
<1> DEFINE from == PlaceOf(k)
           to == curr_num - 1
<1>1. TypeOK /\ MapLeadsToItems /\ BestFirst /\ from \in Idx /\ to \in Idx
      /\ curr_num' = to /\ curr_num <= MaxNum
  BY ShortRankListAssumption DEF RankInv, TakenOut, TypeOK
<1>2. /\ items' \in [Idx -> Item \cup {NoItem}] /\ keys_map' \in [Key -> Idx \cup {NoIdx}]
      /\ items'[to] = NoItem /\ keys_map'[k] = NoIdx
      /\ \A i \in Idx \ {from} : items'[Dest(from, to, i)] = items[i]
      /\ \A j \in Key \ {k} : keys_map'[j] = IF Has(j) THEN Dest(from, to, keys_map[j])
                                             ELSE NoIdx
  BY DEF TakenOut, Shifted, ItemsOK, MapOK
<1>3. /\ \A j \in Key \ {k} : Has(j) => /\ keys_map[j] \in Idx \ {from}
                                        /\ keys_map[j] \in 0..(curr_num - 1)
      /\ \A i \in Idx \ {from} : i < curr_num => /\ items[i].key \in Key \ {k}
                                                 /\ keys_map[items[i].key] = i
                                                 /\ Has(items[i].key)
      /\ curr_num \in Nat /\ from \in 0..(curr_num - 1)
  BY <1>1, PlaceOfKeys
<1>4. to \in Nat /\ curr_num = to + 1
  BY <1>1, <1>3, IdxType
<1> HIDE DEF from, to
<1>5. ASSUME NEW i \in Idx \ {from}
      PROVE  i < curr_num <=> Dest(from, to, i) < to
  BY <1>3, <1>4, IdxType DEF Dest
<1>6. ASSUME NEW j \in Key, keys_map'[j] # NoIdx
      PROVE  keys_map'[j] < curr_num' /\ items'[keys_map'[j]].key = j
  <2>1. j # k /\ Has(j)
    BY <1>6, <1>2
  <2>2. keys_map[j] \in Idx \ {from} /\ keys_map[j] < curr_num /\ items[keys_map[j]].key = j
    BY <2>1, <1>3, <1>1, ItemsOfKeys
  <2>3. keys_map'[j] = Dest(from, to, keys_map[j])
    BY <2>1, <1>2
  <2>4. QED BY <2>2, <2>3, <1>1, <1>2, <1>5
<1>7. ASSUME NEW i \in Idx
      PROVE  IF i < curr_num' THEN items'[i].key \in Key /\ keys_map'[items'[i].key] = i
                              ELSE items'[i] = NoItem
  <2>1. CASE i = to
    BY <2>1, <1>1, <1>2, <1>4
  <2>2. CASE i # to
    <3>1. PICK j \in Idx \ {from} : Dest(from, to, j) = i
      BY <2>2, <1>1, DestPlaces
    <3>2. items'[i] = items[j] /\ (j < curr_num <=> i < curr_num')
      BY <3>1, <1>1, <1>2, <1>5
    <3>3. CASE j < curr_num
      <4>1. items[j].key \in Key \ {k} /\ keys_map[items[j].key] = j /\ Has(items[j].key)
        BY <3>3, <1>3
      <4>2. keys_map'[items[j].key] = i
        BY <4>1, <3>1, <1>2
      <4>3. QED BY <4>1, <4>2, <3>2, <3>3
    <3>4. CASE ~ j < curr_num
      BY <3>4, <3>2, <1>1 DEF MapLeadsToItems
    <3>5. QED BY <3>3, <3>4
  <2>3. QED BY <2>1, <2>2
<1>8. MapLeadsToItems'
  BY <1>6, <1>7 DEF MapLeadsToItems, Has
<1>9. ASSUME NEW i \in 0..(curr_num' - 1), NEW j \in 0..(curr_num' - 1), i < j
      PROVE  items'[i].value >= items'[j].value
  <2>1. ASSUME NEW d \in 0..(curr_num' - 1)
        PROVE  \E e \in 0..(curr_num - 1) : /\ e \in Idx \ {from} /\ Dest(from, to, e) = d
                                            /\ items'[d] = items[e]
    <3>1. d \in Idx \ {to}
      BY <1>1, <1>4, IdxType
    <3>2. PICK e \in Idx \ {from} : Dest(from, to, e) = d
      BY <3>1, <1>1, DestPlaces
    <3>3. e \in 0..(curr_num - 1)
      BY <3>2, <1>5, <1>1, <1>4, IdxType
    <3>4. QED BY <3>2, <3>3, <1>2
  <2>2. PICK e \in 0..(curr_num - 1) : /\ e \in Idx \ {from} /\ Dest(from, to, e) = i
                                       /\ items'[i] = items[e]
    BY <2>1
  <2>3. PICK f \in 0..(curr_num - 1) : /\ f \in Idx \ {from} /\ Dest(from, to, f) = j
                                       /\ items'[j] = items[f]
    BY <2>1
  <2>4. e < f
    BY <2>2, <2>3, <1>9, <1>3, <1>4, DestOrder
  <2>5. QED BY <2>2, <2>3, <2>4, <1>1 DEF BestFirst
<1>10. BestFirst'
  BY <1>9 DEF BestFirst
<1>11. TypeOK'
  BY <1>1, <1>2, <1>4, IdxType DEF TypeOK
<1>12. QED BY <1>8, <1>10, <1>11 DEF RankInv

(***************************************************************************)
(* The operations, with the values they come to.                           *)
(***************************************************************************)

LEMMA UpdatePuts ==
  ASSUME RankInv, NEW k \in Key, NEW v \in Value, NEW add \in BOOLEAN, Update(k, v, add)
  PROVE  \/ \E w \in Value : /\ PutAt(k, w) /\ curr_num' \in 0..MaxNum
                             /\ ~ add => w = v
                             /\ Has(k) => w # items[keys_map[k]].value
                             /\ ~ Has(k) => curr_num < MaxNum
         \/ UNCHANGED listVars /\ LeaveOut(k, v, add)
<1>1. TypeOK /\ MapLeadsToItems /\ curr_num \in 0..MaxNum /\ v \in Int /\ MaxNum \in Nat
  BY ShortRankListAssumption DEF RankInv, TypeOK, Value
<1>2. CASE Insert(k, v)
  <2>1. PutAt(k, v) /\ curr_num' = curr_num + 1 /\ curr_num < MaxNum /\ ~ Has(k)
    BY <1>2, InsertPuts DEF Insert
  <2>2. curr_num' \in 0..MaxNum
    BY <2>1, <1>1
  <2>3. QED BY <2>1, <2>2
<1>3. CASE /\ Has(k) /\ NewValue(k, v, add) <= MaxValue
           /\ Raise(k, NewValue(k, v, add)) \/ Lower(k, NewValue(k, v, add))
  <2> DEFINE w == NewValue(k, v, add)
  <2>1. items[keys_map[k]] \in Item \cup {NoItem} /\ items[keys_map[k]].value \in Value
    BY <1>1, <1>3, ItemsOfKeys, ItemKinds DEF TypeOK
  <2>2. w \in Value /\ (~ add => w = v)
    BY <2>1, <1>3, ShortRankListAssumption DEF NewValue, Value
  <2>3. curr_num' = curr_num /\ w # items[keys_map[k]].value
    <3>1. w \in Int /\ items[keys_map[k]].value \in Int
      BY <2>1, <2>2, ShortRankListAssumption DEF Value
    <3> HIDE DEF w
    <3>2. curr_num' = curr_num
      BY <1>3 DEF Raise, Lower
    <3>3. w > items[keys_map[k]].value \/ w < items[keys_map[k]].value
      BY <1>3 DEF Raise, Lower, w
    <3>4. QED BY <3>1, <3>2, <3>3
  <2>4. PutAt(k, w)
    BY <1>3, <2>2, RaisePuts, LowerPuts
  <2>5. QED BY <2>2, <2>3, <2>4, <1>1, <1>3
<1>4. CASE LeaveOut(k, v, add)
  BY <1>4 DEF LeaveOut
<1>5. QED BY <1>2, <1>3, <1>4 DEF Update

LEMMA UpdateKeepsList ==
  ASSUME RankInv, NEW k \in Key, NEW v \in Value, NEW add \in BOOLEAN, Update(k, v, add)
  PROVE  RankInv'
<1>1. CASE UNCHANGED listVars
  BY <1>1 DEF listVars, RankInv, TypeOK, MapLeadsToItems, BestFirst, Has
<1>2. CASE \E w \in Value : PutAt(k, w) /\ curr_num' \in 0..MaxNum
  BY <1>2, PutKeepsList
<1>3. QED BY <1>1, <1>2, UpdatePuts

LEMMA DeleteKeepsList ==
  ASSUME RankInv, NEW k \in Key, Delete(k)
  PROVE  RankInv'
BY DeleteTakesOut, TakeKeepsList

LEMMA EmptyList ==
  ASSUME Init
  PROVE  RankInv
<1>1. NoItem \in Item \cup {NoItem} /\ NoIdx \in Idx \cup {NoIdx} /\ 0 \in 0..MaxNum
  BY ShortRankListAssumption
<1>2. TypeOK
  BY <1>1 DEF Init, TypeOK
<1>3. MapLeadsToItems
  <2>1. \A k \in Key : ~ Has(k)
    BY DEF Init, Has
  <2>2. \A i \in Idx : ~ i < curr_num
    BY IdxType DEF Init
  <2>3. \A i \in Idx : items[i] = NoItem
    BY DEF Init
  <2>4. QED BY <2>1, <2>2, <2>3 DEF MapLeadsToItems
<1>4. BestFirst
  BY DEF BestFirst, Init
<1>5. QED BY <1>2, <1>3, <1>4 DEF RankInv

LEMMA ClearKeepsList ==
  ASSUME RankInv, Clear
  PROVE  RankInv'
<1>1. NoItem \in Item \cup {NoItem} /\ NoIdx \in Idx \cup {NoIdx} /\ 0 \in 0..MaxNum
  BY ShortRankListAssumption
<1>2. TypeOK'
  BY <1>1 DEF Clear, TypeOK
<1>3. MapLeadsToItems'
  <2>1. \A k \in Key : keys_map'[k] = NoIdx
    BY DEF Clear
  <2>2. \A i \in Idx : ~ i < curr_num'
    BY IdxType DEF Clear
  <2>3. \A i \in Idx : items'[i] = NoItem
    BY DEF Clear
  <2>4. QED BY <2>1, <2>2, <2>3 DEF MapLeadsToItems, Has
<1>4. BestFirst'
  BY DEF BestFirst, Clear
<1>5. QED BY <1>2, <1>3, <1>4 DEF RankInv

LEMMA ListStep ==
  ASSUME RankInv, [Next]_listVars
  PROVE  RankInv'
<1>1. CASE \E k \in Key, v \in Value, add \in BOOLEAN : Update(k, v, add)
  BY <1>1, UpdateKeepsList
<1>2. CASE \E k \in Key : Delete(k)
  BY <1>2, DeleteKeepsList
<1>3. CASE Clear
  BY <1>3, ClearKeepsList
<1>4. CASE UNCHANGED listVars
  BY <1>4 DEF listVars, RankInv, TypeOK, MapLeadsToItems, BestFirst, Has
<1>5. QED BY <1>1, <1>2, <1>3, <1>4 DEF Next

\* short_ranklist.go: whatever is updated, deleted and cleared, the invariant of the list.
THEOREM RankListInvariant == Spec => []RankInv
<1>1. Init => RankInv
  BY EmptyList
<1>2. RankInv /\ [Next]_listVars => RankInv'
  BY ListStep
<1>3. QED BY <1>1, <1>2, PTL DEF Spec

\* short_ranklist.go: items, curr_num and keys_map have their types.
THEOREM RankListTypes == Spec => []TypeOK
<1>1. RankInv => TypeOK
  BY DEF RankInv
<1>2. QED BY <1>1, RankListInvariant, PTL

\* short_ranklist.go: keys_map leads to the item of its key, for every key and place, and
\* there is no item without its key, however items have been shifted.
THEOREM RankListMap == Spec => []MapLeadsToItems
<1>1. RankInv => MapLeadsToItems
  BY DEF RankInv
<1>2. QED BY <1>1, RankListInvariant, PTL

\* short_ranklist.go: the items are in order, so that the scans end at the right place.
THEOREM RankListOrder == Spec => []BestFirst
<1>1. RankInv => BestFirst
  BY DEF RankInv
<1>2. QED BY <1>1, RankListInvariant, PTL

(***************************************************************************)
(* Array and map implement Ranking.                                        *)
(***************************************************************************)

LEMMA RanksOf ==
  /\ \A k \in Key : RankOf[k] = IF Has(k) THEN keys_map[k] + 1 ELSE 0
  /\ \A k \in Key : ValueOf[k] = IF Has(k) THEN items[keys_map[k]].value ELSE 0
BY DEF RankOf, ValueOf

LEMMA RankedHas ==
  MapOK => (\A k \in Key : k \in Ranks!Ranked <=> Has(k)) /\ Ranks!Ranked \subseteq Key
<1>1. MapOK => \A k \in Key : Has(k) => keys_map[k] + 1 # 0
  BY ShortRankListAssumption DEF MapOK, Has, Idx, NoIdx
<1>2. QED BY <1>1, RanksOf DEF Ranks!Ranked

LEMMA RanksAreRanks ==
  RankInv => Ranks!TypeOK /\ Ranks!NoTies /\ Ranks!NoGaps
<1> SUFFICES ASSUME RankInv
             PROVE  Ranks!TypeOK /\ Ranks!NoTies /\ Ranks!NoGaps
  OBVIOUS
<1>1. TypeOK /\ MapLeadsToItems /\ MapOK /\ curr_num \in 0..MaxNum /\ MaxNum \in Nat
  BY ShortRankListAssumption DEF RankInv, TypeOK, MapOK
<1>2. /\ \A i \in Idx, j \in Key : items[i].key = j <=> keys_map[j] = i
      /\ \A j \in Key : Has(j) => keys_map[j] \in Idx /\ keys_map[j] \in 0..(curr_num - 1)
  BY <1>1, ItemsOfKeys
<1>3. \A k \in Key : k \in Ranks!Ranked <=> Has(k)
  BY <1>1, RankedHas
<1>4. Ranks!TypeOK
  <2>1. ASSUME NEW k \in Key
        PROVE  RankOf[k] \in 0..MaxNum /\ ValueOf[k] \in 0..MaxValue
    <3>1. CASE Has(k)
      <4>1. items[keys_map[k]].value \in Value
        BY <3>1, <1>1, <1>2, ItemKinds DEF TypeOK
      <4>2. keys_map[k] + 1 \in 0..MaxNum
        BY <3>1, <1>1, <1>2
      <4>3. QED BY <3>1, <4>1, <4>2, RanksOf DEF Value
    <3>2. CASE ~ Has(k)
      BY <3>2, RanksOf, ShortRankListAssumption
    <3>3. QED BY <3>1, <3>2
  <2>2. RankOf = [k \in Key |-> RankOf[k]] /\ ValueOf = [k \in Key |-> ValueOf[k]]
    BY DEF RankOf, ValueOf
  <2>3. QED BY <2>1, <2>2 DEF Ranks!TypeOK
<1>5. Ranks!NoTies
  <2>1. ASSUME NEW j \in Key, NEW k \in Key, Has(j), Has(k), RankOf[j] = RankOf[k]
        PROVE  j = k
    <3>1. keys_map[j] = keys_map[k]
      BY <2>1, <1>2, RanksOf
    <3>2. QED BY <3>1, <2>1, <1>2
  <2>2. Ranks!Ranked \subseteq Key
    BY DEF Ranks!Ranked
  <2>3. QED BY <2>1, <2>2, <1>3 DEF Ranks!NoTies
<1>6. Ranks!NoGaps
  <2>1. ASSUME NEW k \in Key, Has(k), RankOf[k] > 1
        PROVE  \E j \in Key : Has(j) /\ RankOf[j] = RankOf[k] - 1
    <3>1. keys_map[k] \in 0..(curr_num - 1) /\ RankOf[k] = keys_map[k] + 1
      BY <2>1, <1>2, RanksOf
    <3>2. keys_map[k] - 1 \in Idx /\ keys_map[k] - 1 < curr_num
      BY <3>1, <2>1, <1>1 DEF Idx
    <3>3. PICK j \in Key : keys_map[j] = keys_map[k] - 1
      BY <3>2, <1>1 DEF MapLeadsToItems
    <3>4. Has(j)
      BY <3>2, <3>3, IdxType DEF Has
    <3>5. QED BY <3>1, <3>3, <3>4, RanksOf
  <2>2. Ranks!Ranked \subseteq Key
    BY DEF Ranks!Ranked
  <2>3. QED BY <2>1, <2>2, <1>3 DEF Ranks!NoGaps
<1>7. QED BY <1>4, <1>5, <1>6

\* Both sides of a step, in the words of the list.
LEMMA RanksOfStep ==
  ASSUME RankInv, RankInv'
  PROVE  /\ \A k \in Key : k \in Ranks!Ranked <=> Has(k)
         /\ \A k \in Key : k \in Ranks!Ranked' <=> keys_map'[k] # NoIdx
         /\ Ranks!Ranked \subseteq Key /\ Ranks!Ranked' \subseteq Key
         /\ \A k \in Key : RankOf'[k] = IF keys_map'[k] # NoIdx THEN keys_map'[k] + 1 ELSE 0
         /\ \A k \in Key : ValueOf'[k] = IF keys_map'[k] # NoIdx
                                         THEN items'[keys_map'[k]].value ELSE 0
         /\ Ranks!TypeOK' /\ Ranks!NoTies' /\ Ranks!NoGaps'
<1>1. MapOK /\ MapOK'
  BY DEF RankInv, TypeOK, MapOK
<1>2. MapOK' => ((\A k \in Key : k \in Ranks!Ranked <=> Has(k)) /\ Ranks!Ranked \subseteq Key)'
  BY RankedHas, PTL
<1>3. \A k \in Key : Has(k)' <=> keys_map'[k] # NoIdx
  BY DEF Has
<1>4. RankInv' => Ranks!TypeOK' /\ Ranks!NoTies' /\ Ranks!NoGaps'
  BY RanksAreRanks, PTL
<1>5. /\ \A k \in Key : RankOf'[k] = IF keys_map'[k] # NoIdx THEN keys_map'[k] + 1 ELSE 0
      /\ \A k \in Key : ValueOf'[k] = IF keys_map'[k] # NoIdx
                                      THEN items'[keys_map'[k]].value ELSE 0
  BY DEF RankOf, ValueOf, Has
<1>6. QED BY <1>1, <1>2, <1>3, <1>4, <1>5, RankedHas

\* An item that is put where it belongs: the key stands behind its equals, nobody passes.
LEMMA PutIsPut ==
  ASSUME RankInv, RankInv', NEW k \in Key, NEW v \in Value, PutAt(k, v),
         Has(k) => v # items[keys_map[k]].value, ~ Has(k) => curr_num < MaxNum
  PROVE  Ranks!Put(k, v)
<1> DEFINE it == [key |-> k, value |-> v]
           from == PlaceOf(k)
<1>1. /\ TypeOK /\ MapLeadsToItems /\ BestFirst /\ from \in Idx /\ MaxNum \in Nat \ {0}
      /\ curr_num \in Nat
  BY ShortRankListAssumption DEF RankInv, PutAt, TypeOK
<1>2. PICK to \in Idx : Shifted(k, to, it) /\ RightPlace(k, to, v)
  BY DEF PutAt
<1>3. it.value = v /\ it # NoItem
  BY NewItem
<1>4. /\ items'[to] = it /\ keys_map'[k] = to
      /\ \A i \in Idx \ {from} : items'[Dest(from, to, i)] = items[i]
      /\ \A j \in Key \ {k} : keys_map'[j] = IF Has(j) THEN Dest(from, to, keys_map[j])
                                             ELSE NoIdx
  BY <1>2, <1>3 DEF Shifted
<1>5. /\ \A j \in Key \ {k} : Has(j) => /\ keys_map[j] \in Idx \ {from}
                                        /\ keys_map[j] \in 0..(curr_num - 1)
  BY <1>1, PlaceOfKeys
<1> HIDE DEF from, it
<1>6. to # NoIdx /\ to \in Int /\ from \in Int
  BY <1>1, IdxType
<1>7. ASSUME NEW j \in Key \ {k}, Has(j)
      PROVE  /\ keys_map'[j] = Dest(from, to, keys_map[j]) /\ keys_map'[j] # NoIdx
             /\ keys_map'[j] \in Int /\ keys_map[j] \in Int
             /\ items'[keys_map'[j]] = items[keys_map[j]]
             /\ RankOf[j] = keys_map[j] + 1 /\ RankOf'[j] = keys_map'[j] + 1
             /\ ValueOf[j] = items[keys_map[j]].value /\ ValueOf'[j] = ValueOf[j]
  <2>1. keys_map[j] \in Idx \ {from} /\ keys_map'[j] = Dest(from, to, keys_map[j])
    BY <1>4, <1>5, <1>7
  <2>2. Dest(from, to, keys_map[j]) \in Idx
    BY <2>1, <1>1, DestPlaces DEF from
  <2>3. keys_map'[j] # NoIdx /\ keys_map'[j] \in Int /\ keys_map[j] \in Int
    BY <2>1, <2>2, IdxType
  <2>4. items'[keys_map'[j]] = items[keys_map[j]]
    BY <2>1, <1>4
  <2>5. QED BY <2>1, <2>3, <2>4, <1>7, RanksOf, RanksOfStep
<1>8. ASSUME NEW j \in Key \ {k}, ~ Has(j)
      PROVE  keys_map'[j] = NoIdx /\ RankOf'[j] = 0 /\ ValueOf'[j] = 0 /\ ValueOf[j] = 0
  <2>1. keys_map'[j] = NoIdx
    BY <1>4, <1>8
  <2>2. QED BY <2>1, <1>8, RanksOf, RanksOfStep
<1>9. RankOf'[k] = to + 1 /\ ValueOf'[k] = v /\ keys_map'[k] # NoIdx
  BY <1>3, <1>4, <1>6, RanksOfStep
<1>10. k \in Ranks!Ranked => v # ValueOf[k]
  BY RanksOf, RanksOfStep
<1>11. k \notin Ranks!Ranked => ~ Ranks!Full
  <2>1. SUFFICES ASSUME ~ Has(k), Ranks!Full
                 PROVE  FALSE
    BY RanksOfStep
  <2>2. PICK j \in Key : RankOf[j] = MaxNum
    BY <2>1, <1>1 DEF Ranks!Full
  <2>3. Has(j) /\ keys_map[j] = MaxNum - 1
    <3>1. Has(j)
      BY <2>2, <1>1, RanksOf
    <3>2. keys_map[j] \in Int
      BY <3>1, <1>1, ItemsOfKeys, IdxType
    <3>3. QED BY <3>1, <3>2, <2>2, <1>1, RanksOf
  <2>4. keys_map[j] \in 0..(curr_num - 1)
    BY <2>3, <1>1, ItemsOfKeys
  <2>5. QED BY <2>1, <2>3, <2>4, <1>1
<1>12. ValueOf' = [ValueOf EXCEPT ![k] = v]
  <2>1. ASSUME NEW j \in Key
        PROVE  ValueOf'[j] = [ValueOf EXCEPT ![k] = v][j]
    <3>1. CASE j = k
      BY <3>1, <1>9 DEF ValueOf
    <3>2. CASE j # k
      BY <3>2, <1>7, <1>8 DEF ValueOf
    <3>3. QED BY <3>1, <3>2
  <2>2. DOMAIN ValueOf' = Key /\ DOMAIN ValueOf = Key
    BY DEF ValueOf
  <2>3. ValueOf' = [j \in Key |-> ValueOf'[j]]
    BY DEF ValueOf
  <2>4. [ValueOf EXCEPT ![k] = v] = [j \in Key |-> [ValueOf EXCEPT ![k] = v][j]]
    BY <2>2
  <2>5. QED BY <2>1, <2>3, <2>4
<1>13. Ranks!Ranked' = Ranks!Ranked \cup {k}
  <2>1. ASSUME NEW j \in Key
        PROVE  j \in Ranks!Ranked' <=> j \in Ranks!Ranked \cup {k}
    BY <1>7, <1>8, <1>9, RanksOfStep
  <2>2. QED BY <2>1, RanksOfStep
<1>14. \A i, j \in Ranks!Ranked \ {k} : RankOf'[i] < RankOf'[j] <=> RankOf[i] < RankOf[j]
  <2>1. ASSUME NEW i \in Key \ {k}, NEW j \in Key \ {k}, Has(i), Has(j)
        PROVE  RankOf'[i] < RankOf'[j] <=> RankOf[i] < RankOf[j]
    <3>1. keys_map'[i] < keys_map'[j] <=> keys_map[i] < keys_map[j]
      BY <2>1, <1>5, <1>6, <1>7, DestOrder
    <3>2. QED BY <3>1, <2>1, <1>7
  <2>2. QED BY <2>1, RanksOfStep
<1>15. \A j \in Ranks!Ranked \ {k} : RankOf'[j] < RankOf'[k] <=> ValueOf[j] >= v
  <2>1. ASSUME NEW j \in Key \ {k}, Has(j)
        PROVE  RankOf'[j] < RankOf'[k] <=> ValueOf[j] >= v
    <3>1. keys_map[j] \in 0..(curr_num - 1) /\ keys_map[j] # from
      BY <2>1, <1>5
    <3>2. Dest(from, to, keys_map[j]) < to <=> items[keys_map[j]].value >= v
      BY <3>1, <1>2 DEF RightPlace, from
    <3>3. RankOf'[j] = Dest(from, to, keys_map[j]) + 1 /\ Dest(from, to, keys_map[j]) \in Int
      BY <2>1, <1>7
    <3>4. ValueOf[j] = items[keys_map[j]].value
      BY <2>1, <1>7
    <3>5. QED BY <3>2, <3>3, <3>4, <1>6, <1>9
  <2>2. QED BY <2>1, RanksOfStep
<1>16. QED BY <1>10, <1>11, <1>12, <1>13, <1>14, <1>15 DEF Ranks!Put, Ranks!KeepOrder

LEMMA TakeIsTake ==
  ASSUME RankInv, RankInv', NEW k \in Key, Has(k), TakenOut(k)
  PROVE  Ranks!Take(k)
<1> DEFINE from == PlaceOf(k)
           to == curr_num - 1
<1>1. TypeOK /\ MapLeadsToItems /\ from \in Idx /\ to \in Idx
  BY DEF RankInv, TakenOut
<1>2. /\ keys_map'[k] = NoIdx
      /\ \A i \in Idx \ {from} : items'[Dest(from, to, i)] = items[i]
      /\ \A j \in Key \ {k} : keys_map'[j] = IF Has(j) THEN Dest(from, to, keys_map[j])
                                             ELSE NoIdx
  BY DEF TakenOut, Shifted
<1>3. /\ \A j \in Key \ {k} : Has(j) => keys_map[j] \in Idx \ {from}
  BY <1>1, PlaceOfKeys
<1> HIDE DEF from, to
<1>4. to \in Int /\ from \in Int
  BY <1>1, IdxType
<1>7. ASSUME NEW j \in Key \ {k}, Has(j)
      PROVE  /\ keys_map'[j] = Dest(from, to, keys_map[j]) /\ keys_map'[j] # NoIdx
             /\ keys_map'[j] \in Int /\ keys_map[j] \in Int
             /\ RankOf[j] = keys_map[j] + 1 /\ RankOf'[j] = keys_map'[j] + 1
             /\ ValueOf'[j] = ValueOf[j]
  <2>1. keys_map[j] \in Idx \ {from} /\ keys_map'[j] = Dest(from, to, keys_map[j])
    BY <1>2, <1>3, <1>7
  <2>2. Dest(from, to, keys_map[j]) \in Idx
    BY <2>1, <1>1, DestPlaces DEF from
  <2>3. keys_map'[j] # NoIdx /\ keys_map'[j] \in Int /\ keys_map[j] \in Int
    BY <2>1, <2>2, IdxType
  <2>4. items'[keys_map'[j]] = items[keys_map[j]]
    BY <2>1, <1>2
  <2>5. QED BY <2>1, <2>3, <2>4, <1>7, RanksOf, RanksOfStep
<1>8. ASSUME NEW j \in Key \ {k}, ~ Has(j)
      PROVE  keys_map'[j] = NoIdx /\ ValueOf'[j] = 0 /\ ValueOf[j] = 0
  <2>1. keys_map'[j] = NoIdx
    BY <1>2, <1>8
  <2>2. QED BY <2>1, <1>8, RanksOf, RanksOfStep
<1>9. ValueOf'[k] = 0 /\ k \in Ranks!Ranked
  BY <1>2, RanksOfStep
<1>12. ValueOf' = [ValueOf EXCEPT ![k] = 0]
  <2>1. ASSUME NEW j \in Key
        PROVE  ValueOf'[j] = [ValueOf EXCEPT ![k] = 0][j]
    <3>1. CASE j = k
      BY <3>1, <1>9 DEF ValueOf
    <3>2. CASE j # k
      BY <3>2, <1>7, <1>8 DEF ValueOf
    <3>3. QED BY <3>1, <3>2
  <2>2. DOMAIN ValueOf' = Key /\ DOMAIN ValueOf = Key
    BY DEF ValueOf
  <2>3. ValueOf' = [j \in Key |-> ValueOf'[j]]
    BY DEF ValueOf
  <2>4. [ValueOf EXCEPT ![k] = 0] = [j \in Key |-> [ValueOf EXCEPT ![k] = 0][j]]
    BY <2>2
  <2>5. QED BY <2>1, <2>3, <2>4
<1>13. Ranks!Ranked' = Ranks!Ranked \ {k}
  <2>1. ASSUME NEW j \in Key
        PROVE  j \in Ranks!Ranked' <=> j \in Ranks!Ranked \ {k}
    BY <1>2, <1>7, <1>8, RanksOfStep
  <2>2. QED BY <2>1, RanksOfStep
<1>14. \A i, j \in Ranks!Ranked' : RankOf'[i] < RankOf'[j] <=> RankOf[i] < RankOf[j]
  <2>1. ASSUME NEW i \in Key \ {k}, NEW j \in Key \ {k}, Has(i), Has(j)
        PROVE  RankOf'[i] < RankOf'[j] <=> RankOf[i] < RankOf[j]
    <3>1. keys_map'[i] < keys_map'[j] <=> keys_map[i] < keys_map[j]
      BY <2>1, <1>3, <1>4, <1>7, DestOrder
    <3>2. QED BY <3>1, <2>1, <1>7
  <2>2. QED BY <2>1, <1>13, RanksOfStep
<1>15. QED BY <1>9, <1>12, <1>13, <1>14 DEF Ranks!Take, Ranks!KeepOrder

LEMMA ClearIsEmpty ==
  ASSUME RankInv, RankInv', Clear
  PROVE  Ranks!Empty
<1>1. \A k \in Key : keys_map'[k] = NoIdx
  BY DEF Clear
<1>2. Ranks!Ranked' = {}
  BY <1>1, RanksOfStep
<1>3. ValueOf' = [k \in Key |-> 0]
  <2>1. \A k \in Key : ValueOf'[k] = 0
    BY <1>1, RanksOfStep
  <2>2. ValueOf' = [k \in Key |-> ValueOf'[k]]
    BY DEF ValueOf
  <2>3. QED BY <2>1, <2>2
<1>4. QED BY <1>2, <1>3 DEF Ranks!Empty

\* short_ranklist.go: an update moves one key to where its value belongs, behind its
\* equals, a deletion takes one out, and among the others nobody ever passes another:
\* array and map implement Ranking.
THEOREM RankListRanks == Spec => KeepsRanking
<1>1. Init => Ranks!Init
  <2> SUFFICES ASSUME Init
               PROVE  Ranks!Init
    OBVIOUS
  <2>1. \A k \in Key : ~ Has(k)
    BY DEF Init, Has
  <2>2. \A k \in Key : RankOf[k] = 0 /\ ValueOf[k] = 0
    BY <2>1, RanksOf
  <2>3. RankOf = [k \in Key |-> RankOf[k]] /\ ValueOf = [k \in Key |-> ValueOf[k]]
    BY DEF RankOf, ValueOf
  <2>4. QED BY <2>2, <2>3 DEF Ranks!Init
<1>2. RankInv /\ RankInv' /\ [Next]_listVars => [Ranks!Next]_(Ranks!rankingVars)
  <2> SUFFICES ASSUME RankInv, RankInv', [Next]_listVars,
                      Ranks!rankingVars' # Ranks!rankingVars
               PROVE  Ranks!Next
    OBVIOUS
  <2>1. Ranks!TypeOK' /\ Ranks!NoTies' /\ Ranks!NoGaps'
    BY RanksOfStep
  <2>2. CASE UNCHANGED listVars
    BY <2>2 DEF listVars, Ranks!rankingVars, RankOf, ValueOf, Has
  <2>3. CASE \E k \in Key, v \in Value, add \in BOOLEAN : Update(k, v, add)
    <3>1. PICK k \in Key, v \in Value, add \in BOOLEAN : Update(k, v, add)
      BY <2>3
    <3>2. CASE UNCHANGED listVars
      BY <3>2, <2>2
    <3>3. CASE \E w \in Value : /\ PutAt(k, w)
                                /\ Has(k) => w # items[keys_map[k]].value
                                /\ ~ Has(k) => curr_num < MaxNum
      <4>1. PICK w \in Value : Ranks!Put(k, w)
        BY <3>3, PutIsPut
      <4>2. QED BY <4>1, <2>1 DEF Ranks!Next, Value
    <3>4. QED BY <3>1, <3>2, <3>3, UpdatePuts
  <2>4. CASE \E k \in Key : Delete(k)
    <3>1. PICK k \in Key : Ranks!Take(k)
      BY <2>4, DeleteTakesOut, TakeIsTake
    <3>2. QED BY <3>1, <2>1 DEF Ranks!Next
  <2>5. CASE Clear
    BY <2>5, <2>1, ClearIsEmpty DEF Ranks!Next
  <2>6. QED BY <2>2, <2>3, <2>4, <2>5 DEF Next
<1>3. QED BY <1>1, <1>2, RankListInvariant, PTL DEF Spec, KeepsRanking, Ranks!Spec

(***************************************************************************)
(* A player's roles. The list holds roles of the bag and intruders only. A *)
(* role that has been looked at has its power there, or no place at all:   *)
(* then the list was full, and as many of its places were intruders' as    *)
(* roles had none.                                                         *)
(***************************************************************************)

BagOK == IsFiniteSet(roles) /\ Cardinality(roles) <= MaxNum
IntrudersOK == IsFiniteSet(intruders) /\ (~ loaded => intruders = {})
StrangersKnown == \A k \in Key \ roles : Has(k) => k \in intruders
LoadedWhenDone == (loaded => to_load = {}) /\ \A k \in to_load : ~ Has(k)
MissingAbsent == \A k \in Missing : ~ Has(k)
MissingFew == Cardinality(Missing) <= Cardinality(intruders)

PowerInv ==
  /\ PowerTypeOK /\ RankInv
  /\ BagOK /\ IntrudersOK /\ StrangersKnown /\ LoadedWhenDone
  /\ MissingAbsent /\ MissingFew
  /\ TopIsTold

\* The places are as many as the roles of a bag, and each is taken by another key: when all
\* are taken, no more roles M of the bag R are without one than there are keys I beside it.
LEMMA FullListMisses ==
  ASSUME RankInv, ~ curr_num < MaxNum,
         NEW R, IsFiniteSet(R), Cardinality(R) <= MaxNum,
         NEW I, IsFiniteSet(I),
         \A j \in Key : Has(j) => j \in R \cup I,
         NEW M, M \subseteq R, \A m \in M : m \in Key /\ ~ Has(m)
  PROVE  Cardinality(M) <= Cardinality(I)
<1>1. TypeOK /\ MapLeadsToItems /\ curr_num = MaxNum /\ MaxNum \in Nat \ {0}
  BY ShortRankListAssumption DEF RankInv, TypeOK
<1> DEFINE f == [i \in Idx |-> items[i].key]
           T == (R \ M) \cup I
<1>2. \A i \in Idx : i < curr_num
  BY <1>1 DEF Idx
<1>3. ASSUME NEW i \in Idx
      PROVE  f[i] \in T /\ keys_map[f[i]] = i
  <2>1. items[i].key \in Key /\ keys_map[items[i].key] = i
    BY <1>1, <1>2 DEF MapLeadsToItems
  <2>2. Has(items[i].key)
    BY <2>1, IdxType DEF Has
  <2>3. QED BY <2>1, <2>2
<1>4. IsFiniteSet(M) /\ IsFiniteSet(R \ M) /\ Cardinality(R \ M) = Cardinality(R) - Cardinality(M)
  <2>1. R \cap M = M /\ M \in SUBSET R
    OBVIOUS
  <2>2. IsFiniteSet(M)
    BY <2>1, FS_Subset
  <2>3. IsFiniteSet(R \ M) /\ Cardinality(R \ M) = Cardinality(R) - Cardinality(R \cap M)
    BY FS_Difference
  <2>4. QED BY <2>1, <2>2, <2>3
<1>5. IsFiniteSet(T) /\ Cardinality(T) <= Cardinality(R \ M) + Cardinality(I)
  <2>1. IsFiniteSet((R \ M) \cap I)
    BY <1>4, FS_Intersection
  <2>2. Cardinality((R \ M) \cap I) \in Nat /\ Cardinality(R \ M) \in Nat /\ Cardinality(I) \in Nat
    BY <1>4, <2>1, FS_CardinalityType
  <2>3. /\ IsFiniteSet(T)
        /\ Cardinality(T) = Cardinality(R \ M) + Cardinality(I) - Cardinality((R \ M) \cap I)
    BY <1>4, FS_Union
  <2> HIDE DEF T
  <2>4. QED BY <2>2, <2>3
<1> HIDE DEF f, T
<1>6. f \in Injection(Idx, T)
  <2>1. f \in [Idx -> T]
    BY <1>3 DEF f
  <2>2. \A i, j \in Idx : f[i] = f[j] => i = j
    BY <1>3
  <2>3. QED BY <2>1, <2>2 DEF Injection, IsInjective
<1>7. Cardinality(Idx) <= Cardinality(T)
  BY <1>5, <1>6, FS_Injection
<1>8. Cardinality(Idx) = MaxNum
  <2>1. Cardinality(0..(MaxNum - 1)) = IF 0 > MaxNum - 1 THEN 0 ELSE (MaxNum - 1) - 0 + 1
    BY <1>1, FS_Interval
  <2>2. QED BY <2>1, <1>1 DEF Idx
<1>9. /\ Cardinality(R) \in Nat /\ Cardinality(M) \in Nat /\ Cardinality(I) \in Nat
      /\ Cardinality(T) \in Nat
  BY <1>4, <1>5, FS_CardinalityType
<1>10. QED BY <1>1, <1>4, <1>5, <1>7, <1>8, <1>9

\* Without an intruder, a role that is not in the list finds a place.
LEMMA RoomForARole ==
  ASSUME RankInv, NEW R \in SUBSET Key, IsFiniteSet(R), Cardinality(R) <= MaxNum,
         \A j \in Key : Has(j) => j \in R,
         NEW k \in R, ~ Has(k)
  PROVE  curr_num < MaxNum
<1>1. SUFFICES ASSUME ~ curr_num < MaxNum PROVE FALSE
  OBVIOUS
<1>2. Cardinality({k}) <= Cardinality({})
  <2> DEFINE I == {}
             M == {k}
  <2>1. IsFiniteSet(I)
    BY FS_EmptySet
  <2>2. M \subseteq R /\ \A m \in M : m \in Key /\ ~ Has(m)
    OBVIOUS
  <2>3. \A j \in Key : Has(j) => j \in R \cup I
    OBVIOUS
  <2> HIDE DEF I, M
  <2>4. Cardinality(M) <= Cardinality(I)
    BY <1>1, <2>1, <2>2, <2>3, FullListMisses
  <2>5. QED BY <2>4 DEF I, M
<1>3. Cardinality({k}) = 1
  BY FS_Singleton, Zenon
<1>4. Cardinality({}) = 0
  BY FS_EmptySet
<1>5. QED BY <1>2, <1>3, <1>4

\* As long as no role is missing that was not.
LEMMA MissingStayFew ==
  ASSUME BagOK, MissingFew, Missing' \subseteq Missing,
         IntrudersOK', intruders \subseteq intruders'
  PROVE  MissingFew'
<1>1. IsFiniteSet(Missing) /\ IsFiniteSet(intruders')
  BY FS_Subset DEF BagOK, Missing, IntrudersOK
<1>2. Cardinality(Missing') <= Cardinality(Missing) /\ IsFiniteSet(Missing')
  BY <1>1, FS_Subset
<1>3. Cardinality(intruders) <= Cardinality(intruders') /\ IsFiniteSet(intruders)
  BY <1>1, FS_Subset
<1>4. /\ Cardinality(Missing) \in Nat /\ Cardinality(Missing') \in Nat
      /\ Cardinality(intruders) \in Nat /\ Cardinality(intruders') \in Nat
  BY <1>1, <1>2, <1>3, FS_CardinalityType
<1>5. QED BY <1>2, <1>3, <1>4 DEF MissingFew

(***************************************************************************)
(* The first places.                                                       *)
(***************************************************************************)

LEMMA TopPowersType ==
  TypeOK => TopPowers \in [1..TopNum -> Value]
<1> SUFFICES ASSUME TypeOK
             PROVE  TopPowers \in [1..TopNum -> Value]
  OBVIOUS
<1>1. ASSUME NEW r \in 1..TopNum, ~ curr_num < r
      PROVE  items[r - 1].value \in Value
  <2>1. r - 1 \in Idx
    BY <1>1, ShortRankListAssumption, RolePowerRankAssumption DEF TypeOK, Idx
  <2>2. QED BY <2>1, ItemKinds DEF TypeOK
<1>2. 0 \in Value
  BY ShortRankListAssumption DEF Value
<1>3. QED BY <1>1, <1>2 DEF TopPowers

LEMMA TellsTheTop ==
  ASSUME TypeOK', told_powers \in [1..TopNum -> Value], Tell
  PROVE  /\ told_powers' \in [1..TopNum -> Value]
         /\ (\E r \in 1..TopNum : TopPowers'[r] > 0) => told_powers' = TopPowers'
<1>1. TypeOK' => (TopPowers \in [1..TopNum -> Value])'
  BY TopPowersType, PTL
<1>2. QED BY <1>1 DEF Tell

\* Behind the first places neither the role nor its place matters.
LEMMA TopUntouched ==
  ASSUME NEW n \in Nat, curr_num \in Nat, curr_num' = n,
         NEW from \in Idx, NEW to \in Idx, from >= TopNum, to >= TopNum,
         curr_num >= TopNum, n >= TopNum,
         \A i \in Idx \ {from} : items'[Dest(from, to, i)] = items[i]
  PROVE  TopPowers' = TopPowers
<1>1. ASSUME NEW r \in 1..TopNum
      PROVE  /\ items'[r - 1] = items[r - 1]
             /\ ~ curr_num < r /\ ~ curr_num' < r
  <2>1. TopNum \in Nat /\ from \in Int /\ to \in Int
    BY RolePowerRankAssumption, IdxType
  <2>2. r - 1 \in Idx \ {from} /\ Dest(from, to, r - 1) = r - 1
    BY <2>1, ShortRankListAssumption DEF Dest, Idx
  <2>3. ~ curr_num < r /\ ~ curr_num' < r
    BY <2>1
  <2>4. QED BY <2>2, <2>3
<1>2. QED BY <1>1 DEF TopPowers

LEMMA PutBehindTop ==
  ASSUME RankInv, NEW k \in Key, NEW v \in Value, PutAt(k, v),
         curr_num' \in 0..MaxNum, ~ OnTop(k), ~ OnTop(k)'
  PROVE  TopPowers' = TopPowers
<1> DEFINE from == PlaceOf(k)
<1>1. TypeOK /\ MapLeadsToItems /\ from \in Idx /\ curr_num \in Nat /\ TopNum \in Nat
  BY RolePowerRankAssumption DEF RankInv, TypeOK, PutAt
<1>2. PICK to \in Idx : to < curr_num' /\ Shifted(k, to, [key |-> k, value |-> v])
  BY DEF PutAt
<1>3. /\ keys_map'[k] = to
      /\ \A i \in Idx \ {from} : items'[Dest(from, to, i)] = items[i]
  BY <1>2, NewItem DEF Shifted
<1>4. to \in Int /\ to >= 0 /\ from \in Int
  BY <1>1, IdxType
<1>5. to >= TopNum
  BY <1>1, <1>3, <1>4 DEF OnTop
<1>6. curr_num' = IF Has(k) THEN curr_num ELSE curr_num + 1
  BY DEF PutAt
<1>7. from >= TopNum /\ curr_num >= TopNum /\ curr_num' >= TopNum /\ curr_num' \in Nat
  <2>1. CASE Has(k)
    <3>1. from = keys_map[k] /\ from \in 0..(curr_num - 1)
      BY <2>1, <1>1, ItemsOfKeys DEF PlaceOf
    <3>2. from >= TopNum
      BY <3>1, <1>1 DEF OnTop
    <3>3. QED BY <3>1, <3>2, <2>1, <1>1, <1>6
  <2>2. CASE ~ Has(k)
    <3>1. from = curr_num /\ curr_num' = curr_num + 1
      BY <2>2, <1>6 DEF PlaceOf
    <3>2. QED BY <3>1, <1>1, <1>2, <1>4, <1>5
  <2>3. QED BY <2>1, <2>2
<1> HIDE DEF from
<1>8. QED BY <1>1, <1>3, <1>5, <1>7, TopUntouched

LEMMA TakeBehindTop ==
  ASSUME RankInv, NEW k \in Key, Has(k), TakenOut(k), ~ OnTop(k)
  PROVE  TopPowers' = TopPowers
<1> DEFINE from == PlaceOf(k)
           to == curr_num - 1
<1>1. TypeOK /\ MapLeadsToItems /\ from \in Idx /\ to \in Idx /\ curr_num \in Nat
      /\ TopNum \in Nat /\ curr_num' = to
  BY RolePowerRankAssumption DEF RankInv, TypeOK, TakenOut
<1>2. \A i \in Idx \ {from} : items'[Dest(from, to, i)] = items[i]
  BY DEF TakenOut, Shifted
<1>3. from = keys_map[k] /\ from \in 0..(curr_num - 1)
  BY <1>1, ItemsOfKeys DEF PlaceOf
<1>4. from >= TopNum
  BY <1>1, <1>3 DEF OnTop
<1>5. to >= TopNum /\ curr_num >= TopNum /\ to \in Nat
  BY <1>1, <1>3, <1>4
<1> HIDE DEF from, to
<1>6. QED BY <1>1, <1>2, <1>4, <1>5, TopUntouched

(***************************************************************************)
(* What a step of a handler does, in the words of the roles.               *)
(***************************************************************************)

\* The role k is ranked with p, the others stay as they were.
RankedWith(k, p) ==
  /\ ValueOf' = [ValueOf EXCEPT ![k] = p]
  /\ \A j \in Key \ {k} : keys_map'[j] # NoIdx <=> Has(j)

LEMMA ValueOfFunction ==
  /\ DOMAIN ValueOf = Key
  /\ \A k \in Key : ~ Has(k) => ValueOf[k] = 0
BY DEF ValueOf

LEMMA UpdateRanks ==
  ASSUME RankInv, NEW k \in Key, NEW p \in Value, Update(k, p, FALSE),
         Has(k) \/ curr_num < MaxNum
  PROVE  /\ RankInv' /\ RankedWith(k, p)
         /\ ~ OnTop(k) /\ ~ OnTop(k)' => TopPowers' = TopPowers
<1>1. RankInv'
  BY UpdateKeepsList
<1>2. CASE UNCHANGED listVars /\ LeaveOut(k, p, FALSE)
  <2>1. Has(k) /\ p = items[keys_map[k]].value
    <3>1. curr_num < MaxNum => ~ curr_num >= MaxNum
      BY ShortRankListAssumption DEF RankInv, TypeOK
    <3>2. QED BY <3>1, <1>2 DEF LeaveOut, NewValue
  <2>2. ValueOf[k] = p
    BY <2>1 DEF ValueOf
  <2>3. items' = items /\ keys_map' = keys_map /\ curr_num' = curr_num
    BY <1>2 DEF listVars
  <2>4. ValueOf' = ValueOf
    BY <2>3 DEF ValueOf, Has
  <2>5. RankedWith(k, p)
    BY <2>2, <2>3, <2>4, ValueOfFunction DEF RankedWith, Has, ValueOf
  <2>6. TopPowers' = TopPowers
    BY <2>3 DEF TopPowers
  <2>7. QED BY <1>1, <2>5, <2>6
<1>3. CASE /\ PutAt(k, p) /\ curr_num' \in 0..MaxNum
           /\ Has(k) => p # items[keys_map[k]].value
           /\ ~ Has(k) => curr_num < MaxNum
  <2>1. Ranks!Put(k, p)
    BY <1>1, <1>3, PutIsPut
  <2>2. ValueOf' = [ValueOf EXCEPT ![k] = p] /\ Ranks!Ranked' = Ranks!Ranked \cup {k}
    BY <2>1 DEF Ranks!Put
  <2>3. \A j \in Key \ {k} : keys_map'[j] # NoIdx <=> Has(j)
    BY <2>2, <1>1, RanksOfStep
  <2>4. ~ OnTop(k) /\ ~ OnTop(k)' => TopPowers' = TopPowers
    BY <1>3, PutBehindTop
  <2>5. QED BY <1>1, <2>2, <2>3, <2>4 DEF RankedWith
<1>4. QED BY <1>2, <1>3, UpdatePuts

\* A full list refuses a key it does not have.
LEMMA UpdateRefused ==
  ASSUME RankInv, NEW k \in Key, NEW p \in Value, Update(k, p, FALSE),
         ~ Has(k), ~ curr_num < MaxNum
  PROVE  items' = items /\ curr_num' = curr_num /\ keys_map' = keys_map
BY DEF Update, Insert, LeaveOut, listVars

\* k has the rank of p, or the list was full; the others stay as they were.
Placed(k, p) ==
  /\ \/ ValueOf'[k] = p
     \/ ~ Has(k) /\ ~ curr_num < MaxNum /\ keys_map' = keys_map
  /\ \A j \in Key \ {k} : ValueOf'[j] = ValueOf[j] /\ (keys_map'[j] # NoIdx <=> Has(j))

LEMMA UpdatePlaces ==
  ASSUME RankInv, NEW k \in Key, NEW p \in Value, Update(k, p, FALSE)
  PROVE  /\ RankInv' /\ Placed(k, p)
         /\ ~ OnTop(k) /\ ~ OnTop(k)' => TopPowers' = TopPowers
<1>1. CASE Has(k) \/ curr_num < MaxNum
  BY <1>1, UpdateRanks, ValueOfFunction DEF Placed, RankedWith
<1>2. CASE ~ Has(k) /\ ~ curr_num < MaxNum
  <2>1. items' = items /\ curr_num' = curr_num /\ keys_map' = keys_map
    BY <1>2, UpdateRefused
  <2>2. RankInv'
    BY <2>1 DEF RankInv, TypeOK, MapLeadsToItems, BestFirst, Has
  <2>3. ValueOf' = ValueOf /\ TopPowers' = TopPowers
    BY <2>1 DEF ValueOf, Has, TopPowers
  <2>4. QED BY <1>2, <2>1, <2>2, <2>3 DEF Placed, Has
<1>3. QED BY <1>1, <1>2

LEMMA DeleteUnranks ==
  ASSUME RankInv, NEW k \in Key, Delete(k)
  PROVE  /\ RankInv' /\ RankedWith(k, 0) /\ keys_map'[k] = NoIdx
         /\ ~ OnTop(k) => TopPowers' = TopPowers
<1>1. RankInv' /\ Has(k) /\ TakenOut(k)
  BY DeleteKeepsList, DeleteTakesOut
<1>2. Ranks!Take(k)
  BY <1>1, TakeIsTake
<1>3. ValueOf' = [ValueOf EXCEPT ![k] = 0] /\ Ranks!Ranked' = Ranks!Ranked \ {k}
  BY <1>2 DEF Ranks!Take
<1>4. /\ \A j \in Key \ {k} : keys_map'[j] # NoIdx <=> Has(j)
      /\ ~ keys_map'[k] # NoIdx
  BY <1>1, <1>3, RanksOfStep
<1>5. ~ OnTop(k) => TopPowers' = TopPowers
  BY <1>1, TakeBehindTop
<1>6. QED BY <1>1, <1>3, <1>4, <1>5 DEF RankedWith

\* The report follows the change of a role's rank.
LEMMA ToldAfterUpdate ==
  ASSUME PowerInv, NEW k \in Key, NEW p \in Value, UpdateRolePowerRank(k, p), loaded' = loaded
  PROVE  /\ RankInv' /\ Placed(k, p)
         /\ told_powers' \in [1..TopNum -> Value] /\ TopIsTold'
<1>1. /\ RankInv' /\ Placed(k, p)
      /\ ~ OnTop(k) /\ ~ OnTop(k)' => TopPowers' = TopPowers
  BY UpdatePlaces DEF UpdateRolePowerRank, PowerInv
<1>2. told_powers \in [1..TopNum -> Value] /\ TypeOK'
  BY <1>1 DEF PowerInv, PowerTypeOK, RankInv
<1>3. CASE Tell
  BY <1>1, <1>2, <1>3, TellsTheTop DEF TopIsTold
<1>4. CASE told_powers' = told_powers /\ TopPowers' = TopPowers
  BY <1>1, <1>2, <1>4 DEF PowerInv, TopIsTold
<1>5. QED BY <1>1, <1>3, <1>4 DEF UpdateRolePowerRank

LEMMA LoadRoleKeeps ==
  ASSUME PowerInv, NEW k \in Key, LoadRole(k)
  PROVE  PowerInv'
<1>1. /\ PowerTypeOK /\ RankInv /\ BagOK /\ IntrudersOK /\ StrangersKnown /\ LoadedWhenDone
      /\ MissingAbsent /\ MissingFew
      /\ k \in to_load /\ k \in roles /\ ~ Has(k) /\ ~ loaded
      /\ to_load' = to_load \ {k}
      /\ UNCHANGED <<roles, power, loaded, told_powers, unranked, intruders>>
  BY DEF PowerInv, LoadRole, PowerTypeOK, LoadedWhenDone
<1>2. PICK p \in Value : p = power[k]
  BY <1>1 DEF PowerTypeOK
<1>3. /\ RankInv' /\ ValueOf' = [ValueOf EXCEPT ![k] = p]
      /\ \A j \in Key \ {k} : keys_map'[j] # NoIdx <=> Has(j)
  <2>1. CASE p > 0
    <3>1. Update(k, p, FALSE)
      BY <1>2, <2>1 DEF LoadRole
    <3>2. curr_num < MaxNum
      <4>1. \A j \in Key : Has(j) => j \in roles
        BY <1>1 DEF StrangersKnown, IntrudersOK
      <4>2. QED BY <4>1, <1>1, RoomForARole DEF BagOK, PowerTypeOK
    <3>3. QED BY <3>1, <3>2, <1>1, UpdateRanks DEF RankedWith
  <2>2. CASE ~ p > 0
    <3>1. p = 0
      BY <2>2, <1>2, ShortRankListAssumption DEF Value
    <3>2. items' = items /\ keys_map' = keys_map /\ curr_num' = curr_num
      BY <1>2, <2>2 DEF LoadRole, listVars
    <3>3. ValueOf' = ValueOf
      BY <3>2 DEF ValueOf, Has
    <3>4. ValueOf' = [ValueOf EXCEPT ![k] = p]
      BY <3>1, <3>3, <1>1, ValueOfFunction DEF ValueOf
    <3>5. QED BY <3>2, <3>4, <1>1 DEF Has, RankInv, TypeOK, MapLeadsToItems, BestFirst
  <2>3. QED BY <2>1, <2>2
<1>4. PowerTypeOK'
  BY <1>1, <1>3 DEF PowerTypeOK, RankInv
<1>5. StrangersKnown' /\ BagOK' /\ IntrudersOK'
  BY <1>1, <1>3 DEF StrangersKnown, Has, BagOK, IntrudersOK, PowerTypeOK
<1>6. LoadedWhenDone'
  BY <1>1, <1>3 DEF LoadedWhenDone, Has, PowerTypeOK
<1>7. MissingAbsent' /\ MissingFew'
  <2>1. ASSUME NEW j \in Missing'
        PROVE  j \in Missing /\ j \in Key \ {k}
    <3>1. j \in roles \ (to_load' \cup unranked) /\ ValueOf'[j] # power[j] /\ j \in Key
      BY <1>1, <2>1 DEF Missing, PowerTypeOK
    <3>2. CASE j = k
      BY <3>1, <3>2, <1>2, <1>3, ValueOfFunction
    <3>3. CASE j # k
      BY <3>1, <3>3, <1>1, <1>3, ValueOfFunction DEF Missing
    <3>4. QED BY <3>2, <3>3
  <2>2. MissingAbsent'
    BY <2>1, <1>1, <1>3 DEF MissingAbsent, Has
  <2>3. MissingFew'
    BY <2>1, <1>1, <1>5, MissingStayFew
  <2>4. QED BY <2>2, <2>3
<1>8. TopIsTold'
  BY <1>1 DEF TopIsTold
<1>9. QED BY <1>3, <1>4, <1>5, <1>6, <1>7, <1>8 DEF PowerInv

LEMMA LoadEndKeeps ==
  ASSUME PowerInv, LoadEnd
  PROVE  PowerInv'
<1>1. /\ PowerTypeOK /\ RankInv /\ BagOK /\ IntrudersOK /\ StrangersKnown /\ LoadedWhenDone
      /\ MissingAbsent /\ MissingFew
      /\ to_load = {} /\ loaded' = TRUE /\ Tell
      /\ items' = items /\ keys_map' = keys_map /\ curr_num' = curr_num
      /\ UNCHANGED <<roles, power, to_load, unranked, intruders>>
  BY DEF PowerInv, LoadEnd, listVars
<1>2. RankInv'
  BY <1>1 DEF RankInv, TypeOK, MapLeadsToItems, BestFirst, Has
<1>3. told_powers' \in [1..TopNum -> Value] /\ TopIsTold'
  BY <1>1, <1>2, TellsTheTop DEF TopIsTold, RankInv, PowerTypeOK
<1>4. PowerTypeOK'
  BY <1>1, <1>2, <1>3 DEF PowerTypeOK, RankInv
<1>5. StrangersKnown' /\ BagOK' /\ IntrudersOK' /\ LoadedWhenDone'
  BY <1>1 DEF StrangersKnown, Has, BagOK, IntrudersOK, LoadedWhenDone
<1>6. MissingAbsent' /\ MissingFew'
  <2>1. Missing' = Missing
    BY <1>1 DEF Missing, ValueOf, Has
  <2>2. QED BY <2>1, <1>1 DEF MissingAbsent, MissingFew, Has
<1>7. QED BY <1>2, <1>3, <1>4, <1>5, <1>6 DEF PowerInv

\* A role of the bag is ranked anew, new_role's own or one whose row has changed.
LEMMA RankingKeeps ==
  ASSUME PowerInv, NEW k \in Key, NEW p \in Value, loaded,
         UpdateRolePowerRank(k, p),
         roles' = roles \cup {k}, IsFiniteSet(roles'), Cardinality(roles') <= MaxNum,
         power' = [power EXCEPT ![k] = p], UNCHANGED <<to_load, loaded, intruders>>
  PROVE  PowerInv'
<1>1. /\ PowerTypeOK /\ RankInv /\ BagOK /\ IntrudersOK /\ StrangersKnown /\ LoadedWhenDone
      /\ MissingAbsent /\ MissingFew
      /\ to_load = {} /\ to_load' = {} /\ loaded' = loaded /\ unranked' = unranked \ {k}
      /\ intruders' = intruders
  BY DEF PowerInv, LoadedWhenDone, UpdateRolePowerRank
<1>2. /\ RankInv' /\ Placed(k, p)
      /\ told_powers' \in [1..TopNum -> Value] /\ TopIsTold'
  BY <1>1, ToldAfterUpdate
<1>3. PowerTypeOK'
  BY <1>1, <1>2 DEF PowerTypeOK, RankInv
<1>4. StrangersKnown' /\ BagOK' /\ IntrudersOK' /\ LoadedWhenDone'
  BY <1>1, <1>2 DEF StrangersKnown, Has, BagOK, IntrudersOK, LoadedWhenDone, Placed
<1>5. ASSUME NEW j \in Missing'
      PROVE  j \in roles' /\ j \in Key /\ ValueOf'[j] # power'[j] /\ (j # k => j \in Missing)
  <2>1. /\ j \in roles' \ (to_load' \cup unranked') /\ ValueOf'[j] # power'[j] /\ j \in Key
    BY <1>1, <1>5 DEF Missing, PowerTypeOK
  <2>2. ASSUME j # k PROVE j \in Missing
    <3>1. power'[j] = power[j] /\ ValueOf'[j] = ValueOf[j]
      BY <2>1, <2>2, <1>1, <1>2 DEF PowerTypeOK, Placed
    <3>2. QED BY <2>1, <2>2, <3>1, <1>1 DEF Missing
  <2>3. QED BY <2>1, <2>2
<1>6. CASE ValueOf'[k] = p
  <2>1. k \notin Missing'
    BY <1>1, <1>5, <1>6 DEF PowerTypeOK
  <2>2. Missing' \subseteq Missing
    BY <1>5, <2>1
  <2>3. MissingAbsent'
    BY <1>1, <1>2, <1>5, <2>1 DEF MissingAbsent, Placed, Has
  <2>4. MissingFew'
    BY <2>2, <1>1, <1>4, MissingStayFew
  <2>5. QED BY <2>3, <2>4, <1>2, <1>3, <1>4 DEF PowerInv
<1>7. CASE ~ Has(k) /\ ~ curr_num < MaxNum /\ keys_map' = keys_map
  <2>1. ASSUME NEW j \in Missing' PROVE j \in Key /\ ~ Has(j)
    BY <1>1, <1>5, <1>7 DEF MissingAbsent
  <2>2. MissingAbsent'
    BY <2>1, <1>7 DEF MissingAbsent, Has
  <2>3. Missing' \subseteq roles'
    BY <1>5
  <2>4. \A j \in Key : Has(j) => j \in roles' \cup intruders
    BY <1>1 DEF StrangersKnown
  <2>5. Cardinality(Missing') <= Cardinality(intruders)
    BY <2>1, <2>3, <2>4, <1>1, <1>7, FullListMisses DEF IntrudersOK
  <2>6. MissingFew'
    BY <2>5, <1>1 DEF MissingFew
  <2>7. QED BY <2>2, <2>6, <1>2, <1>3, <1>4 DEF PowerInv
<1>8. QED BY <1>2, <1>6, <1>7 DEF Placed

\* A key that is no role is ranked: the roles stay as they are ranked.
LEMMA StrangerKeeps ==
  ASSUME PowerInv, NEW k \in Key, NEW p \in Value, RankStranger(k, p)
  PROVE  PowerInv'
<1>1. /\ PowerTypeOK /\ RankInv /\ BagOK /\ IntrudersOK /\ StrangersKnown /\ LoadedWhenDone
      /\ MissingAbsent /\ MissingFew
      /\ to_load = {} /\ loaded /\ unranked' = unranked \ {k} /\ k \notin roles
      /\ intruders' = IF keys_map'[k] # NoIdx THEN intruders \cup {k} ELSE intruders
      /\ UNCHANGED <<roles, power, to_load, loaded>>
  BY DEF PowerInv, LoadedWhenDone, UpdateRolePowerRank, RankStranger, Has
<1>2. /\ RankInv' /\ Placed(k, p)
      /\ told_powers' \in [1..TopNum -> Value] /\ TopIsTold'
  BY <1>1, ToldAfterUpdate DEF RankStranger
<1>3. PowerTypeOK'
  BY <1>1, <1>2 DEF PowerTypeOK, RankInv
<1>4. IntrudersOK' /\ intruders \subseteq intruders'
  BY <1>1, FS_AddElement DEF IntrudersOK
<1>5. StrangersKnown' /\ BagOK' /\ LoadedWhenDone'
  BY <1>1, <1>2 DEF StrangersKnown, Has, BagOK, LoadedWhenDone, Placed
<1>6. ASSUME NEW j \in Missing' PROVE j \in Missing /\ j \in Key \ {k}
  <2>1. j \in roles \ (to_load \cup unranked) /\ ValueOf'[j] # power[j] /\ j \in Key \ {k}
    BY <1>1, <1>6 DEF Missing, PowerTypeOK
  <2>2. QED BY <2>1, <1>2 DEF Missing, Placed
<1>7. MissingAbsent'
  BY <1>1, <1>2, <1>6 DEF MissingAbsent, Placed, Has
<1>8. MissingFew'
  BY <1>1, <1>4, <1>6, MissingStayFew
<1>9. QED BY <1>2, <1>3, <1>4, <1>5, <1>7, <1>8 DEF PowerInv

LEMMA DeleteRoleKeeps ==
  ASSUME PowerInv, NEW k \in Key, delete_role(k)
  PROVE  PowerInv'
<1>1. /\ PowerTypeOK /\ RankInv /\ BagOK /\ IntrudersOK /\ StrangersKnown /\ LoadedWhenDone
      /\ MissingAbsent /\ MissingFew /\ intruders' = intruders
      /\ loaded /\ to_load = {} /\ to_load' = {} /\ loaded' = loaded
      /\ roles' = roles \ {k} /\ unranked' = unranked \ {k}
      /\ power' = [power EXCEPT ![k] = 0]
  BY DEF PowerInv, LoadedWhenDone, delete_role
<1>2. /\ RankInv' /\ keys_map'[k] = NoIdx
      /\ \A j \in Key \ {k} : keys_map'[j] # NoIdx <=> Has(j)
      /\ \A j \in Key \ {k} : ValueOf'[j] = ValueOf[j]
      /\ told_powers' = told_powers => TopPowers' = TopPowers \/ OnTop(k)
  <2>1. CASE Delete(k)
    BY <2>1, <1>1, DeleteUnranks, ValueOfFunction DEF RankedWith
  <2>2. CASE ~ Has(k) /\ UNCHANGED listVars
    <3>1. items' = items /\ keys_map' = keys_map /\ curr_num' = curr_num
      BY <2>2 DEF listVars
    <3>2. ValueOf' = ValueOf /\ TopPowers' = TopPowers
      BY <3>1 DEF ValueOf, Has, TopPowers
    <3>3. QED
      BY <2>2, <3>1, <3>2, <1>1 DEF Has, RankInv, TypeOK, MapLeadsToItems, BestFirst
  <2>3. QED BY <2>1, <2>2 DEF delete_role, DeleteRolePowerRank
<1>3. told_powers' \in [1..TopNum -> Value] /\ TopIsTold'
  <2>1. told_powers \in [1..TopNum -> Value] /\ TypeOK'
    BY <1>1, <1>2 DEF PowerTypeOK, RankInv
  <2>2. CASE Tell
    BY <2>1, <2>2, TellsTheTop DEF TopIsTold
  <2>3. CASE told_powers' = told_powers /\ ~ OnTop(k)
    BY <1>1, <1>2, <2>1, <2>3 DEF PowerInv, TopIsTold
  <2>4. QED BY <2>2, <2>3 DEF delete_role, DeleteRolePowerRank
<1>4. PowerTypeOK'
  <2>1. 0 \in Value
    BY ShortRankListAssumption DEF Value
  <2>2. power' \in [Key -> Value]
    BY <2>1, <1>1 DEF PowerTypeOK
  <2>3. QED BY <2>2, <1>1, <1>2, <1>3 DEF PowerTypeOK, RankInv
<1>5. StrangersKnown' /\ IntrudersOK' /\ LoadedWhenDone'
  BY <1>1, <1>2 DEF StrangersKnown, IntrudersOK, Has, LoadedWhenDone
<1>6. BagOK'
  <2>1. /\ IsFiniteSet(roles \ {k}) /\ Cardinality(roles) \in Nat
        /\ Cardinality(roles \ {k}) = IF k \in roles THEN Cardinality(roles) - 1
                                      ELSE Cardinality(roles)
    BY <1>1, FS_RemoveElement, FS_CardinalityType DEF BagOK
  <2>2. Cardinality(roles \ {k}) <= MaxNum
    BY <2>1, <1>1, ShortRankListAssumption DEF BagOK
  <2>3. QED BY <2>1, <2>2, <1>1 DEF BagOK
<1>7. MissingAbsent' /\ MissingFew'
  <2>1. ASSUME NEW j \in Missing' PROVE j \in Missing /\ j \in Key \ {k}
    <3>1. /\ j \in roles \ (to_load \cup unranked) /\ ValueOf'[j] # power'[j]
          /\ j \in Key \ {k}
      BY <1>1, <2>1 DEF Missing, PowerTypeOK
    <3>2. power'[j] = power[j] /\ ValueOf'[j] = ValueOf[j]
      BY <3>1, <1>1, <1>2 DEF PowerTypeOK
    <3>3. QED BY <3>1, <3>2 DEF Missing
  <2>2. MissingAbsent'
    BY <2>1, <1>1, <1>2 DEF MissingAbsent, Has
  <2>3. MissingFew'
    BY <2>1, <1>1, <1>5, MissingStayFew
  <2>4. QED BY <2>2, <2>3
<1>8. QED BY <1>2, <1>3, <1>4, <1>5, <1>6, <1>7 DEF PowerInv

LEMMA UnrankedKeeps ==
  ASSUME PowerInv, NEW k \in Key, NEW p \in Value, ChangeRoleUnranked(k, p)
  PROVE  PowerInv'
<1>1. /\ PowerTypeOK /\ RankInv /\ BagOK /\ IntrudersOK /\ StrangersKnown /\ LoadedWhenDone
      /\ MissingAbsent /\ MissingFew /\ TopIsTold /\ k \in roles
      /\ items' = items /\ keys_map' = keys_map /\ curr_num' = curr_num
      /\ power' = [power EXCEPT ![k] = p] /\ unranked' = unranked \cup {k}
      /\ UNCHANGED <<roles, to_load, loaded, told_powers, intruders>>
  BY DEF PowerInv, ChangeRoleUnranked, listVars
<1>2. RankInv'
  BY <1>1 DEF RankInv, TypeOK, MapLeadsToItems, BestFirst, Has
<1>3. PowerTypeOK'
  BY <1>1, <1>2 DEF PowerTypeOK, RankInv
<1>4. StrangersKnown' /\ BagOK' /\ IntrudersOK' /\ LoadedWhenDone'
  BY <1>1 DEF StrangersKnown, Has, BagOK, IntrudersOK, LoadedWhenDone
<1>5. TopIsTold'
  <2>1. TopPowers' = TopPowers
    BY <1>1 DEF TopPowers
  <2>2. QED BY <2>1, <1>1 DEF TopIsTold
<1>6. MissingAbsent' /\ MissingFew'
  <2>1. ValueOf' = ValueOf
    BY <1>1 DEF ValueOf, Has
  <2>2. Missing' \subseteq Missing
    BY <2>1, <1>1 DEF Missing, PowerTypeOK
  <2>3. MissingAbsent'
    BY <2>2, <1>1 DEF MissingAbsent, Has
  <2>4. MissingFew'
    BY <2>2, <1>1, <1>4, MissingStayFew
  <2>5. QED BY <2>3, <2>4
<1>7. QED BY <1>2, <1>3, <1>4, <1>5, <1>6 DEF PowerInv

LEMMA PowerInvInit == PowerInit => PowerInv
<1> SUFFICES ASSUME PowerInit
             PROVE  PowerInv
  OBVIOUS
<1>1. RankInv /\ \A k \in Key : ~ Has(k)
  BY EmptyList DEF PowerInit, Init, Has
<1>2. told_powers \in [1..TopNum -> Value]
  BY ShortRankListAssumption DEF PowerInit, Value
<1>3. PowerTypeOK
  BY <1>1, <1>2 DEF PowerInit, PowerTypeOK, RankInv
<1>4. BagOK /\ IntrudersOK /\ StrangersKnown /\ LoadedWhenDone /\ TopIsTold
  BY <1>1, <1>3, FS_EmptySet
     DEF PowerInit, BagOK, IntrudersOK, StrangersKnown, LoadedWhenDone, TopIsTold, PowerTypeOK
<1>5. Missing = {} /\ intruders = {}
  BY DEF PowerInit, Missing
<1>6. MissingAbsent /\ MissingFew
  BY <1>5, FS_EmptySet DEF MissingAbsent, MissingFew
<1>7. QED BY <1>1, <1>3, <1>4, <1>6 DEF PowerInv

LEMMA PowerInvStep == PowerInv /\ [PowerNext]_powerVars => PowerInv'
<1> SUFFICES ASSUME PowerInv, [PowerNext]_powerVars
             PROVE  PowerInv'
  OBVIOUS
<1>1. CASE \E k \in Key : LoadRole(k)
  BY <1>1, LoadRoleKeeps
<1>2. CASE LoadEnd
  BY <1>2, LoadEndKeeps
<1>3. CASE \E k \in Key, p \in Value : NewRole(k, p)
  <2>1. PICK k \in Key, p \in Value : NewRole(k, p)
    BY <1>3
  <2>2. /\ IsFiniteSet(roles \cup {k}) /\ Cardinality(roles \cup {k}) = Cardinality(roles) + 1
        /\ Cardinality(roles) \in Nat
    BY <2>1, FS_AddElement, FS_CardinalityType DEF NewRole, PowerInv, BagOK
  <2>3. IsFiniteSet(roles') /\ Cardinality(roles') <= MaxNum
    BY <2>1, <2>2, ShortRankListAssumption DEF NewRole
  <2>4. QED BY <2>1, <2>3, RankingKeeps DEF NewRole
<1>4. CASE \E k \in Key, p \in Value : ChangeRole(k, p)
  <2>1. PICK k \in Key, p \in Value : ChangeRole(k, p)
    BY <1>4
  <2>2. roles' = roles /\ roles' = roles \cup {k}
    BY <2>1 DEF ChangeRole
  <2>3. IsFiniteSet(roles') /\ Cardinality(roles') <= MaxNum
    BY <2>2 DEF PowerInv, BagOK
  <2>4. QED BY <2>1, <2>2, <2>3, RankingKeeps DEF ChangeRole
<1>5. CASE \E k \in Key, p \in Value : ChangeRoleUnranked(k, p)
  BY <1>5, UnrankedKeeps
<1>6. CASE \E k \in Key : delete_role(k)
  BY <1>6, DeleteRoleKeeps
<1>7. CASE \E k \in Key, p \in Value : RankStranger(k, p)
  BY <1>7, StrangerKeeps
<1>8. CASE UNCHANGED powerVars
  <2>1. /\ items' = items /\ keys_map' = keys_map /\ curr_num' = curr_num
        /\ UNCHANGED <<roles, power, to_load, loaded, told_powers, unranked, intruders>>
    BY <1>8 DEF powerVars
  <2>2. RankInv' /\ PowerTypeOK'
    BY <2>1 DEF PowerInv, PowerTypeOK, RankInv, TypeOK, MapLeadsToItems, BestFirst, Has
  <2>3. ValueOf' = ValueOf /\ TopPowers' = TopPowers
    BY <2>1 DEF ValueOf, Has, TopPowers
  <2>4. BagOK' /\ IntrudersOK' /\ StrangersKnown' /\ LoadedWhenDone' /\ TopIsTold'
    BY <2>1, <2>3 DEF PowerInv, BagOK, IntrudersOK, StrangersKnown, Has, LoadedWhenDone,
                      TopIsTold
  <2>5. Missing' = Missing
    BY <2>1, <2>3 DEF Missing
  <2>6. MissingAbsent' /\ MissingFew'
    BY <2>1, <2>5 DEF PowerInv, MissingAbsent, MissingFew, Has
  <2>7. QED BY <2>2, <2>4, <2>6 DEF PowerInv
<1>9. QED BY <1>1, <1>2, <1>3, <1>4, <1>5, <1>6, <1>7, <1>8 DEF PowerNext

\* player_role_power_rank.go: the invariant of the roles, the list and what is told.
THEOREM RolePowerInvariant == PowerSpec => []PowerInv
BY PowerInvInit, PowerInvStep, PTL DEF PowerSpec

\* A step of the roles is to the list an update, a deletion or nothing.
LEMMA RolesMoveList == PowerInv /\ [PowerNext]_powerVars => [Next]_listVars
<1> SUFFICES ASSUME PowerInv, [PowerNext]_powerVars
             PROVE  Next \/ UNCHANGED listVars
  OBVIOUS
<1>1. ASSUME NEW k \in Key, LoadRole(k) PROVE Next \/ UNCHANGED listVars
  <2>1. power[k] \in Value
    BY DEF PowerInv, PowerTypeOK
  <2> QED  BY <1>1, <2>1 DEF LoadRole, Next
<1>2. ASSUME NEW k \in Key, NEW p \in Value,
             \/ NewRole(k, p) \/ ChangeRole(k, p) \/ ChangeRoleUnranked(k, p)
             \/ RankStranger(k, p)
      PROVE  Next \/ UNCHANGED listVars
  BY <1>2 DEF NewRole, ChangeRole, ChangeRoleUnranked, RankStranger, UpdateRolePowerRank, Next
<1>3. ASSUME NEW k \in Key, delete_role(k) PROVE Next \/ UNCHANGED listVars
  BY <1>3 DEF delete_role, DeleteRolePowerRank, Next
<1>4. CASE LoadEnd \/ UNCHANGED powerVars
  BY <1>4 DEF LoadEnd, powerVars, listVars
<1> QED  BY <1>1, <1>2, <1>3, <1>4 DEF PowerNext

\* LoadRolesPowerRankData, UpdateRolePowerRank, DeleteRolePowerRank: whatever is done to the
\* roles of a player, role_power_ranklist behaves as a rank list does, and so implements
\* Ranking (RankListRanks).
THEOREM RolePowerUsesList == PowerSpec => Spec
<1>1. PowerInit => Init
  BY DEF PowerInit
<1> QED  BY <1>1, RolesMoveList, RolePowerInvariant, PTL DEF PowerSpec, Spec

\* player_role_power_rank.go: the list, the roles and what is told have their types.
THEOREM RolePowerTypes == PowerSpec => []PowerTypeOK
<1>1. PowerInv => PowerTypeOK
  BY DEF PowerInv
<1>2. QED BY <1>1, RolePowerInvariant, PTL

\* UpdateRolePowerRank, DeleteRolePowerRank: rank_list_mgr knows the first places as they
\* are, whichever role came to them or left them.
THEOREM RolePowerTold == PowerSpec => []TopIsTold
<1>1. PowerInv => TopIsTold
  BY DEF PowerInv
<1>2. QED BY <1>1, RolePowerInvariant, PTL

\* new_role, item_upgrade and the handlers that change a role: each role is ranked with the
\* power it has, but that every key item_upgrade has ranked without looking may keep one
\* role out of the list; and no other key is ranked that is no role.
THEOREM RolePowerRanked == PowerSpec => []RolesAreRanked
<1>1. PowerInv => RolesAreRanked
  BY DEF PowerInv, RolesAreRanked, StrangersKnown, MissingAbsent, MissingFew
<1>2. QED BY <1>1, RolePowerInvariant, PTL

(***************************************************************************)
(* The mails of a player. A set of naturals has a least one: of the sets   *)
(* of those up to x, one has no other among its subsets.                   *)
(***************************************************************************)

LEMMA LeastOfNaturals ==
  ASSUME NEW n \in Nat, NEW S \in SUBSET (0..n), S # {}
  PROVE  Min(S) \in S /\ \A x \in S : Min(S) <= x
<1> DEFINE upto(x) == {y \in S : y <= x}
           T == {upto(x) : x \in S}
           R == StrictSubsetOrdering(S)
<1>0. \A x \in S : x \in Int
  OBVIOUS
<1>1. IsFiniteSet(S)
  <2>1. IsFiniteSet(0..n) /\ S \in SUBSET (0..n)
    BY FS_Interval
  <2> QED  BY <2>1, FS_Subset
<1>2. IsWellFoundedOn(R, SUBSET S)
  <2>1. FiniteSubsetsOf(S) = SUBSET S
    BY <1>1, FS_FiniteSubsetsOfFinite
  <2>2. IsWellFoundedOn(R, FiniteSubsetsOf(S))
    BY FS_StrictSubsetOrderingWellFounded
  <2> QED  BY <2>1, <2>2
<1>3. T \subseteq SUBSET S /\ T # {}
  OBVIOUS
<1>4. \E U \in T : \A V \in T : ~ <<V, U>> \in R
  <2> HIDE DEF T, R
  <2> QED  BY <1>2, <1>3, WFMin
<1>5. PICK U \in T : \A V \in T : ~ <<V, U>> \in R
  BY <1>4
<1>6. PICK x \in S : U = upto(x)
  BY <1>5
<1>7. ASSUME NEW y \in S PROVE x <= y
  <2>1. SUFFICES ASSUME y < x PROVE FALSE
    BY <1>0
  <2>2. upto(y) \subseteq upto(x) /\ x \in upto(x) /\ x \notin upto(y)
    <3>1. x \in Int /\ y \in Int /\ x <= x /\ ~ x <= y
      BY <1>0, <2>1
    <3>2. ASSUME NEW z \in S, z <= y PROVE z <= x
      BY <1>0, <2>1, <3>2
    <3> QED  BY <3>1, <3>2
  <2>3. upto(y) \in T /\ upto(y) \in SUBSET S /\ upto(x) \in SUBSET S /\ upto(y) # upto(x)
    BY <2>2
  <2>4. <<upto(y), upto(x)>> \in R
    <3> HIDE DEF upto
    <3> QED  BY <2>2, <2>3 DEF StrictSubsetOrdering
  <2> QED  BY <1>5, <1>6, <2>3, <2>4
<1> QED  BY <1>7 DEF Min

(***************************************************************************)
(* The mails of a player. Who is where in RealSendMail, and with what.     *)
(***************************************************************************)

LEMMA SendingFields ==
  ASSUME sending \in [Sender -> Sending], NEW s \in Sender
  PROVE  /\ sending[s].pc \in {"idle", "cache"} \cup Locked
         /\ sending[s].mail \in 0..MaxMails /\ sending[s].mail \in Int
         /\ sending[s].left \in 0..MaxItems /\ sending[s].left \in Int
BY MailAssumption DEF Sending

LEMMA SenderMoves ==
  ASSUME sending \in [Sender -> Sending], NEW s \in Sender,
         NEW place \in {"idle", "cache"} \cup Locked, NEW m \in 0..MaxMails, NEW n \in 0..MaxItems,
         \/ MovesWith(s, place, m, n)
         \/ m = sending[s].mail /\ n = sending[s].left /\ MovesTo(s, place)
  PROVE  /\ sending' \in [Sender -> Sending]
         /\ sending'[s].pc = place /\ sending'[s].mail = m /\ sending'[s].left = n
         /\ \A t \in Sender : t # s => sending'[t] = sending[t]
BY DEF Sending, MovesTo, MovesWith, SendOf

\* No mail added yet, and added.
Before == {"count", "evict", "remove", "add"}
After == {"look", "attach", "unlock", "cache"}

SenderOK(s) ==
  /\ sending[s].pc \in Locked => receive_mail_locker = s
  /\ sending[s].pc \in Before => mail_id < MaxMails
  /\ sending[s].pc \in After => sending[s].mail \in (1..mail_id) \ new_mail_ids
  /\ sending[s].pc = "attach" => sending[s].left > 0
  /\ sending[s].pc \in {"look", "attach"} /\ sending[s].mail \in mails =>
       attached[sending[s].mail] + sending[s].left = meant[sending[s].mail]
  /\ sending[s].pc \in {"unlock", "cache"} /\ sending[s].mail \in mails =>
       attached[sending[s].mail] = meant[sending[s].mail]

Apart ==
  \A s, t \in Sender :
    s # t /\ sending[s].pc \in After /\ sending[t].pc \in After => sending[s].mail # sending[t].mail

\* The mails that have been told of or not, and their items, are mails added.
BoxOK ==
  /\ new_mail_ids \subseteq 1..mail_id /\ unheard \subseteq 1..mail_id
  /\ \A m \in MailId : m > mail_id => attached[m] = 0
  /\ NewMailIsWhole

MailInv == MailTypeOK /\ BoxOK /\ Apart /\ \A s \in Sender : SenderOK(s)

LEMMA MailInvInit == MailInit => MailInv
<1> SUFFICES ASSUME MailInit PROVE MailInv
  OBVIOUS
<1> USE MailAssumption
<1>1. sending \in [Sender -> Sending] /\ \A s \in Sender : sending[s].pc = "idle"
  <2> DEFINE idle == SendOf("idle", 0, 0)
  <2>0. 0 \in 0..MaxMails /\ 0 \in 0..MaxItems
    OBVIOUS
  <2>1. idle \in Sending /\ idle.pc = "idle"
    BY <2>0 DEF Sending, SendOf
  <2>2. sending = [s \in Sender |-> idle]
    BY DEF MailInit
  <2> HIDE DEF idle
  <2> QED  BY <2>1, <2>2
<1>2. MailTypeOK
  <2>1. /\ attached \in [MailId -> 0..MaxItems] /\ meant \in [MailId -> 0..MaxItems]
    <3>1. 0 \in 0..MaxItems
      OBVIOUS
    <3> QED  BY <3>1 DEF MailInit
  <2>2. /\ mails \subseteq 1..mail_id /\ mail_id \in 0..MaxMails
        /\ new_mail_ids \subseteq MailId /\ listing \subseteq Reader /\ unheard \subseteq MailId
        /\ receive_mail_locker \in Sender \cup {NoSender}
    BY DEF MailInit
  <2> QED  BY <1>1, <2>1, <2>2 DEF MailTypeOK
<1>3. BoxOK
  BY DEF MailInit, BoxOK, NewMailIsWhole
<1>4. Apart /\ \A s \in Sender : SenderOK(s)
  <2>1. "idle" \notin After /\ "idle" \notin Before /\ "idle" \notin Locked
    BY DEF After, Before, Locked
  <2> QED  BY <1>1, <2>1 DEF Apart, SenderOK
<1> QED  BY <1>2, <1>3, <1>4 DEF MailInv

\* A sender who has not got the lock stays as he is while the one who has makes a step.
LEMMA OthersOutside ==
  ASSUME MailInv, NEW s \in Sender, receive_mail_locker \in {s, NoSender},
         NEW t \in Sender, t # s
  PROVE  sending[t].pc \in {"idle", "cache"}
BY SendingFields, MailAssumption DEF MailInv, SenderOK, MailTypeOK

\* Steps that only move the sender, which may take or give back the lock.
LEMMA MoveKeeps ==
  ASSUME MailInv, NEW s \in Sender,
         UNCHANGED <<mails, attached, mail_id, new_mail_ids, meant, unheard, listing>>,
         receive_mail_locker \in {s, NoSender},
         receive_mail_locker' \in {s, NoSender},
         sending' \in [Sender -> Sending],
         \A t \in Sender : t # s => sending'[t] = sending[t],
         SenderOK(s)',
         sending'[s].pc \in After => sending[s].pc \in After /\ sending'[s].mail = sending[s].mail
  PROVE  MailInv'
<1>1. MailTypeOK'
  BY DEF MailInv, MailTypeOK
<1>2. BoxOK'
  BY DEF MailInv, BoxOK, NewMailIsWhole
<1>3. Apart'
  BY DEF MailInv, Apart
<1>4. ASSUME NEW t \in Sender, t # s PROVE SenderOK(t)'
  <2>1. sending'[t] = sending[t] /\ sending[t].pc \in {"idle", "cache"} /\ SenderOK(t)
    BY <1>4, OthersOutside DEF MailInv
  <2> QED  BY <2>1 DEF SenderOK, Locked, Before
<1> QED  BY <1>1, <1>2, <1>3, <1>4 DEF MailInv

LEMMA LockKeeps ==
  ASSUME MailInv, NEW s \in Sender, NEW n \in 0..MaxItems, Lock(s, n), UNCHANGED listing
  PROVE  MailInv'
<1>0. 0 \in 0..MaxMails /\ sending \in [Sender -> Sending]
  BY MailAssumption DEF MailInv, MailTypeOK
<1>1. /\ sending' \in [Sender -> Sending] /\ sending'[s].pc = "count"
      /\ \A t \in Sender : t # s => sending'[t] = sending[t]
  BY <1>0, SenderMoves DEF Lock, Locked
<1>2. SenderOK(s)'
  BY <1>1 DEF Lock, SenderOK, After
<1> QED  BY <1>1, <1>2, MoveKeeps DEF Lock, After

LEMMA CountKeeps ==
  ASSUME MailInv, NEW s \in Sender, CountMails(s), UNCHANGED listing
  PROVE  MailInv'
<1>0. /\ sending \in [Sender -> Sending] /\ SenderOK(s) /\ sending[s].pc = "count"
      /\ sending[s].mail \in 0..MaxMails /\ sending[s].left \in 0..MaxItems
  BY SendingFields DEF MailInv, MailTypeOK, CountMails
<1>1. \E place \in {"evict", "add"} :
        /\ sending' \in [Sender -> Sending] /\ sending'[s].pc = place
        /\ \A t \in Sender : t # s => sending'[t] = sending[t]
  <2> DEFINE place == IF Cardinality(mails) >= MailMaxCount THEN "evict" ELSE "add"
  <2>1. place \in {"evict", "add"} /\ MovesTo(s, place)
    BY DEF CountMails
  <2> HIDE DEF place
  <2> QED  BY <1>0, <2>1, SenderMoves DEF Locked
<1>2. SenderOK(s)' /\ receive_mail_locker = s
  BY <1>0, <1>1 DEF CountMails, SenderOK, Before, After, Locked
<1> QED  BY <1>1, <1>2, MoveKeeps DEF CountMails, After

\* Where FindOldest goes.
LEMMA FindOldestMoves ==
  ASSUME MailTypeOK, NEW s \in Sender, FindOldest(s)
  PROVE  /\ sending' \in [Sender -> Sending]
         /\ \/ mails = {} /\ sending'[s].pc = "add"
            \/ /\ sending'[s].pc = "remove" /\ sending'[s].mail \in mails
               /\ \A m \in mails : sending'[s].mail <= m
         /\ \A t \in Sender : t # s => sending'[t] = sending[t]
<1>0. /\ sending \in [Sender -> Sending]
      /\ sending[s].mail \in 0..MaxMails /\ sending[s].left \in 0..MaxItems
  BY SendingFields DEF MailTypeOK
<1>1. CASE mails = {}
  BY <1>0, <1>1, SenderMoves DEF FindOldest, Locked
<1>2. CASE mails # {}
  <2>1. mails \in SUBSET (0..MaxMails)
    BY MailAssumption DEF MailTypeOK
  <2>2. Min(mails) \in mails /\ \A m \in mails : Min(mails) <= m
    BY <1>2, <2>1, LeastOfNaturals, MailAssumption
  <2>3. MovesWith(s, "remove", Min(mails), sending[s].left) /\ Min(mails) \in 0..MaxMails
    BY <1>2, <2>1, <2>2 DEF FindOldest
  <2> DEFINE m == Min(mails)
  <2> HIDE DEF m
  <2>4. /\ sending' \in [Sender -> Sending] /\ sending'[s].pc = "remove" /\ sending'[s].mail = m
        /\ \A t \in Sender : t # s => sending'[t] = sending[t]
    BY <1>0, <2>3, SenderMoves DEF Locked, m
  <2> QED  BY <2>2, <2>4 DEF m
<1> QED  BY <1>1, <1>2

LEMMA FindKeeps ==
  ASSUME MailInv, NEW s \in Sender, FindOldest(s), UNCHANGED listing
  PROVE  MailInv'
<1>0. SenderOK(s) /\ sending[s].pc = "evict"
  BY DEF MailInv, FindOldest
<1>1. /\ sending' \in [Sender -> Sending] /\ sending'[s].pc \in {"add", "remove"}
      /\ \A t \in Sender : t # s => sending'[t] = sending[t]
  BY FindOldestMoves DEF MailInv
<1>2. SenderOK(s)' /\ receive_mail_locker = s
  BY <1>0, <1>1 DEF FindOldest, SenderOK, Before, After, Locked
<1> QED  BY <1>1, <1>2, MoveKeeps DEF FindOldest, After

LEMMA RemoveKeeps ==
  ASSUME MailInv, NEW s \in Sender, RemoveOldest(s), UNCHANGED listing
  PROVE  MailInv'
<1>0. /\ sending \in [Sender -> Sending] /\ SenderOK(s) /\ sending[s].pc = "remove"
      /\ sending[s].mail \in 0..MaxMails /\ sending[s].left \in 0..MaxItems
  BY SendingFields DEF MailInv, MailTypeOK, RemoveOldest
<1>1. /\ sending' \in [Sender -> Sending] /\ sending'[s].pc = "add"
      /\ \A t \in Sender : t # s => sending'[t] = sending[t]
  BY <1>0, SenderMoves DEF RemoveOldest, Locked
<1>2. mails' \subseteq mails
  BY DEF RemoveOldest
<1>3. MailTypeOK'
  BY <1>1, <1>2 DEF MailInv, MailTypeOK, RemoveOldest
<1>4. BoxOK'
  BY <1>2 DEF MailInv, BoxOK, NewMailIsWhole, RemoveOldest
<1>5. Apart'
  BY <1>1 DEF MailInv, Apart, After
<1>6. SenderOK(s)'
  BY <1>0, <1>1 DEF RemoveOldest, SenderOK, Before, After, Locked
<1>7. ASSUME NEW t \in Sender, t # s PROVE SenderOK(t)'
  BY <1>1, <1>2, <1>7 DEF MailInv, SenderOK, RemoveOldest
<1> QED  BY <1>3, <1>4, <1>5, <1>6, <1>7 DEF MailInv

LEMMA AddKeeps ==
  ASSUME MailInv, NEW s \in Sender, AddMail(s), UNCHANGED listing
  PROVE  MailInv'
<1> USE MailAssumption
<1>0. /\ sending \in [Sender -> Sending] /\ SenderOK(s) /\ sending[s].pc = "add"
      /\ sending[s].left \in 0..MaxItems /\ sending[s].left \in Int
      /\ mail_id \in 0..MaxMails /\ mail_id < MaxMails
  BY SendingFields DEF MailInv, MailTypeOK, AddMail, SenderOK, Before
<1>1. mail_id' = mail_id + 1 /\ mail_id' \in 0..MaxMails /\ mail_id' \in MailId
  BY <1>0 DEF AddMail, MailId
<1>2. /\ sending' \in [Sender -> Sending]
      /\ sending'[s].pc = "look" /\ sending'[s].mail = mail_id' /\ sending'[s].left = sending[s].left
      /\ \A t \in Sender : t # s => sending'[t] = sending[t]
  <2>1. MovesWith(s, "look", mail_id', sending[s].left)
    BY DEF AddMail
  <2> DEFINE m == mail_id'
  <2>2. m \in 0..MaxMails
    BY <1>1
  <2> HIDE DEF m
  <2>3. MovesWith(s, "look", m, sending[s].left)
    BY <2>1 DEF m
  <2>4. /\ sending' \in [Sender -> Sending]
        /\ sending'[s].pc = "look" /\ sending'[s].mail = m /\ sending'[s].left = sending[s].left
        /\ \A t \in Sender : t # s => sending'[t] = sending[t]
    BY <1>0, <2>2, <2>3, SenderMoves DEF Locked
  <2> QED  BY <2>4 DEF m
<1>3. /\ mails' = mails \cup {mail_id'} /\ mails \subseteq 1..mail_id
      /\ attached' = attached /\ receive_mail_locker' = receive_mail_locker
      /\ new_mail_ids' = new_mail_ids /\ unheard' = unheard
      /\ meant' \in [MailId -> 0..MaxItems] /\ meant'[mail_id'] = sending[s].left
      /\ \A m \in 1..mail_id : meant'[m] = meant[m]
  BY <1>0, <1>1 DEF AddMail, MailInv, MailTypeOK, MailId
<1>4. MailTypeOK'
  BY <1>1, <1>2, <1>3 DEF MailInv, MailTypeOK
<1>5. BoxOK'
  BY <1>0, <1>1, <1>3 DEF MailInv, BoxOK, NewMailIsWhole
<1>6. Apart'
  BY <1>0, <1>1, <1>2 DEF MailInv, Apart, SenderOK
<1>7. SenderOK(s)'
  <2>1. receive_mail_locker = s /\ attached[mail_id'] = 0 /\ mail_id' \notin new_mail_ids
    BY <1>0, <1>1 DEF SenderOK, Locked, MailInv, BoxOK
  <2> QED  BY <1>0, <1>1, <1>2, <1>3, <2>1 DEF SenderOK, Before, After, Locked
<1>8. ASSUME NEW t \in Sender, t # s PROVE SenderOK(t)'
  <2>1. sending'[t] = sending[t] /\ sending[t].pc \in {"idle", "cache"} /\ SenderOK(t)
    BY <1>0, <1>2, <1>8, OthersOutside DEF MailInv, SenderOK, Locked
  <2> QED  BY <1>0, <1>1, <1>3, <2>1 DEF SenderOK, Locked, Before, After
<1> QED  BY <1>4, <1>5, <1>6, <1>7, <1>8 DEF MailInv

LEMMA LookKeeps ==
  ASSUME MailInv, NEW s \in Sender, LookForMail(s), UNCHANGED listing
  PROVE  MailInv'
<1>0. /\ sending \in [Sender -> Sending] /\ SenderOK(s) /\ sending[s].pc = "look"
      /\ sending[s].mail \in 0..MaxMails /\ sending[s].left \in 0..MaxItems /\ sending[s].left \in Int
      /\ attached \in [MailId -> 0..MaxItems]
  BY SendingFields DEF MailInv, MailTypeOK, LookForMail
<1>1. /\ sending' \in [Sender -> Sending]
      /\ \/ sending[s].left = 0 /\ sending'[s].pc = "unlock"
         \/ sending[s].left > 0 /\ sending'[s].pc = "attach"
      /\ sending'[s].mail = sending[s].mail /\ sending'[s].left = sending[s].left
      /\ \A t \in Sender : t # s => sending'[t] = sending[t]
  <2>1. CASE sending[s].left = 0
    BY <1>0, <2>1, SenderMoves DEF LookForMail, Locked
  <2>2. CASE sending[s].left > 0
    BY <1>0, <2>2, SenderMoves DEF LookForMail, Locked
  <2> QED  BY <1>0, <2>1, <2>2
<1>2. receive_mail_locker = s /\ sending[s].mail \in MailId
  BY <1>0, MailAssumption DEF SenderOK, Locked, After, MailId, MailInv, MailTypeOK
<1>3. SenderOK(s)'
  BY <1>0, <1>1, <1>2 DEF LookForMail, SenderOK, Before, After, Locked
<1> QED  BY <1>0, <1>1, <1>2, <1>3, MoveKeeps DEF LookForMail, After

LEMMA GiveUpKeeps ==
  ASSUME MailInv, NEW s \in Sender, GiveUp(s), UNCHANGED listing
  PROVE  MailInv'
<1>0. /\ sending \in [Sender -> Sending] /\ SenderOK(s) /\ sending[s].pc = "look"
      /\ sending[s].mail \in 0..MaxMails /\ sending[s].left \in 0..MaxItems
  BY SendingFields DEF MailInv, MailTypeOK, GiveUp
<1>1. /\ sending' \in [Sender -> Sending] /\ sending'[s].pc = "idle"
      /\ \A t \in Sender : t # s => sending'[t] = sending[t]
  BY <1>0, SenderMoves DEF GiveUp, Locked
<1>2. SenderOK(s)' /\ receive_mail_locker = s
  BY <1>0, <1>1 DEF GiveUp, SenderOK, Before, After, Locked
<1> QED  BY <1>1, <1>2, MoveKeeps DEF GiveUp, After

LEMMA AttachKeeps ==
  ASSUME MailInv, NEW s \in Sender, Attach(s), UNCHANGED listing
  PROVE  MailInv'
<1> USE MailAssumption
<1>0. /\ sending \in [Sender -> Sending] /\ SenderOK(s) /\ sending[s].pc = "attach"
      /\ sending[s].mail \in 0..MaxMails /\ sending[s].left \in Int /\ sending[s].left > 0
      /\ sending[s].left - 1 \in 0..MaxItems
      /\ attached \in [MailId -> 0..MaxItems] /\ meant \in [MailId -> 0..MaxItems]
  BY SendingFields DEF MailInv, MailTypeOK, Attach, SenderOK
<1>1. /\ sending' \in [Sender -> Sending]
      /\ sending'[s].pc = "look" /\ sending'[s].mail = sending[s].mail
      /\ sending'[s].left = sending[s].left - 1
      /\ \A t \in Sender : t # s => sending'[t] = sending[t]
  BY <1>0, SenderMoves DEF Attach, Locked
<1>2. /\ receive_mail_locker = s /\ sending[s].mail \in MailId
      /\ sending[s].mail \in 1..mail_id /\ sending[s].mail \notin new_mail_ids
      /\ sending[s].mail \in mails => attached[sending[s].mail] + sending[s].left = meant[sending[s].mail]
  BY <1>0 DEF SenderOK, Locked, After, MailId, MailInv, MailTypeOK
<1>3. /\ attached' \in [MailId -> 0..MaxItems]
      /\ sending[s].mail \in mails => attached'[sending[s].mail] = attached[sending[s].mail] + 1
      /\ \A m \in MailId : m # sending[s].mail => attached'[m] = attached[m]
  <2>1. CASE sending[s].mail \in mails
    <3>1. attached[sending[s].mail] + 1 \in 0..MaxItems
      BY <1>0, <1>2, <2>1
    <3>2. attached' = [attached EXCEPT ![sending[s].mail] = attached[sending[s].mail] + 1]
      BY <2>1 DEF Attach
    <3> QED  BY <1>0, <1>2, <3>1, <3>2
  <2>2. CASE sending[s].mail \notin mails
    <3>1. attached' = [attached EXCEPT ![sending[s].mail] = attached[sending[s].mail]]
      BY <2>2 DEF Attach
    <3> QED  BY <1>0, <1>2, <2>2, <3>1
  <2> QED  BY <2>1, <2>2
<1>4. MailTypeOK'
  BY <1>1, <1>3 DEF Attach, MailInv, MailTypeOK
<1>5. BoxOK'
  BY <1>2, <1>3 DEF Attach, MailInv, BoxOK, NewMailIsWhole, MailTypeOK, MailId
<1>6. Apart'
  BY <1>0, <1>1 DEF MailInv, Apart, After
<1>7. SenderOK(s)'
  BY <1>0, <1>1, <1>2, <1>3 DEF Attach, SenderOK, Before, After, Locked
<1>8. ASSUME NEW t \in Sender, t # s PROVE SenderOK(t)'
  <2>1. sending'[t] = sending[t] /\ sending[t].pc \in {"idle", "cache"} /\ SenderOK(t)
    BY <1>1, <1>2, <1>8, OthersOutside DEF MailInv
  <2>2. sending[t].pc = "cache" => sending[t].mail # sending[s].mail /\ sending[t].mail \in MailId
    BY <1>0, <1>8, <2>1 DEF MailInv, Apart, SenderOK, After, MailTypeOK, MailId
  <2> QED  BY <1>3, <2>1, <2>2 DEF Attach, SenderOK, Locked, Before, After
<1> QED  BY <1>4, <1>5, <1>6, <1>7, <1>8 DEF MailInv

LEMMA UnlockKeeps ==
  ASSUME MailInv, NEW s \in Sender, Unlock(s), UNCHANGED listing
  PROVE  MailInv'
<1>0. /\ sending \in [Sender -> Sending] /\ SenderOK(s) /\ sending[s].pc = "unlock"
      /\ sending[s].mail \in 0..MaxMails /\ sending[s].left \in 0..MaxItems
  BY SendingFields DEF MailInv, MailTypeOK, Unlock
<1>1. /\ sending' \in [Sender -> Sending] /\ sending'[s].pc = "cache"
      /\ sending'[s].mail = sending[s].mail
      /\ \A t \in Sender : t # s => sending'[t] = sending[t]
  BY <1>0, SenderMoves DEF Unlock
<1>2. SenderOK(s)' /\ receive_mail_locker = s
  BY <1>0, <1>1 DEF Unlock, SenderOK, Before, After, Locked
<1> QED  BY <1>0, <1>1, <1>2, MoveKeeps DEF Unlock, After

LEMMA CacheKeeps ==
  ASSUME MailInv, NEW s \in Sender, cache_new_mail(s), UNCHANGED listing
  PROVE  MailInv'
<1> USE MailAssumption
<1>0. /\ sending \in [Sender -> Sending] /\ SenderOK(s) /\ sending[s].pc = "cache"
      /\ sending[s].mail \in 0..MaxMails /\ sending[s].left \in 0..MaxItems
  BY SendingFields DEF MailInv, MailTypeOK, cache_new_mail
<1>1. /\ sending' \in [Sender -> Sending] /\ sending'[s].pc = "idle"
      /\ \A t \in Sender : t # s => sending'[t] = sending[t]
  BY <1>0, SenderMoves DEF cache_new_mail
<1>2. /\ sending[s].mail \in 1..mail_id /\ sending[s].mail \in MailId
      /\ sending[s].mail \in mails => attached[sending[s].mail] = meant[sending[s].mail]
  BY <1>0 DEF SenderOK, After, MailId, MailInv, MailTypeOK
<1>3. MailTypeOK'
  BY <1>1, <1>2 DEF cache_new_mail, MailInv, MailTypeOK
<1>4. BoxOK'
  BY <1>2 DEF cache_new_mail, MailInv, BoxOK, NewMailIsWhole
<1>5. Apart'
  BY <1>1 DEF MailInv, Apart, After
<1>6. SenderOK(s)'
  BY <1>1 DEF SenderOK, Before, After, Locked
<1>7. ASSUME NEW t \in Sender, t # s PROVE SenderOK(t)'
  <2>1. sending[t].pc \in After => sending[t].mail # sending[s].mail
    BY <1>0, <1>7 DEF MailInv, Apart, After
  <2> QED  BY <1>1, <1>7, <2>1 DEF cache_new_mail, MailInv, SenderOK
<1> QED  BY <1>3, <1>4, <1>5, <1>6, <1>7 DEF MailInv

\* The player's handlers only take mails away, and clear the new ones.
LEMMA ReadTakesAway ==
  ASSUME MailInv, NEW r \in Reader, ReadStep(r)
  PROVE  /\ mails' \subseteq mails /\ new_mail_ids' \subseteq new_mail_ids /\ unheard' \subseteq unheard
         /\ listing' \subseteq Reader
<1>1. CASE ClearNew(r)
  BY <1>1 DEF ClearNew, MailInv, MailTypeOK
<1>2. CASE CheckNewMail(r)
  BY <1>2 DEF CheckNewMail, MailInv, MailTypeOK
<1>3. ASSUME NEW over \in SUBSET mails, ShowMails(r, over)
      PROVE  /\ mails' \subseteq mails /\ new_mail_ids' \subseteq new_mail_ids /\ unheard' \subseteq unheard
             /\ listing' \subseteq Reader
  BY <1>3 DEF ShowMails, MailInv, MailTypeOK
<1>4. ASSUME NEW m \in mails, DeleteMail(r, m)
      PROVE  /\ mails' \subseteq mails /\ new_mail_ids' \subseteq new_mail_ids /\ unheard' \subseteq unheard
             /\ listing' \subseteq Reader
  BY <1>4 DEF DeleteMail, MailInv, MailTypeOK
<1> QED  BY <1>1, <1>2, <1>3, <1>4 DEF ReadStep

LEMMA ReadKeeps ==
  ASSUME MailInv, NEW r \in Reader, ReadStep(r)
  PROVE  MailInv'
<1>1. /\ mails' \subseteq mails /\ new_mail_ids' \subseteq new_mail_ids /\ unheard' \subseteq unheard
      /\ listing' \subseteq Reader
      /\ UNCHANGED <<attached, mail_id, receive_mail_locker, sending, meant>>
  BY ReadTakesAway DEF ReadStep
<1>2. MailTypeOK'
  BY <1>1 DEF MailInv, MailTypeOK
<1>3. BoxOK'
  BY <1>1 DEF MailInv, BoxOK, NewMailIsWhole
<1>4. Apart' /\ \A s \in Sender : SenderOK(s)'
  BY <1>1 DEF MailInv, Apart, SenderOK
<1> QED  BY <1>2, <1>3, <1>4 DEF MailInv

LEMMA MailInvKept == MailInv /\ [MailNext]_mailVars => MailInv'
<1> SUFFICES ASSUME MailInv, [MailNext]_mailVars PROVE MailInv'
  OBVIOUS
<1>1. ASSUME NEW s \in Sender, SendStep(s) PROVE MailInv'
  BY <1>1, LockKeeps, CountKeeps, FindKeeps, RemoveKeeps, AddKeeps, LookKeeps, GiveUpKeeps,
     AttachKeeps, UnlockKeeps, CacheKeeps DEF SendStep
<1>2. CASE UNCHANGED mailVars
  BY <1>2 DEF mailVars, MailInv, MailTypeOK, BoxOK, NewMailIsWhole, Apart, SenderOK
<1> QED  BY <1>1, <1>2, ReadKeeps DEF MailNext

\* In every state of a player's box: who holds receive_mail_locker, whose mail is whose and
\* what is still missing in it (RealSendMail).
THEOREM MailInvariant == MailSpec => []MailInv
BY MailInvInit, MailInvKept, PTL DEF MailSpec

\* A player's box is always of its types (player_mail.go).
THEOREM MailTypeCorrect == MailSpec => []MailTypeOK
<1>1. MailInv => MailTypeOK
  BY DEF MailInv
<1> QED  BY <1>1, MailInvariant, PTL

\* A mail the client is going to be notified of has all its items, for any senders, readers,
\* items and mails (RealSendMail, attach_mail_item).
THEOREM NewMailIsWholeAlways == MailSpec => []NewMailIsWhole
<1>1. MailInv => NewMailIsWhole
  BY DEF MailInv, BoxOK
<1> QED  BY <1>1, MailInvariant, PTL

(***************************************************************************)
(* The mails of a player. Room for the mail that is going to be added.     *)
(***************************************************************************)

RoomFor(s) ==
  /\ sending[s].pc = "remove" => /\ sending[s].mail \in mails \/ Cardinality(mails) < MailMaxCount
                                 /\ \A m \in mails : sending[s].mail <= m
  /\ sending[s].pc = "add" => Cardinality(mails) < MailMaxCount

RoomInv == MailsWithinLimit /\ \A s \in Sender : RoomFor(s)

LEMMA MailsFinite ==
  ASSUME MailInv
  PROVE  IsFiniteSet(mails) /\ Cardinality(mails) \in Nat /\ Cardinality(mails) \in Int
<1>1. mail_id \in Int /\ mails \in SUBSET (1..mail_id)
  BY MailAssumption DEF MailInv, MailTypeOK
<1>2. IsFiniteSet(1..mail_id)
  BY <1>1, FS_Interval
<1>3. IsFiniteSet(mails)
  BY <1>1, <1>2, FS_Subset
<1> QED  BY <1>3, FS_CardinalityType

\* Who takes a mail away takes no room.
LEMMA FewerKeepsRoom ==
  ASSUME MailInv, RoomInv, mails' \subseteq mails, sending' = sending
  PROVE  RoomInv'
<1>1. /\ IsFiniteSet(mails') /\ Cardinality(mails') <= Cardinality(mails)
      /\ Cardinality(mails) = Cardinality(mails') => mails' = mails
  BY MailsFinite, FS_Subset
<1>2. Cardinality(mails) \in Int /\ Cardinality(mails') \in Int /\ MailMaxCount \in Int
  BY <1>1, MailsFinite, FS_CardinalityType, MailAssumption
<1>3. MailsWithinLimit'
  BY <1>1, <1>2 DEF RoomInv, MailsWithinLimit
<1>4. ASSUME NEW s \in Sender PROVE RoomFor(s)'
  BY <1>1, <1>2 DEF RoomInv, RoomFor, MailsWithinLimit
<1> QED  BY <1>3, <1>4 DEF RoomInv

\* A step that leaves the mails alone and does not get where there must be room.
LEMMA OnlyMoveKeepsRoom ==
  ASSUME RoomInv, NEW s \in Sender, mails' = mails, RoomFor(s)',
         \A t \in Sender : t # s => sending'[t] = sending[t]
  PROVE  RoomInv'
BY DEF RoomInv, RoomFor, MailsWithinLimit

LEMMA SendKeepsRoom ==
  ASSUME MailInv, RoomInv, NEW s \in Sender, SendStep(s)
  PROVE  RoomInv'
<1> USE MailAssumption
<1>0. /\ sending \in [Sender -> Sending] /\ SenderOK(s) /\ RoomFor(s)
      /\ sending[s].mail \in 0..MaxMails /\ sending[s].left \in 0..MaxItems
      /\ 0 \in 0..MaxMails /\ Cardinality(mails) \in Int /\ MailMaxCount \in Int /\ IsFiniteSet(mails)
  BY SendingFields, MailsFinite DEF MailInv, MailTypeOK, RoomInv
<1>1. ASSUME NEW n \in 0..MaxItems, Lock(s, n) PROVE RoomInv'
  <2>1. sending'[s].pc = "count" /\ \A t \in Sender : t # s => sending'[t] = sending[t]
    BY <1>0, <1>1, SenderMoves DEF Lock, Locked
  <2> QED  BY <1>1, <2>1, OnlyMoveKeepsRoom DEF RoomFor, Lock
<1>2. CASE CountMails(s)
  <2>1. CASE Cardinality(mails) >= MailMaxCount
    <3>1. sending'[s].pc = "evict" /\ \A t \in Sender : t # s => sending'[t] = sending[t]
      BY <1>0, <1>2, <2>1, SenderMoves DEF CountMails, Locked
    <3> QED  BY <1>2, <3>1, OnlyMoveKeepsRoom DEF RoomFor, CountMails
  <2>2. CASE Cardinality(mails) < MailMaxCount
    <3>1. sending'[s].pc = "add" /\ \A t \in Sender : t # s => sending'[t] = sending[t]
      BY <1>0, <1>2, <2>2, SenderMoves DEF CountMails, Locked
    <3> QED  BY <1>2, <2>2, <3>1, OnlyMoveKeepsRoom DEF RoomFor, CountMails
  <2> QED  BY <1>0, <2>1, <2>2
<1>3. CASE FindOldest(s)
  <2>1. mails' = mails /\ \A t \in Sender : t # s => sending'[t] = sending[t]
    BY <1>3, FindOldestMoves DEF FindOldest, MailInv
  <2>2. mails = {} => Cardinality(mails) < MailMaxCount
    BY FS_EmptySet
  <2>3. RoomFor(s)'
    BY <1>3, <2>1, <2>2, FindOldestMoves DEF RoomFor, MailInv
  <2> QED  BY <2>1, <2>3, OnlyMoveKeepsRoom
<1>4. CASE RemoveOldest(s)
  <2>1. /\ mails' = mails \ {sending[s].mail}
        /\ Cardinality(mails') = IF sending[s].mail \in mails THEN Cardinality(mails) - 1 ELSE Cardinality(mails)
    BY <1>0, <1>4, FS_RemoveElement DEF RemoveOldest
  <2>2. sending'[s].pc = "add" /\ \A t \in Sender : t # s => sending'[t] = sending[t]
    BY <1>0, <1>4, SenderMoves DEF RemoveOldest, Locked
  <2>3. Cardinality(mails') < MailMaxCount
    BY <1>0, <1>4, <2>1 DEF RemoveOldest, RoomFor, RoomInv, MailsWithinLimit
  <2>4. ASSUME NEW t \in Sender, t # s PROVE RoomFor(t)'
    <3>1. sending[t].pc \in {"idle", "cache"}
      BY <1>0, <1>4, <2>4, OthersOutside DEF RemoveOldest, SenderOK, Locked
    <3> QED  BY <2>2, <2>4, <3>1 DEF RoomFor
  <2>5. RoomFor(s)' /\ MailsWithinLimit'
    BY <1>0, <2>1, <2>2, <2>3 DEF RoomFor, MailsWithinLimit
  <2> QED  BY <2>4, <2>5 DEF RoomInv
<1>5. CASE AddMail(s)
  <2>1. Cardinality(mails) < MailMaxCount /\ sending[s].pc = "add" /\ receive_mail_locker = s
    BY <1>0, <1>5 DEF AddMail, RoomFor, SenderOK, Locked
  <2>2. /\ mails' = mails \cup {mail_id'}
        /\ Cardinality(mails') = IF mail_id' \in mails THEN Cardinality(mails) ELSE Cardinality(mails) + 1
    BY <1>0, <1>5, FS_AddElement DEF AddMail
  <2>3. MailsWithinLimit'
    BY <1>0, <2>1, <2>2 DEF MailsWithinLimit
  <2>4. sending'[s].pc = "look" /\ \A t \in Sender : t # s => sending'[t] = sending[t]
    <3>1. mail_id' \in 0..MaxMails
      BY <1>0, <2>1, <1>5 DEF AddMail, SenderOK, Before, MailInv, MailTypeOK
    <3> DEFINE m == mail_id'
    <3> HIDE DEF m
    <3>2. MovesWith(s, "look", m, sending[s].left) /\ m \in 0..MaxMails
      BY <1>5, <3>1 DEF AddMail, m
    <3> QED  BY <1>0, <3>2, SenderMoves DEF Locked
  <2>5. ASSUME NEW t \in Sender, t # s PROVE RoomFor(t)'
    <3>1. sending[t].pc \in {"idle", "cache"}
      BY <2>1, <2>5, OthersOutside
    <3> QED  BY <2>4, <2>5, <3>1 DEF RoomFor
  <2> QED  BY <2>3, <2>4, <2>5 DEF RoomInv, RoomFor
<1>6. CASE LookForMail(s)
  <2>1. sending'[s].pc \in {"unlock", "attach"} /\ \A t \in Sender : t # s => sending'[t] = sending[t]
    <3>1. CASE sending[s].left = 0
      BY <1>0, <1>6, <3>1, SenderMoves DEF LookForMail, Locked
    <3>2. CASE sending[s].left # 0
      BY <1>0, <1>6, <3>2, SenderMoves DEF LookForMail, Locked
    <3> QED  BY <3>1, <3>2
  <2> QED  BY <1>6, <2>1, OnlyMoveKeepsRoom DEF RoomFor, LookForMail
<1>7. CASE GiveUp(s)
  <2>1. sending'[s].pc = "idle" /\ \A t \in Sender : t # s => sending'[t] = sending[t]
    BY <1>0, <1>7, SenderMoves DEF GiveUp
  <2> QED  BY <1>7, <2>1, OnlyMoveKeepsRoom DEF RoomFor, GiveUp
<1>8. CASE Attach(s)
  <2>0. sending[s].left - 1 \in 0..MaxItems
    BY <1>0, <1>8 DEF Attach, SenderOK
  <2>1. sending'[s].pc = "look" /\ \A t \in Sender : t # s => sending'[t] = sending[t]
    BY <1>0, <1>8, <2>0, SenderMoves DEF Attach, Locked
  <2> QED  BY <1>8, <2>1, OnlyMoveKeepsRoom DEF RoomFor, Attach
<1>9. CASE Unlock(s)
  <2>1. sending'[s].pc = "cache" /\ \A t \in Sender : t # s => sending'[t] = sending[t]
    BY <1>0, <1>9, SenderMoves DEF Unlock
  <2> QED  BY <1>9, <2>1, OnlyMoveKeepsRoom DEF RoomFor, Unlock
<1>10. CASE cache_new_mail(s)
  <2>1. sending'[s].pc = "idle" /\ \A t \in Sender : t # s => sending'[t] = sending[t]
    BY <1>0, <1>10, SenderMoves DEF cache_new_mail
  <2> QED  BY <1>10, <2>1, OnlyMoveKeepsRoom DEF RoomFor, cache_new_mail
<1> QED
  BY <1>1, <1>2, <1>3, <1>4, <1>5, <1>6, <1>7, <1>8, <1>9, <1>10 DEF SendStep

LEMMA RoomInvKept == MailInv /\ RoomInv /\ [MailNext]_mailVars => RoomInv'
<1> SUFFICES ASSUME MailInv, RoomInv, [MailNext]_mailVars PROVE RoomInv'
  OBVIOUS
<1>1. ASSUME NEW r \in Reader, ReadStep(r) PROVE RoomInv'
  BY <1>1, ReadTakesAway, FewerKeepsRoom DEF ReadStep
<1>2. CASE UNCHANGED mailVars
  BY <1>2, FewerKeepsRoom DEF mailVars
<1> QED  BY <1>1, <1>2, SendKeepsRoom DEF MailNext

LEMMA RoomInvInit == MailInit => RoomInv
<1> SUFFICES ASSUME MailInit PROVE RoomInv
  OBVIOUS
<1>1. MailsWithinLimit
  BY FS_EmptySet, MailAssumption DEF MailInit, MailsWithinLimit
<1>2. \A s \in Sender : sending[s].pc = "idle"
  BY DEF MailInit, SendOf
<1> QED  BY <1>1, <1>2 DEF RoomInv, RoomFor

LEMMA RoomInvHolds == MailSpec => []RoomInv
BY MailInvariant, RoomInvInit, RoomInvKept, PTL DEF MailSpec

\* A player never has more than MailMaxCount mails, however many senders there are and
\* whatever he deletes meanwhile (new_mail).
THEOREM MailsWithinLimitAlways == MailSpec => []MailsWithinLimit
<1>1. RoomInv => MailsWithinLimit
  BY DEF RoomInv
<1> QED  BY <1>1, RoomInvHolds, PTL

\* A sender makes room by the oldest mail only: the id it has found is still no greater
\* than any other when it is removed, as no one adds while the lock is held (new_mail).
THEOREM OldestMakesRoomAlways == MailSpec => OldestMakesRoom
<1> DEFINE Oldest == \A m \in mails : m \notin mails' /\ sending' # sending => \A n \in mails : m <= n
<1>1. RoomInv /\ [MailNext]_mailVars => Oldest
  <2> SUFFICES ASSUME RoomInv, [MailNext]_mailVars PROVE Oldest
    OBVIOUS
  <2>1. ASSUME NEW s \in Sender, RemoveOldest(s) PROVE Oldest
    BY <2>1 DEF RemoveOldest, RoomInv, RoomFor
  <2>2. ASSUME NEW s \in Sender, SendStep(s), ~ RemoveOldest(s) PROVE mails \subseteq mails'
    BY <2>2 DEF SendStep, Lock, CountMails, FindOldest, AddMail, LookForMail, GiveUp, Attach,
                Unlock, cache_new_mail
  <2>3. ASSUME NEW r \in Reader, ReadStep(r) PROVE sending' = sending
    BY <2>3 DEF ReadStep
  <2> QED  BY <2>1, <2>2, <2>3 DEF MailNext, mailVars
<1> QED  BY <1>1, RoomInvHolds, PTL DEF MailSpec, OldestMakesRoom

(***************************************************************************)
(* The mails of a player. No new mail gets lost on the way to the client.  *)
(***************************************************************************)

LEMMA ToldKept == MailInv /\ NewMailIsTold /\ [MailNext]_mailVars => NewMailIsTold'
<1> SUFFICES ASSUME MailInv, NewMailIsTold, [MailNext]_mailVars, listing' = {}
             PROVE  unheard' \cap mails' \subseteq new_mail_ids'
  BY DEF NewMailIsTold
<1>1. ASSUME NEW s \in Sender, SendStep(s) PROVE unheard' \cap mails' \subseteq new_mail_ids'
  <2>0. unheard \cap mails \subseteq new_mail_ids
    BY <1>1 DEF SendStep, NewMailIsTold
  <2>1. CASE AddMail(s)
    <3>1. mail_id + 1 \notin unheard
      BY MailAssumption DEF MailInv, BoxOK, MailTypeOK
    <3> QED  BY <2>0, <2>1, <3>1 DEF AddMail
  <2>2. CASE cache_new_mail(s)
    BY <2>0, <2>2 DEF cache_new_mail
  <2>3. CASE mails' \subseteq mails /\ UNCHANGED <<new_mail_ids, unheard>>
    BY <2>0, <2>3
  <2> QED
    BY <1>1, <2>1, <2>2, <2>3 DEF SendStep, Lock, CountMails, FindOldest, RemoveOldest, LookForMail,
                                  GiveUp, Attach, Unlock
<1>2. ASSUME NEW r \in Reader, ReadStep(r) PROVE unheard' \cap mails' \subseteq new_mail_ids'
  <2>1. CASE ClearNew(r)
    BY <2>1 DEF ClearNew
  <2>2. CASE CheckNewMail(r)
    BY <2>2 DEF CheckNewMail, NewMailIsTold
  <2>3. ASSUME NEW over \in SUBSET mails, ShowMails(r, over)
        PROVE  unheard' \cap mails' \subseteq new_mail_ids'
    BY <2>3 DEF ShowMails
  <2>4. ASSUME NEW m \in mails, DeleteMail(r, m)
        PROVE  unheard' \cap mails' \subseteq new_mail_ids'
    BY <2>4 DEF DeleteMail, NewMailIsTold
  <2> QED  BY <1>2, <2>1, <2>2, <2>3, <2>4 DEF ReadStep
<1> QED  BY <1>1, <1>2 DEF MailNext, mailVars, NewMailIsTold

\* A mail that has been sent and is still there is among the new ones, or has been told of,
\* for any senders and readers (GetMailList, CheckNewMail).
THEOREM NewMailIsToldAlways == MailSpec => []NewMailIsTold
<1>1. MailInit => NewMailIsTold
  BY DEF MailInit, NewMailIsTold
<1> QED  BY <1>1, MailInvariant, ToldKept, PTL DEF MailSpec

(***************************************************************************)
(* System mails. Types.                                                    *)
(***************************************************************************)

\* What a row of the GM's call, and of a check, points to.
PlacesOK ==
  /\ \A g \in GmCall : call[g].pc # "idle" => call[g].id \in 1..max_id
  /\ \A h \in Heartbeat :
       /\ check[h].pc = "read" => check[h].next \in 0..max_id
       /\ check[h].pc = "send" => check[h].upto \in 0..max_id /\ check[h].next \in 0..(check[h].upto + 1)

SysTypes == SysMailsTypeOK /\ PlacesOK

LEMMA SysTypesInit == SysMailsInit => SysTypes
<1> SUFFICES ASSUME SysMailsInit PROVE SysTypes
  OBVIOUS
<1> USE SysMailsAssumption
<1>1. /\ call \in [GmCall -> Calls] /\ check \in [Heartbeat -> Checks]
      /\ \A g \in GmCall : call[g].pc = "idle"
      /\ \A h \in Heartbeat : check[h].pc = "idle"
  <2>0. 0 \in 0..MaxSysMails /\ 0 \in 0..(MaxSysMails + 1)
    OBVIOUS
  <2>1. CallAt("idle", 0) \in Calls /\ CallAt("idle", 0).pc = "idle"
    BY <2>0 DEF Calls, CallAt
  <2>2. CheckAt("idle", 0, 0) \in Checks /\ CheckAt("idle", 0, 0).pc = "idle"
    BY <2>0 DEF Checks, CheckAt
  <2>3. /\ call = [g \in GmCall |-> CallAt("idle", 0)]
        /\ check = [h \in Heartbeat |-> CheckAt("idle", 0, 0)]
    BY DEF SysMailsInit
  <2> DEFINE idle == CallAt("idle", 0)
             rest == CheckAt("idle", 0, 0)
  <2> HIDE DEF idle, rest
  <2>4. call = [g \in GmCall |-> idle] /\ check = [h \in Heartbeat |-> rest]
    BY <2>3 DEF idle, rest
  <2>5. idle \in Calls /\ idle.pc = "idle" /\ rest \in Checks /\ rest.pc = "idle"
    BY <2>1, <2>2 DEF idle, rest
  <2> QED  BY <2>4, <2>5
<1>2. SysMailsTypeOK
  <2>1. /\ rows \in [SysMailId -> {"none", "empty", "before", "due"}]
        /\ got \in [SysMailId -> 0..Many]
    BY DEF SysMailsInit, Many
  <2>2. /\ max_id \in 0..MaxSysMails /\ curr_mail_id \in 0..max_id /\ self_id \in 0..max_id
        /\ overtaken \subseteq SysMailId
    BY DEF SysMailsInit
  <2>3. created \in BOOLEAN /\ beside \in BOOLEAN
    BY Zenon DEF SysMailsInit
  <2> QED  BY <1>1, <2>1, <2>2, <2>3, Zenon DEF SysMailsTypeOK
<1> QED  BY <1>1, <1>2 DEF SysTypes, PlacesOK

\* Where a call of the GM goes to ...
LEMMA CallGoes ==
  ASSUME call \in [GmCall -> Calls], NEW g \in GmCall, NEW i \in 0..MaxSysMails,
         NEW place \in {"idle", "fill", "announce"},
         \/ call' = [call EXCEPT ![g] = CallAt(place, i)]
         \/ i = call[g].id /\ call' = [call EXCEPT ![g].pc = place]
  PROVE  /\ call' \in [GmCall -> Calls]
         /\ call'[g].pc = place /\ call'[g].id = i
         /\ \A f \in GmCall : f # g => call'[f] = call[f]
BY DEF Calls, CallAt

\* ... and a check.
LEMMA CheckGoes ==
  ASSUME check \in [Heartbeat -> Checks], NEW h \in Heartbeat,
         NEW place \in {"idle", "read", "send"},
         NEW i \in 0..(MaxSysMails + 1), NEW j \in 0..MaxSysMails,
         \/ check' = [check EXCEPT ![h] = CheckAt(place, i, j)]
         \/ /\ place = check[h].pc /\ j = check[h].upto
            /\ check' = [check EXCEPT ![h].next = i]
  PROVE  /\ check' \in [Heartbeat -> Checks]
         /\ check'[h].pc = place /\ check'[h].next = i /\ check'[h].upto = j
         /\ \A k \in Heartbeat : k # h => check'[k] = check[k]
BY DEF Checks, CheckAt

LEMMA CallFields ==
  ASSUME call \in [GmCall -> Calls], NEW g \in GmCall
  PROVE  /\ call[g].id \in Int /\ call[g].id \in 0..MaxSysMails
         /\ call[g].pc \in {"idle", "fill", "announce"}
BY SysMailsAssumption DEF Calls

LEMMA CheckFields ==
  ASSUME check \in [Heartbeat -> Checks], NEW h \in Heartbeat
  PROVE  /\ check[h].next \in Int /\ check[h].next \in 0..(MaxSysMails + 1)
         /\ check[h].upto \in Int /\ check[h].upto \in 0..MaxSysMails
         /\ check[h].pc \in {"idle", "read", "send"}
BY SysMailsAssumption DEF Checks

LEMMA GmKeepsTypes ==
  ASSUME SysTypes, NEW g \in GmCall, GmStep(g), beside' \in BOOLEAN
  PROVE  SysTypes'
<1> USE SysMailsAssumption DEF SysTypes, SysMailsTypeOK
<1>0. /\ UNCHANGED <<created, self_id, check, got>>
      /\ call[g].id \in Int /\ call[g].id \in 0..MaxSysMails
  BY CallFields DEF GmStep
<1>1. CASE AddSysMail(g)
  <2>2. max_id' = max_id + 1 /\ max_id' \in SysMailId /\ max_id' \in 0..MaxSysMails
    BY <1>1 DEF AddSysMail, SysMailId
  <2>1. /\ call' \in [GmCall -> Calls] /\ call'[g].id = max_id'
        /\ \A f \in GmCall : f # g => call'[f] = call[f]
    BY <1>1, <2>2, CallGoes, Zenon DEF AddSysMail
  <2>3. SysMailsTypeOK'
    BY <1>0, <1>1, <2>1, <2>2 DEF AddSysMail
  <2> QED  BY <1>0, <2>1, <2>2, <2>3 DEF PlacesOK
<1>2. CASE NoSubtype(g)
  <2>1. /\ call' \in [GmCall -> Calls] /\ call'[g].pc = "idle"
        /\ \A f \in GmCall : f # g => call'[f] = call[f]
    BY <1>0, <1>2, CallGoes DEF NoSubtype
  <2> QED  BY <1>0, <1>2, <2>1 DEF NoSubtype, PlacesOK
<1>3. CASE FillRow(g)
  <2>1. /\ call' \in [GmCall -> Calls] /\ call'[g].id = call[g].id /\ call[g].pc # "idle"
        /\ \A f \in GmCall : f # g => call'[f] = call[f]
    BY <1>0, <1>3, CallGoes DEF FillRow
  <2>2. rows' \in [SysMailId -> {"none", "empty", "before", "due"}]
    BY <1>3 DEF FillRow
  <2> QED  BY <1>0, <1>3, <2>1, <2>2 DEF FillRow, PlacesOK
<1>4. CASE Announce(g)
  <2>1. /\ call' \in [GmCall -> Calls] /\ call'[g].pc = "idle"
        /\ \A f \in GmCall : f # g => call'[f] = call[f]
    BY <1>0, <1>4, CallGoes DEF Announce
  <2>2. curr_mail_id' \in 0..max_id /\ max_id' = max_id
    BY <1>4 DEF Announce, PlacesOK
  <2>3. overtaken' \subseteq SysMailId
    BY <1>0, <1>4 DEF Announce, SysMailId
  <2> QED  BY <1>0, <1>4, <2>1, <2>2, <2>3 DEF Announce, PlacesOK
<1> QED  BY <1>1, <1>2, <1>3, <1>4 DEF GmStep

LEMMA CheckKeepsTypes ==
  ASSUME SysTypes, NEW h \in Heartbeat, CheckStep(h), beside' \in BOOLEAN
  PROVE  SysTypes'
<1> USE SysMailsAssumption DEF SysTypes, SysMailsTypeOK
<1>0. /\ UNCHANGED <<rows, max_id, curr_mail_id, call, created, overtaken>>
      /\ check[h].next \in Int /\ check[h].upto \in Int
      /\ check[h].next \in 0..(MaxSysMails + 1) /\ check[h].upto \in 0..MaxSysMails
  BY CheckFields DEF CheckStep
<1>1. CASE ReadSelf(h)
  <2>1. /\ check' \in [Heartbeat -> Checks] /\ check'[h].pc = "read" /\ check'[h].next = self_id
        /\ \A k \in Heartbeat : k # h => check'[k] = check[k]
    <3>1. self_id \in 0..(MaxSysMails + 1) /\ 0 \in 0..MaxSysMails
      OBVIOUS
    <3> QED  BY <1>1, <3>1, CheckGoes, Zenon DEF ReadSelf
  <2> QED  BY <1>0, <1>1, <2>1 DEF ReadSelf, PlacesOK
<1>2. CASE ReadCurr(h)
  <2>1. /\ check' \in [Heartbeat -> Checks]
        /\ \/ check'[h].pc = "idle"
           \/ /\ check'[h].pc = "send" /\ check'[h].next = check[h].next
              /\ check'[h].upto = curr_mail_id /\ check[h].next < curr_mail_id
        /\ \A k \in Heartbeat : k # h => check'[k] = check[k]
    <3>0. curr_mail_id \in 0..MaxSysMails /\ 0 \in 0..MaxSysMails /\ 0 \in 0..(MaxSysMails + 1)
      OBVIOUS
    <3>1. CASE check[h].next < curr_mail_id
      <4>1. check' = [check EXCEPT ![h] = CheckAt("send", check[h].next, curr_mail_id)]
        BY <1>2, <3>1 DEF ReadCurr
      <4> QED  BY <1>0, <3>0, <3>1, <4>1, CheckGoes, Zenon
    <3>2. CASE ~ check[h].next < curr_mail_id
      <4>1. check' = [check EXCEPT ![h] = CheckAt("idle", 0, 0)]
        BY <1>2, <3>2 DEF ReadCurr
      <4> QED  BY <1>0, <3>0, <4>1, CheckGoes, Zenon
    <3> QED  BY <3>1, <3>2
  <2> QED  BY <1>0, <1>2, <2>1 DEF ReadCurr, PlacesOK
<1>3. CASE SendNext(h)
  <2>0. check[h].next + 1 \in 0..(MaxSysMails + 1)
    BY <1>0, <1>3 DEF SendNext
  <2>1. /\ check' \in [Heartbeat -> Checks] /\ check'[h].pc = "send"
        /\ check'[h].next = check[h].next + 1 /\ check'[h].upto = check[h].upto
        /\ \A k \in Heartbeat : k # h => check'[k] = check[k]
    BY <1>0, <1>3, <2>0, CheckGoes DEF SendNext
  <2>2. got' \in [SysMailId -> 0..Many]
    BY <1>3 DEF SendNext, Many
  <2> QED  BY <1>0, <1>3, <2>1, <2>2 DEF SendNext, PlacesOK
<1>4. CASE StoreSelf(h)
  <2>1. /\ check' \in [Heartbeat -> Checks] /\ check'[h].pc = "idle"
        /\ \A k \in Heartbeat : k # h => check'[k] = check[k]
    <3>1. 0 \in 0..MaxSysMails /\ 0 \in 0..(MaxSysMails + 1)
      OBVIOUS
    <3> QED  BY <1>4, <3>1, CheckGoes, Zenon DEF StoreSelf
  <2> QED  BY <1>0, <1>4, <2>1 DEF StoreSelf, PlacesOK
<1> QED  BY <1>1, <1>2, <1>3, <1>4 DEF CheckStep

LEMMA CreateKeepsTypes ==
  ASSUME SysTypes, Create, beside' \in BOOLEAN
  PROVE  SysTypes'
BY DEF SysTypes, SysMailsTypeOK, PlacesOK, Create

LEMMA BesideIsBoolean == SysMailsNext /\ beside \in BOOLEAN => beside' \in BOOLEAN
BY DEF SysMailsNext

LEMMA SysTypesKept == SysTypes /\ [SysMailsNext]_sysMailVars => SysTypes'
<1> SUFFICES ASSUME SysTypes, [SysMailsNext]_sysMailVars PROVE SysTypes'
  OBVIOUS
<1>1. CASE SysMailsNext
  <2>1. beside' \in BOOLEAN
    BY <1>1, BesideIsBoolean DEF SysTypes, SysMailsTypeOK
  <2> QED
    BY <1>1, <2>1, GmKeepsTypes, CheckKeepsTypes, CreateKeepsTypes DEF SysMailsNext
<1>2. CASE UNCHANGED sysMailVars
  BY <1>2 DEF sysMailVars, SysTypes, SysMailsTypeOK, PlacesOK
<1> QED  BY <1>1, <1>2

LEMMA SysTypesHold == SysMailsSpec => []SysTypes
BY SysTypesInit, SysTypesKept, PTL DEF SysMailsSpec

\* The system mails (rpc_gm_proc.go, player_mail.go) are always of their types.
THEOREM SysMailsTypeCorrect == SysMailsSpec => []SysMailsTypeOK
<1>1. SysTypes => SysMailsTypeOK
  BY DEF SysTypes
<1> QED  BY <1>1, SysTypesHold, PTL

(***************************************************************************)
(* System mails. Whoever knows of a mail has been sent it. A check knows   *)
(* more than what is stored: the mails before the next one it sends.       *)
(***************************************************************************)

Reached(n) ==
  \A i \in SysMailId : i <= n /\ rows[i] = "due" /\ i \notin overtaken => got[i] >= 1

\* Every row up to n has been filled, or is known to have been overtaken.
FilledUpTo(n) ==
  \A g \in GmCall : call[g].pc = "fill" /\ call[g].id <= n => call[g].id \in overtaken

CheckReached(h) ==
  /\ check[h].pc = "read" => Reached(check[h].next) /\ FilledUpTo(check[h].next)
  /\ check[h].pc = "send" => Reached(check[h].next - 1) /\ FilledUpTo(check[h].upto)

AllReached ==
  /\ FilledUpTo(curr_mail_id)
  /\ Reached(self_id) /\ FilledUpTo(self_id)
  /\ \A h \in Heartbeat : CheckReached(h)

LEMMA AllReachedInit == SysMailsInit => AllReached
BY SysMailsAssumption
DEF SysMailsInit, AllReached, CheckReached, Reached, FilledUpTo, SysMailId, CallAt, CheckAt

\* A step of a call keeps what is known of the mails up to n.
LEMMA GmKeepsReached ==
  ASSUME SysTypes, NEW g \in GmCall, GmStep(g), NEW n \in Int, n <= max_id, FilledUpTo(n)
  PROVE  FilledUpTo(n)' /\ (Reached(n) => Reached(n)')
<1> USE SysMailsAssumption
<1>0. /\ got' = got /\ max_id \in Int /\ call \in [GmCall -> Calls]
      /\ rows \in [SysMailId -> {"none", "empty", "before", "due"}]
      /\ call[g].id \in Int /\ call[g].id \in 0..MaxSysMails
  BY CallFields DEF GmStep, SysTypes, SysMailsTypeOK
<1>1. CASE AddSysMail(g)
  <2>1. max_id' = max_id + 1 /\ max_id' \in 0..MaxSysMails
    BY <1>1 DEF AddSysMail, SysTypes, SysMailsTypeOK
  <2>2. /\ call'[g].id = max_id'
        /\ \A f \in GmCall : f # g => call'[f] = call[f]
    BY <1>0, <1>1, <2>1, CallGoes, Zenon DEF AddSysMail
  <2>3. \A i \in SysMailId : i <= n => rows'[i] = rows[i]
    BY <1>0, <1>1, <2>1 DEF AddSysMail, SysMailId
  <2> QED  BY <1>0, <1>1, <2>1, <2>2, <2>3 DEF AddSysMail, FilledUpTo, Reached
<1>2. CASE NoSubtype(g)
  <2>1. /\ call'[g].pc = "idle"
        /\ \A f \in GmCall : f # g => call'[f] = call[f]
    BY <1>0, <1>2, CallGoes DEF NoSubtype
  <2> QED  BY <1>0, <1>2, <2>1 DEF NoSubtype, FilledUpTo, Reached
<1>3. CASE FillRow(g)
  <2>1. /\ call'[g].pc = "announce"
        /\ \A f \in GmCall : f # g => call'[f] = call[f]
    BY <1>0, <1>3, CallGoes DEF FillRow
  <2>2. /\ call[g].pc = "fill" /\ overtaken' = overtaken
        /\ \A i \in SysMailId : i # call[g].id => rows'[i] = rows[i]
    BY <1>0, <1>3 DEF FillRow
  <2> QED  BY <1>0, <2>1, <2>2 DEF FilledUpTo, Reached
<1>4. CASE Announce(g)
  <2>1. /\ call'[g].pc = "idle"
        /\ \A f \in GmCall : f # g => call'[f] = call[f]
    BY <1>0, <1>4, CallGoes DEF Announce
  <2>2. rows' = rows /\ overtaken \subseteq overtaken'
    BY <1>4 DEF Announce
  <2> QED  BY <1>0, <2>1, <2>2 DEF FilledUpTo, Reached
<1> QED  BY <1>1, <1>2, <1>3, <1>4 DEF GmStep

\* What is announced has been filled, up to there, or is known to have been overtaken.
LEMMA AnnouncedIsFilled ==
  ASSUME SysTypes, NEW g \in GmCall, Announce(g)
  PROVE  FilledUpTo(curr_mail_id)'
<1>0. call \in [GmCall -> Calls] /\ call[g].id \in 0..MaxSysMails /\ call[g].id \in Int
  BY CallFields DEF SysTypes, SysMailsTypeOK
<1>1. /\ call'[g].pc = "idle"
      /\ \A f \in GmCall : f # g => call'[f] = call[f]
  BY <1>0, CallGoes DEF Announce
<1>2. \A f \in GmCall : call[f].pc = "fill" => call[f].id \in 1..max_id /\ call[f].id \in Int
  BY <1>0, CallFields DEF SysTypes, PlacesOK
<1> QED  BY <1>0, <1>1, <1>2 DEF Announce, FilledUpTo

LEMMA GmKeepsAllReached ==
  ASSUME SysTypes, AllReached, NEW g \in GmCall, GmStep(g)
  PROVE  AllReached'
<1> USE SysMailsAssumption
<1>0. UNCHANGED <<self_id, check>> /\ check \in [Heartbeat -> Checks]
  BY DEF GmStep, SysTypes, SysMailsTypeOK
<1>1. FilledUpTo(curr_mail_id)'
  <2>1. CASE Announce(g)
    BY <2>1, AnnouncedIsFilled
  <2>2. CASE curr_mail_id' = curr_mail_id
    <3>1. curr_mail_id \in Int /\ curr_mail_id <= max_id /\ FilledUpTo(curr_mail_id)
      BY DEF SysTypes, SysMailsTypeOK, AllReached
    <3> DEFINE n == curr_mail_id
    <3> HIDE DEF n
    <3>2. FilledUpTo(n)'
      BY <2>2, <3>1, GmKeepsReached DEF n
    <3> QED  BY <2>2, <3>2 DEF n, FilledUpTo
  <2> QED  BY <2>1, <2>2 DEF GmStep, AddSysMail, NoSubtype, FillRow
<1>2. (Reached(self_id) /\ FilledUpTo(self_id))'
  <2>1. self_id \in Int /\ self_id <= max_id /\ FilledUpTo(self_id) /\ Reached(self_id)
    BY DEF SysTypes, SysMailsTypeOK, AllReached
  <2> QED  BY <1>0, <2>1, GmKeepsReached DEF Reached, FilledUpTo
<1>3. ASSUME NEW h \in Heartbeat PROVE CheckReached(h)'
  <2>0. check[h].next \in Int /\ check[h].upto \in Int /\ CheckReached(h) /\ max_id \in Int
    BY <1>0, CheckFields DEF AllReached, SysTypes, SysMailsTypeOK
  <2> QED  BY <1>0, <2>0, GmKeepsReached DEF Reached, FilledUpTo, CheckReached, SysTypes, PlacesOK
<1> QED  BY <1>1, <1>2, <1>3 DEF AllReached

\* What is known stays known when a check sends and stores.
LEMMA CheckKeepsReached ==
  ASSUME SysTypes, NEW h \in Heartbeat, CheckStep(h), NEW n \in Int
  PROVE  /\ Reached(n) => Reached(n)'
         /\ FilledUpTo(n) => FilledUpTo(n)'
<1>1. \A i \in SysMailId : got[i] >= 1 => got'[i] >= 1
  <2>1. CASE SendNext(h)
    BY <2>1 DEF SendNext, Many, SysTypes, SysMailsTypeOK
  <2>2. CASE got' = got
    BY <2>2
  <2> QED  BY <2>1, <2>2 DEF CheckStep, ReadSelf, ReadCurr, StoreSelf
<1> QED  BY <1>1 DEF Reached, FilledUpTo, CheckStep

LEMMA ReachedLess ==
  ASSUME NEW n \in Int, NEW m \in Int, m <= n, SysMailsAssumption
  PROVE  Reached(n) => Reached(m)
BY DEF Reached, SysMailId, SysMailsAssumption

LEMMA CheckKeepsAllReached ==
  ASSUME SysTypes, AllReached, NEW h \in Heartbeat, CheckStep(h)
  PROVE  AllReached'
<1> USE SysMailsAssumption
<1>0. /\ UNCHANGED <<rows, max_id, curr_mail_id, call, created, overtaken>>
      /\ check \in [Heartbeat -> Checks]
      /\ max_id \in Int /\ self_id \in Int /\ curr_mail_id \in Int
      /\ self_id \in 0..MaxSysMails /\ curr_mail_id \in 0..MaxSysMails
      /\ check[h].next \in Int /\ check[h].upto \in Int
      /\ check[h].next \in 0..(MaxSysMails + 1) /\ check[h].upto \in 0..MaxSysMails
      /\ 0 \in 0..MaxSysMails /\ 0 \in 0..(MaxSysMails + 1)
      /\ CheckReached(h)
  BY CheckFields DEF CheckStep, SysTypes, SysMailsTypeOK, AllReached
<1>1. FilledUpTo(curr_mail_id)'
  BY <1>0 DEF AllReached, FilledUpTo
<1>2. ASSUME NEW k \in Heartbeat, check'[k] = check[k] PROVE CheckReached(k)'
  <2>1. check[k].next \in Int /\ check[k].upto \in Int /\ CheckReached(k)
    BY <1>0, CheckFields DEF AllReached
  <2> QED  BY <1>0, <1>2, <2>1, CheckKeepsReached DEF CheckReached, Reached, FilledUpTo
<1>3. ASSUME self_id' = self_id PROVE (Reached(self_id) /\ FilledUpTo(self_id))'
  <2>1. Reached(self_id) /\ FilledUpTo(self_id)
    BY DEF AllReached
  <2> QED  BY <1>0, <1>3, <2>1, CheckKeepsReached DEF Reached, FilledUpTo
<1>4. CASE ReadSelf(h)
  <2>1. /\ check'[h].pc = "read" /\ check'[h].next = self_id /\ self_id' = self_id
        /\ \A k \in Heartbeat : k # h => check'[k] = check[k]
    <3>1. self_id \in 0..(MaxSysMails + 1)
      BY <1>0
    <3> QED  BY <1>0, <1>4, <3>1, CheckGoes, Zenon DEF ReadSelf
  <2>2. CheckReached(h)'
    BY <1>3, <2>1 DEF CheckReached, Reached, FilledUpTo
  <2> QED  BY <1>1, <1>2, <1>3, <2>1, <2>2 DEF AllReached
<1>5. CASE ReadCurr(h)
  <2>0. self_id' = self_id /\ check[h].pc = "read"
    BY <1>5 DEF ReadCurr
  <2>1. CASE check[h].next < curr_mail_id
    <3>1. check' = [check EXCEPT ![h] = CheckAt("send", check[h].next, curr_mail_id)]
      BY <1>5, <2>1 DEF ReadCurr
    <3>2. /\ check'[h].pc = "send" /\ check'[h].next = check[h].next
          /\ check'[h].upto = curr_mail_id
          /\ \A k \in Heartbeat : k # h => check'[k] = check[k]
      BY <1>0, <3>1, CheckGoes, Zenon
    <3>3. Reached(check[h].next - 1)
      BY <1>0, <2>0, ReachedLess DEF CheckReached
    <3>4. Reached(check[h].next - 1)'
      <4> DEFINE n == check[h].next - 1
      <4>1. n \in Int /\ Reached(n)
        BY <1>0, <3>3
      <4> HIDE DEF n
      <4>2. n' = n
        BY <1>0, <3>2 DEF n
      <4>3. \A i \in SysMailId : i <= n /\ rows'[i] = "due" /\ i \notin overtaken' => got'[i] >= 1
        BY <1>0, <4>1, CheckKeepsReached DEF Reached
      <4> QED  BY <4>2, <4>3 DEF Reached, n
    <3>5. CheckReached(h)'
      BY <1>0, <1>1, <3>2, <3>4 DEF CheckReached, Reached, FilledUpTo
    <3> QED  BY <1>1, <1>2, <1>3, <2>0, <3>2, <3>5 DEF AllReached
  <2>2. CASE ~ check[h].next < curr_mail_id
    <3>1. check' = [check EXCEPT ![h] = CheckAt("idle", 0, 0)]
      BY <1>5, <2>2 DEF ReadCurr
    <3>2. /\ check'[h].pc = "idle"
          /\ \A k \in Heartbeat : k # h => check'[k] = check[k]
      BY <1>0, <3>1, CheckGoes, Zenon
    <3> QED  BY <1>1, <1>2, <1>3, <2>0, <3>2 DEF AllReached, CheckReached
  <2> QED  BY <2>1, <2>2
<1>6. CASE SendNext(h)
  <2>0. check[h].next + 1 \in 0..(MaxSysMails + 1) /\ check[h].pc = "send" /\ self_id' = self_id
    BY <1>0, <1>6 DEF SendNext
  <2>1. /\ check'[h].pc = "send"
        /\ check'[h].next = check[h].next + 1 /\ check'[h].upto = check[h].upto
        /\ \A k \in Heartbeat : k # h => check'[k] = check[k]
    BY <1>0, <1>6, <2>0, CheckGoes DEF SendNext
  <2>2. \A i \in SysMailId : i <= check[h].next /\ rows[i] = "due" /\ i \notin overtaken => got'[i] >= 1
    <3>1. Reached(check[h].next - 1)
      BY <1>0, <2>0 DEF CheckReached
    <3>2. check[h].next \in SysMailId /\ rows[check[h].next] = "due" => got'[check[h].next] >= 1
      BY <1>0, <1>6 DEF SendNext, Many, SysTypes, SysMailsTypeOK
    <3>3. \A i \in SysMailId : got[i] >= 1 => got'[i] >= 1
      BY <1>6 DEF SendNext, Many, SysTypes, SysMailsTypeOK
    <3>4. \A i \in SysMailId : i \in Int /\ (i <= check[h].next => i = check[h].next \/ i <= check[h].next - 1)
      BY <1>0 DEF SysMailId
    <3> QED  BY <3>1, <3>2, <3>3, <3>4 DEF Reached
  <2>3. CheckReached(h)'
    <3>1. check'[h].next - 1 = check[h].next
      BY <1>0, <2>1
    <3>2. Reached(check[h].next - 1)'
      BY <1>0, <2>2, <3>1 DEF Reached
    <3>3. FilledUpTo(check[h].upto)'
      BY <1>0, <2>0, <2>1 DEF CheckReached, FilledUpTo
    <3> QED  BY <2>1, <3>2, <3>3 DEF CheckReached
  <2> QED  BY <1>1, <1>2, <1>3, <2>0, <2>1, <2>3 DEF AllReached
<1>7. CASE StoreSelf(h)
  <2>1. /\ check'[h].pc = "idle"
        /\ \A k \in Heartbeat : k # h => check'[k] = check[k]
    BY <1>0, <1>7, CheckGoes, Zenon DEF StoreSelf
  <2>2. Reached(check[h].upto) /\ FilledUpTo(check[h].upto)
    <3>1. check[h].pc = "send" /\ check[h].upto <= check[h].next - 1 /\ check[h].next - 1 \in Int
      BY <1>0, <1>7 DEF StoreSelf
    <3> QED  BY <1>0, <3>1, ReachedLess DEF CheckReached
  <2>3. (Reached(self_id) /\ FilledUpTo(self_id))'
    BY <1>0, <1>7, <2>2 DEF StoreSelf, Reached, FilledUpTo
  <2> QED  BY <1>1, <1>2, <2>1, <2>3 DEF AllReached, CheckReached
<1> QED  BY <1>4, <1>5, <1>6, <1>7 DEF CheckStep

LEMMA AllReachedKept ==
  SysTypes /\ AllReached /\ [SysMailsNext]_sysMailVars => AllReached'
<1> SUFFICES ASSUME SysTypes, AllReached, [SysMailsNext]_sysMailVars PROVE AllReached'
  OBVIOUS
<1>1. CASE Create
  BY <1>1 DEF Create, AllReached, CheckReached, Reached, FilledUpTo
<1>2. CASE UNCHANGED sysMailVars
  BY <1>2 DEF sysMailVars, AllReached, CheckReached, Reached, FilledUpTo
<1> QED  BY <1>1, <1>2, GmKeepsAllReached, CheckKeepsAllReached DEF SysMailsNext

\* A player who knows of a system mail has been sent it, however the calls of the GM and
\* his own heartbeats interleave, but for a row overtaken by a later one (SysMail,
\* CheckSystemMail).
THEOREM SysMailReachesAlways == SysMailsSpec => []SysMailReaches
<1>1. AllReached => SysMailReaches
  BY DEF AllReached, Reached, SysMailReaches
<1> QED  BY <1>1, SysTypesHold, AllReachedInit, AllReachedKept, PTL DEF SysMailsSpec

(***************************************************************************)
(* System mails. As long as the checks are one at a time, what a player    *)
(* has been sent is told by the id stored and the next mail to be sent.    *)
(***************************************************************************)

\* The times the player can have been sent mail i, when the id stored is "from" and the
\* mails before "next" have been sent.
Most(i, from, next) ==
  IF i < from THEN 2
  ELSE IF i = from THEN (IF next > from THEN 2 ELSE 1)
  ELSE IF i < next THEN 1 ELSE 0

AtMost(next) == \A i \in SysMailId : got[i] <= Most(i, self_id, next)

OneAtATime == \A h, k \in Heartbeat : Checking(h) /\ Checking(k) => h = k

CheckInLine(h) ==
  /\ check[h].pc = "read" => check[h].next = self_id
  /\ check[h].pc = "send" => /\ self_id <= check[h].next /\ self_id < check[h].upto
                             /\ AtMost(check[h].next)

InLine ==
  ~ beside => /\ OneAtATime
              /\ \A h \in Heartbeat : CheckInLine(h)
              /\ (\A h \in Heartbeat : check[h].pc # "send") => AtMost(self_id)

LEMMA InLineInit == SysMailsInit => InLine
<1> SUFFICES ASSUME SysMailsInit PROVE InLine
  OBVIOUS
<1>1. \A h \in Heartbeat : check[h].pc = "idle"
  BY DEF SysMailsInit, CheckAt
<1>2. AtMost(self_id)
  BY SysMailsAssumption DEF SysMailsInit, AtMost, Most, SysMailId
<1> QED  BY <1>1, <1>2 DEF InLine, OneAtATime, Checking, CheckInLine

\* A step of the player's only check.
LEMMA CheckKeepsInLine ==
  ASSUME SysTypes, InLine, NEW h \in Heartbeat, CheckStep(h), ~ beside, OneAtATime'
  PROVE  InLine'
<1> USE SysMailsAssumption
<1>0. /\ check \in [Heartbeat -> Checks] /\ got \in [SysMailId -> 0..Many]
      /\ self_id \in Int /\ curr_mail_id \in Int
      /\ self_id \in 0..MaxSysMails /\ curr_mail_id \in 0..MaxSysMails
      /\ check[h].next \in Int /\ check[h].upto \in Int
      /\ check[h].next \in 0..(MaxSysMails + 1) /\ check[h].upto \in 0..MaxSysMails
      /\ 0 \in 0..MaxSysMails /\ 0 \in 0..(MaxSysMails + 1)
      /\ OneAtATime /\ CheckInLine(h)
      /\ (\A k \in Heartbeat : check[k].pc # "send") => AtMost(self_id)
  BY CheckFields DEF SysTypes, SysMailsTypeOK, InLine
<1>1. CASE ReadSelf(h)
  <2>1. /\ check'[h].pc = "read" /\ check'[h].next = self_id
        /\ \A k \in Heartbeat : k # h => check'[k] = check[k]
    <3>1. self_id \in 0..(MaxSysMails + 1)
      BY <1>0
    <3> QED  BY <1>0, <1>1, <3>1, CheckGoes, Zenon DEF ReadSelf
  <2>2. \A k \in Heartbeat : k # h => check[k].pc = "idle" /\ check'[k].pc = "idle"
    BY <2>1 DEF OneAtATime, Checking
  <2>3. AtMost(self_id)
    BY <1>0, <1>1, <2>2 DEF ReadSelf
  <2> QED  BY <1>1, <2>1, <2>2, <2>3 DEF ReadSelf, InLine, CheckInLine, AtMost
<1>2. ASSUME check[h].pc # "idle" PROVE \A k \in Heartbeat : k # h => check[k].pc = "idle"
  BY <1>0, <1>2 DEF OneAtATime, Checking
<1>3. CASE ReadCurr(h)
  <2>0. /\ self_id' = self_id /\ got' = got /\ check[h].pc = "read"
        /\ \A k \in Heartbeat : k # h => check[k].pc = "idle"
    BY <1>2, <1>3 DEF ReadCurr
  <2>1. AtMost(self_id) /\ check[h].next = self_id
    BY <1>0, <2>0 DEF CheckInLine
  <2>2. CASE check[h].next < curr_mail_id
    <3>1. check' = [check EXCEPT ![h] = CheckAt("send", check[h].next, curr_mail_id)]
      BY <1>3, <2>2 DEF ReadCurr
    <3>2. /\ check'[h].pc = "send" /\ check'[h].next = check[h].next
          /\ check'[h].upto = curr_mail_id
          /\ \A k \in Heartbeat : k # h => check'[k] = check[k]
      BY <1>0, <3>1, CheckGoes, Zenon
    <3> QED  BY <1>0, <2>0, <2>1, <2>2, <3>2 DEF InLine, CheckInLine, AtMost
  <2>3. CASE ~ check[h].next < curr_mail_id
    <3>1. check' = [check EXCEPT ![h] = CheckAt("idle", 0, 0)]
      BY <1>3, <2>3 DEF ReadCurr
    <3>2. /\ check'[h].pc = "idle"
          /\ \A k \in Heartbeat : k # h => check'[k] = check[k]
      BY <1>0, <3>1, CheckGoes, Zenon
    <3> QED  BY <2>0, <2>1, <3>2 DEF InLine, CheckInLine, AtMost
  <2> QED  BY <2>2, <2>3
<1>4. CASE SendNext(h)
  <2>0. /\ check[h].next + 1 \in 0..(MaxSysMails + 1) /\ check[h].pc = "send" /\ self_id' = self_id
        /\ \A k \in Heartbeat : k # h => check[k].pc = "idle"
    BY <1>0, <1>2, <1>4 DEF SendNext
  <2>1. /\ check'[h].pc = "send"
        /\ check'[h].next = check[h].next + 1 /\ check'[h].upto = check[h].upto
        /\ \A k \in Heartbeat : k # h => check'[k] = check[k]
    BY <1>0, <1>4, <2>0, CheckGoes DEF SendNext
  <2>2. self_id <= check[h].next /\ self_id < check[h].upto /\ AtMost(check[h].next)
    BY <1>0, <2>0 DEF CheckInLine
  <2>3. \A i \in SysMailId : got'[i] <= Most(i, self_id, check[h].next + 1)
    <3> SUFFICES ASSUME NEW i \in SysMailId PROVE got'[i] <= Most(i, self_id, check[h].next + 1)
      OBVIOUS
    <3>0. i \in Int /\ got[i] \in 0..Many /\ got[i] <= Most(i, self_id, check[h].next)
      BY <1>0, <2>2 DEF SysMailId, AtMost
    <3>1. CASE i = check[h].next
      <4>1. got'[i] \in Int /\ got'[i] <= got[i] + 1
        BY <1>0, <1>4, <3>0 DEF SendNext, Many
      <4> QED  BY <1>0, <2>2, <3>0, <3>1, <4>1 DEF Most, Many
    <3>2. CASE i # check[h].next
      <4>1. got'[i] = got[i]
        BY <1>0, <1>4, <3>2 DEF SendNext
      <4> QED  BY <1>0, <2>2, <3>0, <3>2, <4>1 DEF Most, Many
    <3> QED  BY <3>1, <3>2
  <2>4. AtMost(check[h].next)'
    BY <2>0, <2>1, <2>3 DEF AtMost
  <2> QED  BY <1>0, <2>0, <2>1, <2>2, <2>4 DEF InLine, CheckInLine
<1>5. CASE StoreSelf(h)
  <2>0. /\ got' = got /\ check[h].pc = "send" /\ self_id' = check[h].upto
        /\ check[h].next > check[h].upto
        /\ \A k \in Heartbeat : k # h => check[k].pc = "idle"
    BY <1>2, <1>5 DEF StoreSelf
  <2>1. /\ check'[h].pc = "idle"
        /\ \A k \in Heartbeat : k # h => check'[k] = check[k]
    BY <1>0, <1>5, CheckGoes, Zenon DEF StoreSelf
  <2>2. self_id < check[h].upto /\ AtMost(check[h].next)
    BY <1>0, <2>0 DEF CheckInLine
  <2>3. check[h].next = check[h].upto + 1
    BY <1>0, <2>0 DEF SysTypes, PlacesOK
  <2>4. \A i \in SysMailId : got'[i] <= Most(i, check[h].upto, check[h].upto)
    <3> SUFFICES ASSUME NEW i \in SysMailId PROVE got'[i] <= Most(i, check[h].upto, check[h].upto)
      OBVIOUS
    <3>0. i \in Int /\ got[i] \in 0..Many /\ got[i] <= Most(i, self_id, check[h].next)
      BY <1>0, <2>2 DEF SysMailId, AtMost
    <3> QED  BY <1>0, <2>0, <2>2, <2>3, <3>0 DEF Most, Many
  <2>5. AtMost(self_id)'
    BY <2>0, <2>4 DEF AtMost
  <2> QED  BY <2>0, <2>1, <2>5 DEF InLine, CheckInLine
<1> QED  BY <1>1, <1>3, <1>4, <1>5 DEF CheckStep

LEMMA InLineKept ==
  SysTypes /\ InLine /\ [SysMailsNext]_sysMailVars => InLine'
<1> SUFFICES ASSUME SysTypes, InLine, [SysMailsNext]_sysMailVars PROVE InLine'
  OBVIOUS
<1>1. CASE UNCHANGED <<self_id, check, got>> /\ (~ beside' => ~ beside)
  BY <1>1 DEF InLine, OneAtATime, Checking, CheckInLine, AtMost
<1>2. ASSUME NEW h \in Heartbeat, CheckStep(h), SysMailsNext PROVE InLine'
  <2>1. CASE beside'
    BY <2>1 DEF InLine
  <2>2. CASE ~ beside'
    <3>1. ~ beside /\ OneAtATime'
      BY <1>2, <2>2 DEF SysMailsNext, OneAtATime
    <3> QED  BY <1>2, <3>1, CheckKeepsInLine
  <2> QED  BY <2>1, <2>2
<1>3. CASE SysMailsNext /\ (~ beside' => ~ beside)
  BY <1>1, <1>2, <1>3 DEF SysMailsNext, GmStep, Create
<1>4. SysMailsNext => (~ beside' => ~ beside)
  BY Zenon DEF SysMailsNext
<1>5. UNCHANGED sysMailVars => UNCHANGED <<self_id, check, got>> /\ (~ beside' => ~ beside)
  BY DEF sysMailVars
<1> QED  BY <1>1, <1>3, <1>4, <1>5

\* Nobody is sent a system mail more than twice, as long as his heartbeats are handled one
\* at a time (CheckSystemMail).
THEOREM SysMailTwiceAtMostAlways == SysMailsSpec => []SysMailTwiceAtMost
<1>1. SysTypes /\ InLine => SysMailTwiceAtMost
  <2> SUFFICES ASSUME SysTypes, InLine, ~ beside, NEW i \in SysMailId PROVE got[i] <= 2
    BY DEF SysMailTwiceAtMost
  <2>1. i \in Int /\ self_id \in Int /\ got[i] \in 0..Many
    BY SysMailsAssumption DEF SysTypes, SysMailsTypeOK, SysMailId
  <2>2. CASE \E h \in Heartbeat : check[h].pc = "send"
    <3>1. PICK h \in Heartbeat : check[h].pc = "send"
      BY <2>2
    <3>2. got[i] <= Most(i, self_id, check[h].next) /\ check[h].next \in Int
      BY <3>1, CheckFields DEF InLine, CheckInLine, AtMost, SysTypes, SysMailsTypeOK
    <3> QED  BY <2>1, <3>2 DEF Most, Many
  <2>3. CASE \A h \in Heartbeat : check[h].pc # "send"
    <3>1. got[i] <= Most(i, self_id, self_id)
      BY <2>3 DEF InLine, AtMost
    <3> QED  BY <2>1, <3>1 DEF Most, Many
  <2> QED  BY <2>2, <2>3
<1> QED  BY <1>1, SysTypesHold, InLineInit, InLineKept, PTL DEF SysMailsSpec
=============================================================================
