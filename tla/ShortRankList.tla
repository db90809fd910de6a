---------------------------- MODULE ShortRankList ----------------------------
(***************************************************************************)
(* The rank list of libs/utils/short_ranklist.go: an array of items, the   *)
(* best first, and a map from each key to the index of its item.  A key    *)
(* that comes to another value is moved by shifting all between its old    *)
(* place and its new one.  Every operation holds the list's lock from      *)
(* beginning to end.                                                       *)
(*                                                                         *)
(* A scan of the code for a place is the condition the place must meet     *)
(* that the scan stops at.                                                 *)
(***************************************************************************)
EXTENDS Integers

CONSTANTS
  Key,      \* what GetKey may give
  NoKey,    \* in the place of nil
  MaxNum,   \* max_num
  MaxValue  \* bound: what is compared by Less and Greater

ASSUME ShortRankListAssumption ==
  /\ NoKey \notin Key
  /\ MaxNum \in Nat \ {0}
  /\ MaxValue \in Nat

VARIABLES
  items,     \* index -> item, NoItem for nil
  curr_num,
  keys_map   \* key -> index, NoIdx for none

listVars == <<items, curr_num, keys_map>>

Idx == 0..(MaxNum - 1)
NoIdx == -1
Value == 0..MaxValue
Item == [key : Key, value : Value]
NoItem == [key |-> NoKey, value |-> 0]

TypeOK ==
  /\ items \in [Idx -> Item \cup {NoItem}]
  /\ curr_num \in 0..MaxNum
  /\ keys_map \in [Key -> Idx \cup {NoIdx}]

Has(k) == keys_map[k] # NoIdx

-----------------------------------------------------------------------------
(* Moving an item *)

\* The items between two places move up or down by one, the item takes the other place.
Moved(from, to, item) ==
  [i \in Idx |-> IF i = to THEN item
                 ELSE IF i \in (to + 1)..from THEN items[i - 1]
                 ELSE IF i \in from..(to - 1) THEN items[i + 1]
                 ELSE items[i]]

\* The map, with the keys of these places entered anew.
Mapped(its, places) ==
  [k \in Key |-> IF \E i \in places : its[i].key = k
                 THEN CHOOSE i \in places : its[i].key = k
                 ELSE keys_map[k]]

\* A slip: UpTo stops at an item that is better, so that an equal one is passed.
UpToBetter(pos, idx, v) ==
  /\ \A i \in pos..(idx - 1) : v >= items[i].value
  /\ pos > 0 => ~ v >= items[pos - 1].value

\* The scan towards the better ranks stops at an item that v is not greater than.
UpTo(pos, idx, v) ==
  /\ \A i \in pos..(idx - 1) : v > items[i].value
  /\ pos > 0 => ~ v > items[pos - 1].value

\* The scan towards the worse ranks stops at an item that v is greater than.
DownTo(pos, idx, v) ==
  /\ \A i \in (idx + 1)..pos : ~ v > items[i].value
  /\ pos < curr_num - 1 => v > items[pos + 1].value

-----------------------------------------------------------------------------
(* Update *)

Insert(k, v) ==
  /\ ~ Has(k)
  /\ curr_num < MaxNum
  /\ \E pos \in 0..curr_num :
       /\ UpTo(pos, curr_num, v)
       /\ items' = Moved(curr_num, pos, [key |-> k, value |-> v])
       /\ keys_map' = Mapped(items', pos..curr_num)
  /\ curr_num' = curr_num + 1

\* item.Add: what the attacker has done before comes on top.
NewValue(k, v, add) == IF add THEN v + items[keys_map[k]].value ELSE v

Raise(k, w) ==
  LET idx == keys_map[k] IN
  /\ Has(k)
  /\ w > items[idx].value
  /\ \E pos \in 0..idx :
       /\ UpTo(pos, idx, w)
       /\ items' = Moved(idx, pos, [key |-> k, value |-> w])
       /\ keys_map' = Mapped(items', pos..idx)
  /\ curr_num' = curr_num

Lower(k, w) ==
  LET idx == keys_map[k] IN
  /\ Has(k)
  /\ w < items[idx].value
  /\ \E pos \in idx..(curr_num - 1) :
       /\ DownTo(pos, idx, w)
       /\ items' = Moved(idx, pos, [key |-> k, value |-> w])
       /\ keys_map' = Mapped(items', idx..pos)
  /\ curr_num' = curr_num

\* A new key finds the list full, or a key has this value already.
LeaveOut(k, v, add) ==
  /\ IF Has(k) THEN NewValue(k, v, add) = items[keys_map[k]].value ELSE curr_num >= MaxNum
  /\ UNCHANGED listVars

Update(k, v, add) ==
  \/ Insert(k, v)
  \/ /\ Has(k)
     /\ NewValue(k, v, add) <= MaxValue
     /\ Raise(k, NewValue(k, v, add)) \/ Lower(k, NewValue(k, v, add))
  \/ LeaveOut(k, v, add)

-----------------------------------------------------------------------------
(* Delete, Clear *)

Delete(k) ==
  /\ Has(k)
  /\ items' = Moved(keys_map[k], curr_num - 1, NoItem)
  /\ keys_map' = [Mapped(items', keys_map[k]..(curr_num - 2)) EXCEPT ![k] = NoIdx]
  /\ curr_num' = curr_num - 1

Clear ==
  /\ items' = [i \in Idx |-> NoItem]
  /\ curr_num' = 0
  /\ keys_map' = [k \in Key |-> NoIdx]

-----------------------------------------------------------------------------
Init ==
  /\ items = [i \in Idx |-> NoItem]
  /\ curr_num = 0
  /\ keys_map = [k \in Key |-> NoIdx]

Next ==
  \/ \E k \in Key, v \in Value, add \in BOOLEAN : Update(k, v, add)
  \/ \E k \in Key : Delete(k)
  \/ Clear

Spec == Init /\ [][Next]_listVars

-----------------------------------------------------------------------------
(* Properties *)

\* The map leads to the item of the key and the array has no other items: Update and
\* Delete find an item through the map, GetByRank through the array, and each shift has
\* to enter every item it moves.
MapLeadsToItems ==
  /\ \A k \in Key : Has(k) => keys_map[k] < curr_num /\ items[keys_map[k]].key = k
  /\ \A i \in Idx : IF i < curr_num
                    THEN items[i].key \in Key /\ keys_map[items[i].key] = i
                    ELSE items[i] = NoItem

\* The best stand first.  The scans stop at the first item that decides, which is
\* the right place only in an array that is in order.
BestFirst == \A i, j \in 0..(curr_num - 1) : i < j => items[i].value >= items[j].value

\* GetRank, and the item's value.
RankOf == [k \in Key |-> IF Has(k) THEN keys_map[k] + 1 ELSE 0]
ValueOf == [k \in Key |-> IF Has(k) THEN items[keys_map[k]].value ELSE 0]

Ranks == INSTANCE Ranking WITH rank <- RankOf, value <- ValueOf

\* Array and map keep the promise of Ranking, whatever is added, moved, deleted and
\* refused: an update moves one key to where its value belongs, behind its equals, and
\* no other key passes another.
KeepsRanking == Ranks!Spec
=============================================================================
