------------------------------- MODULE Ranking -------------------------------
(***************************************************************************)
(* What a rank list of the hall server promises, without the array and the *)
(* map that keep the promise: everybody in it has a value and a rank, the  *)
(* higher value the better rank, and whoever comes to a value that others  *)
(* have already stands behind them. ShortRankList implements this module.  *)
(***************************************************************************)
EXTENDS Integers

CONSTANTS
  Key,      \* the keys of the items: roles, attackers
  MaxNum,   \* the places of the list
  MaxValue  \* bound: a value

VARIABLES
  value,  \* key -> its value, 0 for a key that is not ranked
  rank    \* key -> its rank from 1, 0 for a key that is not ranked

rankingVars == <<value, rank>>

Ranked == {k \in Key : rank[k] # 0}
Full == \A r \in 1..MaxNum : \E k \in Key : rank[k] = r

TypeOK ==
  /\ value \in [Key -> 0..MaxValue]
  /\ rank \in [Key -> 0..MaxNum]

\* The ranks are 1, 2, 3 ... with nobody beside another.
NoTies == \A j, k \in Ranked : rank[j] = rank[k] => j = k
NoGaps == \A k \in Ranked : rank[k] > 1 => \E j \in Ranked : rank[j] = rank[k] - 1

KeepOrder(keys) == \A j, k \in keys : rank'[j] < rank'[k] <=> rank[j] < rank[k]

-----------------------------------------------------------------------------
\* A key comes to another value, or into the list while there is a place.
Put(k, v) ==
  /\ k \in Ranked => v # value[k]
  /\ k \notin Ranked => ~ Full
  /\ value' = [value EXCEPT ![k] = v]
  /\ Ranked' = Ranked \cup {k}
  /\ KeepOrder(Ranked \ {k})
  /\ \A j \in Ranked \ {k} : rank'[j] < rank'[k] <=> value[j] >= v

Take(k) ==
  /\ k \in Ranked
  /\ value' = [value EXCEPT ![k] = 0]
  /\ Ranked' = Ranked \ {k}
  /\ KeepOrder(Ranked')

Empty ==
  /\ value' = [k \in Key |-> 0]
  /\ Ranked' = {}

Init == value = [k \in Key |-> 0] /\ rank = [k \in Key |-> 0]

\* Whatever happens, keys, values or ranks are others then.
Next ==
  /\ rankingVars' # rankingVars
  /\ \/ \E k \in Key, v \in 0..MaxValue : Put(k, v)
     \/ \E k \in Key : Take(k)
     \/ Empty
  /\ TypeOK' /\ NoTies' /\ NoGaps'

Spec == Init /\ [][Next]_rankingVars
=============================================================================
