------------------------------- MODULE KeyMap --------------------------------
(***************************************************************************)
(* What the hash maps and the sets promise (the comments of                *)
(* include/fb/unordered_map.hpp, include/fb/no_delete_unordered_map.hpp,   *)
(* include/disk/offset_lookup.hpp, include/fb/unordered_set.hpp and        *)
(* include/fb/set.hpp): a partial function from keys to values, and what   *)
(* each operation returns.  A set maps each of its keys to itself.         *)
(***************************************************************************)
EXTENDS Naturals, TLC

CONSTANTS Keys, Values,
          Default,    \* V{}
          Absent,     \* end(), or out_of_range
          NoResult

VARIABLES map,      \* the partial function
          result    \* what the last operation returned

vars == <<map, result>>

Has(k) == k \in DOMAIN map

With(k, v) == (k :> v) @@ map

Init == map = <<>> /\ result = NoResult

(* The last call was op of key k, and it returned v.                       *)
Returns(op, k, v) == result' = <<op, k, v>>

Calls(op, k) == result' # NoResult /\ result'[1] = op /\ result'[2] = k

(* find and at                                                             *)
Find(k) ==
  Calls("find", k) /\ Returns("find", k, IF Has(k) THEN map[k] ELSE Absent) /\ map' = map

(* A value that is there is kept, and insert returns end(), or FALSE...    *)
Insert(k, v) ==
  /\ Calls("insert", k)
  /\ IF Has(k) THEN Returns("insert", k, Absent) /\ map' = map
     ELSE Returns("insert", k, v) /\ map' = With(k, v)

(* ... or where it is.                                                     *)
FindOrAdd(op, k, v) ==
  /\ Calls(op, k)
  /\ IF Has(k) THEN Returns(op, k, map[k]) /\ map' = map
     ELSE Returns(op, k, v) /\ map' = With(k, v)

(* map[k] = v                                                              *)
Assign(k, v) == Returns("assign", k, v) /\ map' = With(k, v)

(* An absent key gets a value that no other key has.                       *)
Intern(k, v) ==
  /\ FindOrAdd("intern", k, v)
  /\ Has(k) \/ \A other \in DOMAIN map : map[other] # v

Erase(k) ==
  /\ Returns("erase", k, IF Has(k) THEN 1 ELSE 0)
  /\ map' = [other \in DOMAIN map \ {k} |-> map[other]]

(* convert_to_vector takes everything out.                                 *)
Convert ==
  /\ result' # NoResult /\ result'[1] = "vector"
  /\ Returns("vector", Absent, {<<k, map[k]>> : k \in DOMAIN map})
  /\ map' = <<>>

Rehash == result' = NoResult /\ map' = map

Clear == result' = <<"clear">> /\ map' = <<>>

Next ==
  \/ Rehash \/ Clear \/ Convert
  \/ \E k \in Keys : Find(k) \/ FindOrAdd("index", k, Default) \/ Erase(k)
  \/ \E k \in Keys, v \in Values :
       Insert(k, v) \/ FindOrAdd("put", k, v) \/ Intern(k, v) \/ Assign(k, v)

Spec == Init /\ [][Next]_vars

=============================================================================
