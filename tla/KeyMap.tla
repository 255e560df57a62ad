------------------------------- MODULE KeyMap -------------------------------
(***************************************************************************)
(* What a tree of this file system is to the code above btree_write.go: a  *)
(* dictionary from keys to item data.  An operation that returns an error  *)
(* leaves the dictionary as it was.                                        *)
(***************************************************************************)
CONSTANTS
  Keys,             \* the (objectid, type, offset) keys
  Data,             \* what an item can hold
  PrefixOf(_)       \* the (objectid, type) part of a key

VARIABLE dict

Init == dict \in UNION {[K -> Data] : K \in SUBSET Keys}

Insert(k, d) ==
  /\ k \notin DOMAIN dict
  /\ dict' = [j \in DOMAIN dict \cup {k} |-> IF j = k THEN d ELSE dict[j]]

Update(k, d) ==
  /\ k \in DOMAIN dict
  /\ dict' = [dict EXCEPT ![k] = d]

Remove(K) == dict' = [j \in DOMAIN dict \ K |-> dict[j]]

Delete(k) == k \in DOMAIN dict /\ Remove({k})

DeletePrefix(p) == Remove({k \in DOMAIN dict : PrefixOf(k) = p})

Next ==
  \E k \in Keys :
    \/ \E d \in Data : Insert(k, d) \/ Update(k, d)
    \/ Delete(k)
    \/ DeletePrefix(PrefixOf(k))

Spec == Init /\ [][Next]_dict
=============================================================================
