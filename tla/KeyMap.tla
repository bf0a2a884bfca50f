------------------------------ MODULE KeyMap ------------------------------
(***************************************************************************)
(* What hash.h promises of a table: a finite map from keys to values, each *)
(* ht_set and ht_del taking effect at once, whatever ht_set does to the    *)
(* memory behind it.  MicroDB's `index' is such a map.                     *)
(***************************************************************************)
CONSTANTS Key, Val, None
VARIABLE content

Init == content = [k \in Key |-> None]
Set(k, v) == content' = [content EXCEPT ![k] = v]
Del(k) == content' = [content EXCEPT ![k] = None]

Next == \E k \in Key : Del(k) \/ \E v \in Val : Set(k, v)
Spec == Init /\ [][Next]_content
=============================================================================
