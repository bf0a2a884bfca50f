---------------------------- MODULE MCHashTable ----------------------------
(* A small instance of HashTable for TLC: two pairs of keys collide in the *)
(* first array, and one pair still does in the second.                     *)
EXTENDS HashTable, TLC

CONSTANTS k1, k2, k3, k4, v1, v2

Hashes == k1 :> 1 @@ k2 :> 1 @@ k3 :> 3 @@ k4 :> 7
=============================================================================
