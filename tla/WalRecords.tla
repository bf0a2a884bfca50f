----------------------------- MODULE WalRecords -----------------------------
(***************************************************************************)
(* What a sequence of WAL records means: the map that on_set_cb and        *)
(* on_del_cb build from it.  Replay is a loop in the code (the actions of  *)
(* MicroDB run it record by record); here its result is defined without    *)
(* recursion, as the last record of each key.                              *)
(***************************************************************************)
EXTENDS Integers, Sequences

CONSTANTS
  Key,   \* keys of records
  Val,   \* payloads, with the metadata written beside them
  None   \* no record: a deleted or absent key

ASSUME NoneAssumption == None \notin Val

Rec == [key : Key, val : Val \cup {None}]   \* WAL_SET, or WAL_DEL as val = None
Map == [Key -> Val \cup {None}]
EmptyMap == [k \in Key |-> None]

\* The positions of the records of w that write key k.
WritesOf(w, k) == {i \in 1..Len(w) : w[i].key = k}

LastOf(S) == CHOOSE i \in S : \A j \in S : j <= i

\* The map that replaying w over m yields: a later record wins.
Replayed(m, w) ==
  [k \in Key |-> IF WritesOf(w, k) = {} THEN m[k]
                 ELSE w[LastOf(WritesOf(w, k))].val]

\* What applying one record does.
Applied(m, r) == [m EXCEPT ![r.key] = r.val]

FirstRecs(w, n) == SubSeq(w, 1, n)
=============================================================================
