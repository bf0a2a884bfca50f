-------------------------- MODULE MCPagedSnapshot --------------------------
(* Tables for PagedSnapshot: lengths about the capacity of a page (4072).  *)
EXTENDS PagedSnapshot, TLC

CONSTANTS a, b, c, d, e, f

Lengths == a :> 13 @@ b :> 2000 @@ c :> 2064 @@ d :> 2065 @@ e :> 4072 @@ f :> 4073
=============================================================================
