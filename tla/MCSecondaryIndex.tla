------------------------- MODULE MCSecondaryIndex -------------------------
(* Small instances of SecondaryIndex for TLC. *)
EXTENDS SecondaryIndex, TLC

CONSTANTS k1, k2, notes, tasks, text, json

Symmetry == Permutations({k1, k2}) \cup Permutations({notes, tasks}) \cup Permutations({text, json})
=============================================================================
