----------------------------- MODULE MCMicroDB -----------------------------
(* Small instances of MicroDB for TLC. *)
EXTENDS MicroDB, TLC

CONSTANTS k1, k2, inline, blob

OneKeyTwoPayloads == {<<k1, inline>>, <<k1, blob>>}
BlobBesideInline == {<<k1, blob>>, <<k2, inline>>}
InlineOnly == {<<k1, inline>>, <<k2, inline>>}

KeySymmetry == Permutations({k1, k2})
=============================================================================
