--------------------------- MODULE MCLmdbHandles ----------------------------
(* Small instances of LmdbHandles for TLC.                                 *)
EXTENDS LmdbHandles, TLC

AddressSymmetry ==
  Permutations(Envs) \cup Permutations(Txns) \cup Permutations(Cursors)
=============================================================================
