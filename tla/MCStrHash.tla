----------------------------- MODULE MCStrHash ------------------------------
(* Small instances of StrHash for TLC.                                      *)
EXTENDS StrHash, TLC

CONSTANTS k1, k2, k3

\* k1 and k2 collide at size 3 and part at size 4, where k1 meets k3.
MCHashCode == (k1 :> 0) @@ (k2 :> 6) @@ (k3 :> 4)

\* Three sizes: the table grows twice and is then at the end of the ladder.  Its
\* second growth rehashes two entries, in one chain or in two.
MCSizes == {1, 3, 4}

EntrySymmetry == Permutations(Entries)
=============================================================================
