------------------------------ MODULE TableLoad ------------------------------
(***************************************************************************)
(* What lib/strhash.c does to a table of handles whose strings are never   *)
(* told apart here: how many entries it counts, how many buckets it has,   *)
(* and the entries its growth has lost.  strhash_get links the new entry   *)
(* through the address of a bucket of the array that strhash_grow has just *)
(* freed, so the entry whose insertion makes the table grow is in no chain *)
(* afterwards, though it stays counted.  StrHash models the table itself.  *)
(***************************************************************************)
EXTENDS Integers

CONSTANTS
  Sizes,         \* the ladder of table sizes of get_table_size
  AVG_CHAIN_MAX  \* the load above which a table grows

ASSUME TableLoadAssumption ==
  /\ Sizes \subseteq Nat \ {0}
  /\ \E last \in Sizes : \A n \in Sizes : n <= last
  /\ AVG_CHAIN_MAX \in Nat \ {0}

Larger(oldsize) == {n \in Sizes : oldsize < n}

\* The next size of the ladder, or its last one when there is none.
GetTableSize(oldsize) ==
  IF Larger(oldsize) # {}
  THEN CHOOSE n \in Larger(oldsize) : \A m \in Larger(oldsize) : n <= m
  ELSE CHOOSE n \in Sizes : \A m \in Sizes : m <= n

\* strhash_create(0), as every extension calls it.  lost is the handle each
\* outgrown size has cost.
NewLoad == [entries |-> 0, size |-> GetTableSize(0), lost |-> [s \in {} |-> 0]]

\* One entry more makes the table grow.
Grows(load) ==
  /\ load.entries + 1 > AVG_CHAIN_MAX * load.size
  /\ Larger(load.size) # {}

\* strhash_get puts the handle h in the table.
Inserted(load, h) ==
  [entries |-> load.entries + 1,
   size |-> IF Grows(load) THEN GetTableSize(load.size) ELSE load.size,
   lost |-> IF Grows(load)
            THEN [s \in DOMAIN load.lost \cup {load.size} |->
                    IF s = load.size THEN h ELSE load.lost[s]]
            ELSE load.lost]

\* strhash_delete finds a handle and takes it out.
Released(load) ==
  [entries |-> load.entries - 1, size |-> load.size, lost |-> load.lost]

Lost(load) == {load.lost[s] : s \in DOMAIN load.lost}

\* The sizes a table has had before this one.
Outgrown(size) == {s \in Sizes : GetTableSize(0) <= s /\ s < size}

LoadOK(load) ==
  /\ load.entries \in Int
  /\ load.size \in Sizes /\ GetTableSize(0) <= load.size
  /\ DOMAIN load.lost \subseteq Outgrown(load.size)

=============================================================================
