------------------------------- MODULE StrMap -------------------------------
(***************************************************************************)
(* What lib/gawkextlib.h promises of a string hash table: a partial map    *)
(* from strings to the data pointer of the caller.  strhash_get finds or   *)
(* creates an entry and returns it, the caller then stores its pointer in  *)
(* the entry, strhash_delete removes the entry, strhash_destroy removes    *)
(* them all.  Nothing here says how the entries are stored: StrHash does.  *)
(***************************************************************************)
EXTENDS Naturals

CONSTANTS Keys,   \* the strings used as keys
          Data,   \* the pointers a caller may store
          NULL    \* the C null pointer

VARIABLES map,        \* the present keys and the data of each
          result,     \* the key of the entry the last call returned, or NULL
          destroyed   \* whether strhash_destroy has been called

mapVars == <<map, result, destroyed>>

MapTypeOK ==
  /\ DOMAIN map \subseteq Keys
  /\ map \in [DOMAIN map -> Data \cup {NULL}]
  /\ result \in DOMAIN map \cup {NULL}
  /\ destroyed \in BOOLEAN

MapInit ==
  /\ map = [s \in {} |-> NULL]
  /\ result = NULL
  /\ destroyed = FALSE

\* strhash_get of a key that is present.
MapFind(s) ==
  /\ ~destroyed
  /\ s \in DOMAIN map
  /\ result' = s
  /\ UNCHANGED <<map, destroyed>>

\* strhash_get of an absent key without insert_if_missing.
MapMiss(s) ==
  /\ ~destroyed
  /\ s \notin DOMAIN map
  /\ result' = NULL
  /\ UNCHANGED <<map, destroyed>>

\* strhash_get of an absent key with insert_if_missing: its data is NULL.
MapInsert(s) ==
  /\ ~destroyed
  /\ s \notin DOMAIN map
  /\ map' = [t \in DOMAIN map \cup {s} |-> IF t = s THEN NULL ELSE map[t]]
  /\ result' = s
  /\ UNCHANGED destroyed

\* The same without what gawkextlib.h promises: the caller is given an entry,
\* but the table does not contain it.
MapInsertLost(s) ==
  /\ ~destroyed
  /\ s \notin DOMAIN map
  /\ result' = s
  /\ UNCHANGED <<map, destroyed>>

\* The caller stores a pointer in the entry it was given.
MapSetData(d) ==
  /\ ~destroyed
  /\ result # NULL
  /\ map' = [map EXCEPT ![result] = d]
  /\ UNCHANGED <<result, destroyed>>

\* strhash_delete of a key that is present.
MapDelete(s) ==
  /\ ~destroyed
  /\ s \in DOMAIN map
  /\ map' = [t \in DOMAIN map \ {s} |-> map[t]]
  /\ result' = NULL
  /\ UNCHANGED destroyed

\* strhash_destroy.
MapDestroy ==
  /\ ~destroyed
  /\ map' = [s \in {} |-> NULL]
  /\ result' = NULL
  /\ destroyed' = TRUE

MapNext ==
  \/ \E s \in Keys : MapFind(s) \/ MapMiss(s) \/ MapInsert(s) \/ MapDelete(s)
  \/ \E d \in Data : MapSetData(d)
  \/ MapDestroy

MapSpec == MapInit /\ [][MapNext]_mapVars

LossyMapSpec ==
  MapInit /\ [][MapNext \/ \E s \in Keys : MapInsertLost(s)]_mapVars
=============================================================================
