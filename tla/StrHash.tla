------------------------------ MODULE StrHash -------------------------------
(***************************************************************************)
(* The string hash table of lib/strhash.c, on which the handle tables of   *)
(* lmdb, pgsql, gd and haru and the regular expression cache of aregex are *)
(* built.  An entry is a heap object with an identity, because the code    *)
(* hands out pointers to entries; a chain is the set of its entries, since *)
(* the order within a chain is not observable while keys are unique.       *)
(*                                                                         *)
(* strhash_get computes the address of the bucket BEFORE it may grow the   *)
(* table, and strhash_grow frees the bucket array: the new entry is then   *)
(* linked through a pointer into freed memory.  Whatever that write hits,  *)
(* no chain of the new array contains the entry.  The model keeps such an  *)
(* entry allocated and unlinked (see Orphans).                             *)
(***************************************************************************)
EXTENDS TableLoad, FiniteSets

CONSTANTS
  Keys,          \* the strings used as keys
  Data,          \* the pointers callers store in entries
  Entries,       \* the entry objects malloc can return: bounds the live ones
  NULL,          \* the C null pointer
  HashCode,      \* the value my_hash computes before reducing it to the size
  MinTableSize   \* the argument of strhash_create

ASSUME StrHashAssumption ==
  /\ NULL \notin Keys \cup Data \cup Entries
  /\ HashCode \in [Keys -> Nat]
  /\ IsFiniteSet(Entries)
  /\ MinTableSize \in Nat

VARIABLES
  index,       \* ht_index: the chain of each bucket
  index_size,  \* number of buckets
  entries,     \* the table's own count of its entries (size_t)
  size_maxed,  \* set once the ladder of sizes is exhausted
  ent,         \* the allocated entries: key and data of each
  deleting,    \* entries unlinked by a delete whose callback still runs
  ret,         \* the pointer the last call returned to its caller
  phase        \* "live", "destroying" or "freed"

vars == <<index, index_size, entries, size_maxed, ent, deleting, ret, phase>>

-----------------------------------------------------------------------------
(* Hashing and chains.                                                     *)

Hash(s, size) == HashCode[s] % size

Buckets(size) == 0 .. (size - 1)

Linked == {e \in Entries : \E b \in Buckets(index_size) : e \in index[b]}

\* The entry of the chain of s whose string is s (STREQNN), if there is one.
Matching(s) == {e \in index[Hash(s, index_size)] : ent[e].key = s}

\* Allocated entries no chain contains although nobody deleted them.
Orphans == DOMAIN ent \ (Linked \cup deleting)

\* Mutant of Rehash: each chain keeps its bucket number in the new array.
RehashInPlace(newsize) ==
  [b \in Buckets(newsize) |->
     IF b < index_size THEN index[b] ELSE {}]

\* Mutant of Rehash: ent->next is read after it was overwritten, so that only
\* one entry of each old chain reaches the new array.
RehashHeads(newsize) ==
  [b \in Buckets(newsize) |->
     {e \in Linked :
        /\ Hash(ent[e].key, newsize) = b
        /\ e = CHOOSE f \in index[Hash(ent[e].key, index_size)] : TRUE}]

\* Every entry of the old chains moved to its bucket in a larger array.
Rehash(newsize) ==
  [b \in Buckets(newsize) |-> {e \in Linked : Hash(ent[e].key, newsize) = b}]

-----------------------------------------------------------------------------
TypeOK ==
  /\ index_size \in Sizes
  /\ index \in [Buckets(index_size) -> SUBSET Entries]
  /\ entries \in Nat
  /\ size_maxed \in BOOLEAN
  /\ DOMAIN ent \subseteq Entries
  /\ ent \in [DOMAIN ent -> [key : Keys, data : Data \cup {NULL}]]
  /\ deleting \subseteq DOMAIN ent
  /\ ret \in (DOMAIN ent \ deleting) \cup {NULL}
  /\ phase \in {"live", "destroying", "freed"}
  /\ phase # "live" => ret = NULL

Init ==
  /\ index_size = GetTableSize(MinTableSize)
  /\ index = [b \in Buckets(index_size) |-> {}]
  /\ entries = 0
  /\ size_maxed = FALSE
  /\ ent = [e \in {} |-> [key |-> NULL, data |-> NULL]]
  /\ deleting = {}
  /\ ret = NULL
  /\ phase = "live"

-----------------------------------------------------------------------------
(* strhash_get                                                             *)

\* The key is in its chain: the entry is returned.
Find(s) ==
  /\ phase = "live"
  /\ ret' \in Matching(s)
  /\ UNCHANGED <<index, index_size, entries, size_maxed, ent, deleting, phase>>

\* The key is absent and the caller did not ask for it: NULL.
Miss(s) ==
  /\ phase = "live"
  /\ Matching(s) = {}
  /\ ret' = NULL
  /\ UNCHANGED <<index, index_size, entries, size_maxed, ent, deleting, phase>>

\* Mutant of Overloaded: the entry being inserted is not counted.
OverloadedLate == ~size_maxed /\ entries > AVG_CHAIN_MAX * index_size

\* Whether counting one more entry makes strhash_get call strhash_grow.
Overloaded == ~size_maxed /\ entries + 1 > AVG_CHAIN_MAX * index_size

Allocate(e, s) ==
  ent' = [f \in DOMAIN ent \cup {e} |->
            IF f = e THEN [key |-> s, data |-> NULL] ELSE ent[f]]

\* Mutant of InsertLinked: the new entry replaces its chain.
InsertReplacing(s, e) ==
  /\ phase = "live"
  /\ Matching(s) = {}
  /\ ~(Overloaded /\ GetTableSize(index_size) > index_size)
  /\ size_maxed' = (size_maxed \/ Overloaded)
  /\ index' = [index EXCEPT ![Hash(s, index_size)] = {e}]
  /\ Allocate(e, s)
  /\ entries' = entries + 1
  /\ ret' = e
  /\ UNCHANGED <<index_size, deleting, phase>>

\* Mutant of InsertLinked: an entry is inserted without a search of its chain.
InsertUnsearched(s, e) ==
  /\ phase = "live"
  /\ ~(Overloaded /\ GetTableSize(index_size) > index_size)
  /\ size_maxed' = (size_maxed \/ Overloaded)
  /\ index' = [index EXCEPT ![Hash(s, index_size)] = @ \cup {e}]
  /\ Allocate(e, s)
  /\ entries' = entries + 1
  /\ ret' = e
  /\ UNCHANGED <<index_size, deleting, phase>>

\* Mutant of InsertLinked: the entry is not counted, and the count wraps below
\* zero when it is deleted.
InsertUncounted(s, e) ==
  /\ phase = "live"
  /\ Matching(s) = {}
  /\ ~(Overloaded /\ GetTableSize(index_size) > index_size)
  /\ size_maxed' = (size_maxed \/ Overloaded)
  /\ index' = [index EXCEPT ![Hash(s, index_size)] = @ \cup {e}]
  /\ Allocate(e, s)
  /\ ret' = e
  /\ UNCHANGED <<index_size, entries, deleting, phase>>

\* The bucket pointer is still valid: the entry is linked in its chain.
\* strhash_grow that finds no larger size only sets size_maxed.
InsertLinked(s, e) ==
  /\ phase = "live"
  /\ Matching(s) = {}
  /\ ~(Overloaded /\ GetTableSize(index_size) > index_size)
  /\ size_maxed' = (size_maxed \/ Overloaded)
  /\ index' = [index EXCEPT ![Hash(s, index_size)] = @ \cup {e}]
  /\ Allocate(e, s)
  /\ entries' = entries + 1
  /\ ret' = e
  /\ UNCHANGED <<index_size, deleting, phase>>

\* The table grows: every old entry is rehashed, the bucket array is freed and
\* the new entry is linked through the pointer into it.
InsertGrow(s, e) ==
  LET newsize == GetTableSize(index_size) IN
  /\ phase = "live"
  /\ Matching(s) = {}
  /\ Overloaded /\ newsize > index_size
  /\ index_size' = newsize
  /\ index' = Rehash(newsize)
  /\ Allocate(e, s)
  /\ entries' = entries + 1
  /\ ret' = e
  /\ UNCHANGED <<size_maxed, deleting, phase>>

\* The caller stores its pointer in the entry it was given.
SetData(d) ==
  /\ phase = "live"
  /\ ret # NULL
  /\ ent' = [ent EXCEPT ![ret].data = d]
  /\ UNCHANGED <<index, index_size, entries, size_maxed, deleting, ret, phase>>

-----------------------------------------------------------------------------
(* strhash_delete and strhash_destroy.  Both unlink an entry, call the     *)
(* caller's function on it and then free it; during the call of            *)
(* strhash_delete the table may be used again.                             *)

Unlink(e) == index' = [b \in Buckets(index_size) |-> index[b] \ {e}]

\* Mutant of DeleteUnlink: the table's count is not decremented.
DeleteUncounted(s) ==
  /\ phase = "live"
  /\ \E e \in Matching(s) :
       /\ Unlink(e)
       /\ deleting' = deleting \cup {e}
  /\ ret' = NULL
  /\ UNCHANGED <<index_size, entries, size_maxed, ent, phase>>

DeleteUnlink(s) ==
  /\ phase = "live"
  /\ \E e \in Matching(s) :
       /\ Unlink(e)
       /\ deleting' = deleting \cup {e}
  /\ entries' = entries - 1
  /\ ret' = NULL
  /\ UNCHANGED <<index_size, size_maxed, ent, phase>>

\* The callback of an entry returned: the entry is freed.
FreeEntry(e) ==
  /\ e \in deleting
  /\ deleting' = deleting \ {e}
  /\ ent' = [f \in DOMAIN ent \ {e} |-> ent[f]]
  /\ UNCHANGED <<index, index_size, entries, size_maxed, ret, phase>>

\* No delete is in progress when the table is destroyed.
DestroyBegin ==
  /\ phase = "live"
  /\ deleting = {}
  /\ phase' = "destroying"
  /\ ret' = NULL
  /\ UNCHANGED <<index, index_size, entries, size_maxed, ent, deleting>>

\* The entry at the head of the first non-empty chain is unlinked.
DestroyUnlink(e) ==
  /\ phase = "destroying"
  /\ deleting = {}
  /\ \E b \in Buckets(index_size) :
       /\ e \in index[b]
       /\ \A c \in Buckets(index_size) : c < b => index[c] = {}
  /\ Unlink(e)
  /\ deleting' = {e}
  /\ UNCHANGED <<index_size, entries, size_maxed, ent, ret, phase>>

\* All chains are empty: the bucket array and the table itself are freed.
DestroyEnd ==
  /\ phase = "destroying"
  /\ deleting = {}
  /\ Linked = {}
  /\ phase' = "freed"
  /\ UNCHANGED <<index, index_size, entries, size_maxed, ent, deleting, ret>>

Next ==
  \/ \E s \in Keys : Find(s) \/ Miss(s) \/ DeleteUnlink(s)
  \/ \E s \in Keys, e \in Entries \ DOMAIN ent :
       InsertLinked(s, e) \/ InsertGrow(s, e)
  \/ \E d \in Data : SetData(d)
  \/ \E e \in Entries : FreeEntry(e) \/ DestroyUnlink(e)
  \/ DestroyBegin
  \/ DestroyEnd

Spec == Init /\ [][Next]_vars

-----------------------------------------------------------------------------
(* Properties.                                                             *)

\* Every entry a chain contains is an allocated entry that no delete has
\* taken, and lies in the bucket its string hashes to under the current size:
\* strhash_get searches that bucket only, so an entry anywhere else could never
\* be found, deleted or replaced again (strhash.c rehashes on growth).
ChainsWellPlaced ==
  \A b \in Buckets(index_size) : \A e \in index[b] :
    /\ e \in DOMAIN ent
    /\ e \notin deleting
    /\ Hash(ent[e].key, index_size) = b

\* No two entries of the table have the same string, whatever was lost or
\* deleted before: strhash_get inserts only what its search did not find.
UniqueKeys ==
  \A e, f \in Linked : ent[e].key = ent[f].key => e = f

\* The table's count is the number of entries callers own: it counts the lost
\* ones too, so each lost entry brings the next growth forward for good.
EntriesCounted ==
  phase = "live" => entries = Cardinality(DOMAIN ent \ deleting)

\* A table that can still grow never holds more than AVG_CHAIN_MAX entries per
\* bucket: a call of strhash_get that crosses the limit grows the table or
\* finds it at its last size.
LoadBounded ==
  phase = "live" /\ ~size_maxed => entries <= AVG_CHAIN_MAX * index_size

\* The sizes the table has had before the one it has.
SizesOutgrown == {n \in Sizes : GetTableSize(MinTableSize) <= n /\ n < index_size}

\* At most one entry is lost per size the table has outgrown: growth loses the
\* entry being inserted and no other.
OneLossPerGrowth == Cardinality(Orphans) <= Cardinality(SizesOutgrown)

\* A chain loses an entry only to a delete, which hands it to its callback:
\* growth, insertion, lookup and stores of data keep every linked entry linked.
OnlyDeleteUnlinks ==
  [][(Linked \ Linked') \subseteq deleting']_vars

\* What TableLoad says of a table to the modules that use one: a table counts
\* the entry it inserts, whether or not its growth loses it, the entry is lost
\* only if the table goes on to the next of its sizes, and a delete takes one
\* entry off the count and leaves the size alone.
User == [entries |-> entries, size |-> index_size, lost |-> [s \in {} |-> 0]]

SizedAs(load) == entries' = load.entries /\ index_size' = load.size

LoadsAsUsersSee ==
  [][ /\ \A e \in DOMAIN ent' \ DOMAIN ent :
           /\ SizedAs(Inserted(User, ent'[e].key))
           /\ e \in Linked' <=> ~Grows(User)
      /\ \A e \in deleting' \ deleting :
           phase' = "live" => SizedAs(Released(User))
      /\ (DOMAIN ent' \subseteq DOMAIN ent /\ deleting' \subseteq deleting)
           => SizedAs(User) ]_vars

\* gawkextlib.h: "If it is not found, the insert_if_missing argument indicates
\* whether a new entry should be created", in the hash table: what was created
\* and not deleted is in the table.
InsertedIsInTable == phase = "live" => Orphans = {}

-----------------------------------------------------------------------------
(* The abstract map the table implements.                                  *)

PresentKeys == {ent[e].key : e \in Linked}

mapBar ==
  IF phase = "live"
  THEN [s \in PresentKeys |-> ent[CHOOSE e \in Linked : ent[e].key = s].data]
  ELSE [s \in {} |-> NULL]

resultBar == IF ret = NULL THEN NULL ELSE ent[ret].key

StrMapOf == INSTANCE StrMap WITH
  map <- mapBar, result <- resultBar, destroyed <- (phase # "live")

\* The table is the map of gawkextlib.h but for the entries it loses: each
\* lookup, insertion, store and delete has the effect of its counterpart on the
\* map, and growing changes nothing else.
ImplementsLossyMap == StrMapOf!LossyMapSpec
=============================================================================
