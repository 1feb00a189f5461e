--------------------------- MODULE StrHashProofs ----------------------------
(***************************************************************************)
(* Proofs about StrHash, for every set of keys, hash function, ladder of   *)
(* sizes and load factor.  IInv is the inductive invariant: the safety     *)
(* properties of the table support one another.                            *)
(***************************************************************************)
EXTENDS StrHash, FiniteSetTheorems, WellFoundedInduction, TLAPS

-----------------------------------------------------------------------------
(* The ladder of sizes.                                                    *)

\* A nonempty set of naturals has a least element.
LEMMA LeastNatural ==
  ASSUME NEW T, T \subseteq Nat, T # {}
  PROVE  \E x \in T : \A y \in T : x <= y
<1>1. IsWellFoundedOn(OpToRel(<, Nat), Nat)
  BY NatLessThanWellFounded
<1>2. PICK x \in T : \A y \in T : ~(<<y, x>> \in OpToRel(<, Nat))
  BY <1>1, WFMin
<1>3. \A y \in T : ~(y < x)
  BY <1>2 DEF OpToRel
<1>. QED
  BY <1>3

\* get_table_size returns a size of the ladder, and a larger one unless the
\* ladder has none.
LEMMA TableSizes ==
  ASSUME NEW n \in Nat
  PROVE  /\ GetTableSize(n) \in Sizes
         /\ GetTableSize(n) \in Nat \ {0}
<1>1. CASE Larger(n) # {}
  <2>1. \E x \in Larger(n) : \A y \in Larger(n) : x <= y
    BY <1>1, LeastNatural, TableLoadAssumption DEF Larger
  <2>2. GetTableSize(n) \in Larger(n)
    BY <1>1, <2>1 DEF GetTableSize
  <2>. QED
    BY <2>2, TableLoadAssumption DEF Larger
<1>2. CASE Larger(n) = {}
  <2>1. \E x \in Sizes : \A y \in Sizes : y <= x
    BY TableLoadAssumption
  <2>2. GetTableSize(n) \in Sizes
    BY <1>2, <2>1 DEF GetTableSize
  <2>. QED
    BY <2>2, TableLoadAssumption
<1>. QED
  BY <1>1, <1>2

\* A hash value is a bucket.
LEMMA HashInBuckets ==
  ASSUME NEW s \in Keys, NEW n \in Nat \ {0}
  PROVE  Hash(s, n) \in Buckets(n)
<1>1. HashCode[s] \in Nat
  BY StrHashAssumption
<1>2. HashCode[s] % n \in 0 .. (n - 1)
  BY <1>1
<1>. QED
  BY <1>2 DEF Hash, Buckets

-----------------------------------------------------------------------------
(* The inductive invariant.  Each property needs the others: an entry keeps *)
(* its key unique because lookups find what is well placed, the count moves *)
(* with the entries because an entry taken by a delete was allocated, and   *)
(* the load stays bounded because the size only grows.                      *)

SizeOnlyGrows == GetTableSize(MinTableSize) <= index_size

IInv ==
  /\ TypeOK
  /\ ChainsWellPlaced
  /\ UniqueKeys
  /\ EntriesCounted
  /\ LoadBounded
  /\ SizeOnlyGrows
  /\ OneLossPerGrowth

\* Consequences of the type invariant used by every step.
LEMMA TypeFacts ==
  ASSUME TypeOK
  PROVE  /\ index_size \in Nat \ {0}
         /\ IsFiniteSet(DOMAIN ent)
         /\ IsFiniteSet(Orphans)
         /\ \A e \in DOMAIN ent : ent[e].key \in Keys
         /\ \A b \in Buckets(index_size) : index[b] \subseteq Entries
<1>1. index_size \in Nat \ {0}
  BY TableLoadAssumption DEF TypeOK
<1>2. IsFiniteSet(DOMAIN ent)
  BY FS_Subset, StrHashAssumption DEF TypeOK
<1>3. IsFiniteSet(Orphans)
  <2>1. Orphans \in SUBSET DOMAIN ent
    BY DEF Orphans
  <2>. QED
    BY <1>2, <2>1, FS_Subset
<1>4. \A e \in DOMAIN ent : ent[e].key \in Keys
  BY DEF TypeOK
<1>5. \A b \in Buckets(index_size) : index[b] \subseteq Entries
  BY DEF TypeOK
<1>. QED
  BY <1>1, <1>2, <1>3, <1>4, <1>5

\* What the search of a chain finds is linked, allocated and not being deleted.
LEMMA MatchingFacts ==
  ASSUME TypeOK, ChainsWellPlaced, NEW s \in Keys
  PROVE  /\ Matching(s) \subseteq Linked
         /\ \A e \in Matching(s) :
              e \in DOMAIN ent /\ e \notin deleting /\ ent[e].key = s
         /\ \A e \in Linked : ent[e].key = s => e \in Matching(s)
<1>1. Hash(s, index_size) \in Buckets(index_size)
  BY TypeFacts, HashInBuckets
<1>2. \A e \in Matching(s) : e \in Entries /\ e \in Linked
  BY <1>1, TypeFacts DEF Matching, Linked
<1>3. \A e \in Matching(s) :
        e \in DOMAIN ent /\ e \notin deleting /\ ent[e].key = s
  BY <1>1 DEF Matching, ChainsWellPlaced
<1>4. \A e \in Linked : ent[e].key = s => e \in Matching(s)
  BY DEF Linked, Matching, ChainsWellPlaced
<1>. QED
  BY <1>2, <1>3, <1>4

\* Linked entries are allocated and no delete has taken them.
LEMMA LinkedFacts ==
  ASSUME TypeOK, ChainsWellPlaced
  PROVE  Linked \subseteq DOMAIN ent \ deleting
BY DEF Linked, ChainsWellPlaced

-----------------------------------------------------------------------------
(* Initial state.                                                          *)

LEMMA InitIInv == Init => IInv
<1>. SUFFICES ASSUME Init PROVE IInv
  OBVIOUS
<1>1. index_size \in Sizes /\ index_size \in Nat \ {0}
  BY TableSizes, StrHashAssumption, TableLoadAssumption DEF Init
<1>2. /\ DOMAIN ent = {}
      /\ \A b \in Buckets(index_size) : index[b] = {}
      /\ Linked = {}
      /\ Orphans = {}
  BY DEF Init, Linked, Orphans
<1>3. TypeOK
  BY <1>1, <1>2 DEF Init, TypeOK
<1>4. ChainsWellPlaced /\ UniqueKeys
  BY <1>2 DEF ChainsWellPlaced, UniqueKeys
<1>5. EntriesCounted
  <2>1. DOMAIN ent \ deleting = {}
    BY <1>2
  <2>. QED
    BY <2>1, FS_EmptySet DEF Init, EntriesCounted
<1>6. LoadBounded
  <2>1. AVG_CHAIN_MAX * index_size \in Nat
    BY <1>1, TableLoadAssumption
  <2>. QED
    BY <2>1 DEF Init, LoadBounded
<1>7. SizeOnlyGrows
  BY <1>1 DEF Init, SizeOnlyGrows
<1>8. OneLossPerGrowth
  <2>1. index_size = GetTableSize(MinTableSize)
    BY DEF Init
  <2>2. ASSUME NEW n \in SizesOutgrown PROVE FALSE
    <3>1. n \in Nat /\ index_size <= n /\ n < index_size
      BY <2>1, <2>2, TableLoadAssumption DEF SizesOutgrown
    <3>. QED
      BY <1>1, <3>1
  <2>3. Cardinality(Orphans) = 0 /\ Cardinality(SizesOutgrown) = 0
    BY <1>2, <2>2, FS_EmptySet
  <2>4. Cardinality(Orphans) <= Cardinality(SizesOutgrown)
    BY <2>3
  <2>. QED
    BY <2>4 DEF OneLossPerGrowth
<1>. QED
  BY <1>3, <1>4, <1>5, <1>6, <1>7, <1>8 DEF IInv

-----------------------------------------------------------------------------
(* Steps that leave the chains alone.                                      *)

\* Lookups only choose the pointer that is returned.
LEMMA LookupStep ==
  ASSUME IInv, NEW s \in Keys, Find(s) \/ Miss(s)
  PROVE  IInv'
<1>1. TypeOK /\ ChainsWellPlaced
  BY DEF IInv
<1>2. UNCHANGED <<index, index_size, entries, size_maxed, ent, deleting, phase>>
  BY DEF Find, Miss
<1>3. ret' \in (DOMAIN ent \ deleting) \cup {NULL}
  BY <1>1, MatchingFacts DEF Find, Miss
<1>4. phase' = "live"
  BY DEF Find, Miss
<1>5. TypeOK'
  BY <1>1, <1>2, <1>3, <1>4 DEF TypeOK
<1>6. Linked' = Linked /\ Orphans' = Orphans
  BY <1>2 DEF Linked, Orphans
<1>. QED
  BY <1>2, <1>5, <1>6 DEF IInv, ChainsWellPlaced, UniqueKeys, EntriesCounted,
     LoadBounded, SizeOnlyGrows, OneLossPerGrowth, SizesOutgrown

\* Storing data changes no key.
LEMMA SetDataStep ==
  ASSUME IInv, NEW d \in Data, SetData(d)
  PROVE  IInv'
<1>1. TypeOK /\ ret \in DOMAIN ent
  BY DEF IInv, TypeOK, SetData
<1>2. UNCHANGED <<index, index_size, entries, size_maxed, deleting, ret, phase>>
  BY DEF SetData
<1>3. DOMAIN ent' = DOMAIN ent /\ \A e \in DOMAIN ent : ent'[e].key = ent[e].key
  BY <1>1 DEF SetData, TypeOK
<1>4. ent' \in [DOMAIN ent' -> [key : Keys, data : Data \cup {NULL}]]
  BY <1>1 DEF SetData, TypeOK
<1>5. TypeOK'
  BY <1>1, <1>2, <1>3, <1>4 DEF TypeOK
<1>6. Linked' = Linked /\ Orphans' = Orphans
  BY <1>2, <1>3 DEF Linked, Orphans
<1>7. Linked \subseteq DOMAIN ent
  BY LinkedFacts DEF IInv
<1>8. ChainsWellPlaced'
  BY <1>2, <1>3 DEF IInv, ChainsWellPlaced, Hash
<1>9. UniqueKeys'
  BY <1>3, <1>6, <1>7 DEF IInv, UniqueKeys
<1>. QED
  BY <1>2, <1>3, <1>5, <1>6, <1>8, <1>9 DEF IInv, EntriesCounted,
     LoadBounded, SizeOnlyGrows, OneLossPerGrowth, SizesOutgrown

-----------------------------------------------------------------------------
(* Insertion.                                                              *)

\* What Allocate does to the heap.
LEMMA AllocateFacts ==
  ASSUME TypeOK, NEW s \in Keys, NEW e \in Entries \ DOMAIN ent, Allocate(e, s)
  PROVE  /\ DOMAIN ent' = DOMAIN ent \cup {e}
         /\ ent' \in [DOMAIN ent' -> [key : Keys, data : Data \cup {NULL}]]
         /\ ent'[e].key = s
         /\ \A f \in DOMAIN ent : ent'[f] = ent[f]
<1>1. /\ DOMAIN ent' = DOMAIN ent \cup {e}
      /\ \A f \in DOMAIN ent' :
           ent'[f] = IF f = e THEN [key |-> s, data |-> NULL] ELSE ent[f]
  BY DEF Allocate
<1>2. \A f \in DOMAIN ent : ent[f] \in [key : Keys, data : Data \cup {NULL}]
  BY DEF TypeOK
<1>3. \A f \in DOMAIN ent' : ent'[f] \in [key : Keys, data : Data \cup {NULL}]
  BY <1>1, <1>2
<1>4. ent' = [f \in DOMAIN ent' |-> ent'[f]]
  BY DEF Allocate
<1>. QED
  BY <1>1, <1>3, <1>4

\* One more allocated entry keeps the count exact.
LEMMA CountOneMore ==
  ASSUME IInv, phase = "live", NEW e \in Entries \ DOMAIN ent,
         DOMAIN ent' = DOMAIN ent \cup {e},
         entries' = entries + 1, deleting' = deleting
  PROVE  EntriesCounted'
<1>1. TypeOK /\ EntriesCounted
  BY DEF IInv
<1>2. e \notin deleting
  BY <1>1 DEF TypeOK
<1>3. DOMAIN ent' \ deleting' = (DOMAIN ent \ deleting) \cup {e}
  BY <1>2
<1>4. IsFiniteSet(DOMAIN ent \ deleting)
  BY <1>1, TypeFacts, FS_Subset
<1>5. Cardinality((DOMAIN ent \ deleting) \cup {e})
        = Cardinality(DOMAIN ent \ deleting) + 1
  BY <1>4, FS_AddElement
<1>6. entries = Cardinality(DOMAIN ent \ deleting)
  BY <1>1 DEF EntriesCounted
<1>. QED
  BY <1>3, <1>5, <1>6 DEF EntriesCounted

LEMMA InsertLinkedStep ==
  ASSUME IInv, NEW s \in Keys, NEW e \in Entries \ DOMAIN ent, InsertLinked(s, e)
  PROVE  IInv'
<1>. DEFINE bucket == Hash(s, index_size)
<1>1. TypeOK /\ ChainsWellPlaced /\ UniqueKeys /\ LoadBounded
  BY DEF IInv
<1>2. /\ phase = "live"
      /\ Matching(s) = {}
      /\ size_maxed' = (size_maxed \/ Overloaded)
      /\ index' = [index EXCEPT ![bucket] = @ \cup {e}]
      /\ Allocate(e, s)
      /\ entries' = entries + 1
      /\ ret' = e
      /\ UNCHANGED <<index_size, deleting, phase>>
  BY DEF InsertLinked
<1>3. bucket \in Buckets(index_size)
  BY <1>1, TypeFacts, HashInBuckets
<1>. HIDE DEF bucket
<1>4. /\ DOMAIN ent' = DOMAIN ent \cup {e}
      /\ ent' \in [DOMAIN ent' -> [key : Keys, data : Data \cup {NULL}]]
      /\ ent'[e].key = s
      /\ \A f \in DOMAIN ent : ent'[f] = ent[f]
  BY <1>1, <1>2, AllocateFacts
<1>5. /\ index' \in [Buckets(index_size) -> SUBSET Entries]
      /\ \A b \in Buckets(index_size) :
           index'[b] = IF b = bucket THEN index[b] \cup {e} ELSE index[b]
  BY <1>1, <1>2, <1>3 DEF TypeOK
<1>6. e \notin deleting
  BY <1>1 DEF TypeOK
<1>7. TypeOK'
  <2>1. entries' \in Nat /\ size_maxed' \in BOOLEAN
    BY <1>1, <1>2 DEF TypeOK, Overloaded
  <2>2. ret' \in (DOMAIN ent' \ deleting') \cup {NULL} /\ deleting' \subseteq DOMAIN ent'
    BY <1>1, <1>2, <1>4, <1>6 DEF TypeOK
  <2>. QED
    BY <1>1, <1>2, <1>4, <1>5, <2>1, <2>2 DEF TypeOK
<1>8. Linked' = Linked \cup {e}
  BY <1>2, <1>3, <1>5 DEF Linked
<1>9. ChainsWellPlaced'
  <2>. SUFFICES ASSUME NEW b \in Buckets(index_size), NEW f \in index'[b]
                PROVE  /\ f \in DOMAIN ent'
                       /\ f \notin deleting'
                       /\ Hash(ent'[f].key, index_size) = b
    BY <1>2 DEF ChainsWellPlaced
  <2>1. CASE f \in index[b]
    BY <1>1, <1>2, <1>4, <2>1 DEF ChainsWellPlaced
  <2>2. CASE f = e /\ b = bucket
    BY <1>2, <1>4, <1>6, <2>2 DEF bucket
  <2>. QED
    BY <1>5, <2>1, <2>2
<1>10. UniqueKeys'
  <2>1. \A f \in Linked : f \in DOMAIN ent /\ ent[f].key # s
    BY <1>1, <1>2, MatchingFacts, LinkedFacts
  <2>. QED
    BY <1>1, <1>4, <1>8, <2>1 DEF UniqueKeys
<1>11. EntriesCounted'
  BY <1>2, <1>4, CountOneMore
<1>12. LoadBounded'
  <2>. SUFFICES ASSUME ~size_maxed' PROVE entries' <= AVG_CHAIN_MAX * index_size
    BY <1>2 DEF LoadBounded
  <2>1. AVG_CHAIN_MAX * index_size \in Nat /\ entries \in Nat
    BY <1>1, TypeFacts, TableLoadAssumption DEF TypeOK
  <2>2. ~size_maxed /\ ~Overloaded
    BY <1>2
  <2>3. ~(entries + 1 > AVG_CHAIN_MAX * index_size)
    BY <2>2 DEF Overloaded
  <2>. QED
    BY <1>2, <2>1, <2>3
<1>13. Orphans' = Orphans
  BY <1>2, <1>4, <1>6, <1>8 DEF Orphans
<1>. QED
  BY <1>2, <1>7, <1>9, <1>10, <1>11, <1>12, <1>13
  DEF IInv, SizeOnlyGrows, OneLossPerGrowth, SizesOutgrown

LEMMA InsertGrowStep ==
  ASSUME IInv, NEW s \in Keys, NEW e \in Entries \ DOMAIN ent, InsertGrow(s, e)
  PROVE  IInv'
<1>. DEFINE newsize == GetTableSize(index_size)
<1>1. TypeOK /\ ChainsWellPlaced /\ UniqueKeys /\ LoadBounded /\ SizeOnlyGrows
  BY DEF IInv
<1>2. /\ phase = "live"
      /\ Overloaded
      /\ newsize > index_size
      /\ index_size' = newsize
      /\ index' = Rehash(newsize)
      /\ Allocate(e, s)
      /\ entries' = entries + 1
      /\ ret' = e
      /\ UNCHANGED <<size_maxed, deleting, phase>>
  BY DEF InsertGrow
<1>3. index_size \in Nat \ {0} /\ newsize \in Sizes /\ newsize \in Nat \ {0}
  BY <1>1, TypeFacts, TableSizes
<1>. HIDE DEF newsize
<1>4. /\ DOMAIN ent' = DOMAIN ent \cup {e}
      /\ ent' \in [DOMAIN ent' -> [key : Keys, data : Data \cup {NULL}]]
      /\ ent'[e].key = s
      /\ \A f \in DOMAIN ent : ent'[f] = ent[f]
  BY <1>1, <1>2, AllocateFacts
<1>5. /\ index' \in [Buckets(newsize) -> SUBSET Entries]
      /\ \A b \in Buckets(newsize) :
           index'[b] = {f \in Linked : Hash(ent[f].key, newsize) = b}
  BY <1>2 DEF Rehash, Linked
<1>6. e \notin deleting /\ Linked \subseteq DOMAIN ent \ deleting
  BY <1>1, LinkedFacts DEF TypeOK
<1>7. TypeOK'
  <2>1. ret' \in (DOMAIN ent' \ deleting') \cup {NULL} /\ deleting' \subseteq DOMAIN ent'
    BY <1>1, <1>2, <1>4, <1>6 DEF TypeOK
  <2>. QED
    BY <1>1, <1>2, <1>3, <1>4, <1>5, <2>1 DEF TypeOK
<1>8. Linked' = Linked
  <2>1. Linked' = {f \in Entries : \E b \in Buckets(newsize) : f \in index'[b]}
    BY <1>2 DEF Linked
  <2>2. \A f \in Linked : Hash(ent[f].key, newsize) \in Buckets(newsize)
    BY <1>1, <1>3, <1>6, TypeFacts, HashInBuckets
  <2>3. \A f \in Linked : f \in Entries
    BY DEF Linked
  <2>. QED
    BY <1>5, <2>1, <2>2, <2>3
<1>9. ChainsWellPlaced'
  BY <1>2, <1>4, <1>5, <1>6 DEF ChainsWellPlaced, Hash
<1>10. UniqueKeys'
  BY <1>1, <1>4, <1>6, <1>8 DEF UniqueKeys
<1>11. EntriesCounted'
  BY <1>2, <1>4, CountOneMore
<1>12. LoadBounded'
  <2>1. entries \in Nat /\ entries <= AVG_CHAIN_MAX * index_size
    BY <1>1, <1>2 DEF TypeOK, LoadBounded, Overloaded
  <2>2. AVG_CHAIN_MAX * index_size + AVG_CHAIN_MAX = AVG_CHAIN_MAX * (index_size + 1)
    BY <1>3, TableLoadAssumption
  <2>3. AVG_CHAIN_MAX * (index_size + 1) <= AVG_CHAIN_MAX * newsize
    BY <1>2, <1>3, TableLoadAssumption
  <2>4. AVG_CHAIN_MAX * index_size \in Nat /\ AVG_CHAIN_MAX * newsize \in Nat
    BY <1>3, TableLoadAssumption
  <2>5. entries + 1 <= AVG_CHAIN_MAX * newsize
    BY <2>1, <2>2, <2>3, <2>4, TableLoadAssumption
  <2>. QED
    BY <1>2, <2>5 DEF LoadBounded
<1>13. SizeOnlyGrows'
  <2>1. GetTableSize(MinTableSize) \in Nat
    BY TableSizes, StrHashAssumption, TableLoadAssumption
  <2>2. GetTableSize(MinTableSize) <= newsize
    BY <1>1, <1>2, <1>3, <2>1 DEF SizeOnlyGrows
  <2>. QED
    BY <1>2, <2>2 DEF SizeOnlyGrows
<1>14. OneLossPerGrowth'
  <2>1. Orphans' \subseteq Orphans \cup {e}
    BY <1>2, <1>4, <1>8 DEF Orphans
  <2>2. Cardinality(Orphans') <= Cardinality(Orphans) + 1
    <3>1. IsFiniteSet(Orphans)
      BY <1>1, TypeFacts
    <3>2. Cardinality(Orphans) \in Nat
      BY <3>1, FS_CardinalityType
    <3>3. /\ IsFiniteSet(Orphans \cup {e})
          /\ Cardinality(Orphans \cup {e})
               = IF e \in Orphans THEN Cardinality(Orphans) ELSE Cardinality(Orphans) + 1
      BY <3>1, FS_AddElement
    <3>4. Cardinality(Orphans \cup {e}) <= Cardinality(Orphans) + 1
      BY <3>2, <3>3
    <3>5. Cardinality(Orphans') <= Cardinality(Orphans \cup {e}) /\ IsFiniteSet(Orphans')
      BY <2>1, <3>3, FS_Subset
    <3>6. Cardinality(Orphans') \in Nat /\ Cardinality(Orphans \cup {e}) \in Nat
      BY <3>3, <3>5, FS_CardinalityType
    <3>. QED
      BY <3>2, <3>4, <3>5, <3>6
  <2>3. IsFiniteSet(SizesOutgrown')
    <3>1. ASSUME NEW n \in SizesOutgrown' PROVE n \in Nat /\ n <= newsize
      <4>1. n \in Sizes /\ n < newsize
        BY <1>2, <3>1 DEF SizesOutgrown
      <4>. QED
        BY <1>3, <4>1, TableLoadAssumption
    <3>. QED
      BY <1>3, <3>1, FS_BoundedSetOfNaturals
  <2>4. SizesOutgrown \cup {index_size} \subseteq SizesOutgrown' /\ index_size \notin SizesOutgrown
    <3>1. GetTableSize(MinTableSize) \in Nat
      BY TableSizes, StrHashAssumption, TableLoadAssumption
    <3>2. index_size \in SizesOutgrown'
      BY <1>1, <1>2, <1>3 DEF SizesOutgrown, SizeOnlyGrows, TypeOK
    <3>3. \A n \in SizesOutgrown : n \in SizesOutgrown'
      BY <1>2, <1>3, <3>1, TableLoadAssumption DEF SizesOutgrown
    <3>4. index_size \notin SizesOutgrown
      BY <1>3 DEF SizesOutgrown
    <3>. QED
      BY <3>2, <3>3, <3>4
  <2>5. IsFiniteSet(SizesOutgrown)
    BY <2>3, <2>4, FS_Subset
  <2>6. Cardinality(SizesOutgrown) + 1 <= Cardinality(SizesOutgrown')
    <3>1. Cardinality(SizesOutgrown \cup {index_size}) = Cardinality(SizesOutgrown) + 1
      BY <2>4, <2>5, FS_AddElement
    <3>2. Cardinality(SizesOutgrown \cup {index_size}) <= Cardinality(SizesOutgrown')
      BY <2>3, <2>4, FS_Subset
    <3>. QED
      BY <3>1, <3>2
  <2>7. /\ Cardinality(Orphans) \in Nat /\ Cardinality(SizesOutgrown) \in Nat
        /\ Cardinality(Orphans') \in Nat /\ Cardinality(SizesOutgrown') \in Nat
    <3>1. IsFiniteSet(Orphans) /\ IsFiniteSet(Orphans')
      BY <1>1, <1>7, TypeFacts, <2>1, FS_AddElement, FS_Subset
    <3>. QED
      BY <2>3, <2>5, <3>1, FS_CardinalityType
  <2>8. Cardinality(Orphans) <= Cardinality(SizesOutgrown)
    BY DEF IInv, OneLossPerGrowth
  <2>9. Cardinality(Orphans') <= Cardinality(SizesOutgrown')
    BY <2>2, <2>6, <2>7, <2>8
  <2>. QED
    BY <2>9 DEF OneLossPerGrowth
<1>. QED
  BY <1>7, <1>9, <1>10, <1>11, <1>12, <1>13, <1>14 DEF IInv

-----------------------------------------------------------------------------
(* Deletion and destruction.                                               *)

\* What unlinking an entry does to the chains.
LEMMA UnlinkFacts ==
  ASSUME TypeOK, NEW e, Unlink(e), index_size' = index_size
  PROVE  /\ index' \in [Buckets(index_size) -> SUBSET Entries]
         /\ \A b \in Buckets(index_size) : index'[b] = index[b] \ {e}
         /\ Linked' = Linked \ {e}
<1>1. /\ index' \in [Buckets(index_size) -> SUBSET Entries]
      /\ \A b \in Buckets(index_size) : index'[b] = index[b] \ {e}
  BY DEF Unlink, TypeOK
<1>2. Linked' = Linked \ {e}
  BY <1>1 DEF Linked
<1>. QED
  BY <1>1, <1>2

\* An entry that leaves the chains for a callback disturbs no other entry.
LEMMA UnlinkedRest ==
  ASSUME TypeOK, ChainsWellPlaced, UniqueKeys, NEW e \in Linked, Unlink(e),
         deleting' = deleting \cup {e}, UNCHANGED <<index_size, ent>>
  PROVE  /\ ChainsWellPlaced'
         /\ UniqueKeys'
         /\ Orphans' = Orphans
<1>1. /\ \A b \in Buckets(index_size) : index'[b] = index[b] \ {e}
      /\ Linked' = Linked \ {e}
  BY UnlinkFacts
<1>2. ChainsWellPlaced'
  BY <1>1 DEF ChainsWellPlaced, Hash
<1>3. UniqueKeys'
  BY <1>1 DEF UniqueKeys
<1>4. Orphans' = Orphans
  BY <1>1 DEF Orphans
<1>. QED
  BY <1>2, <1>3, <1>4

LEMMA DeleteUnlinkStep ==
  ASSUME IInv, NEW s \in Keys, DeleteUnlink(s)
  PROVE  IInv'
<1>1. TypeOK /\ ChainsWellPlaced /\ UniqueKeys /\ EntriesCounted /\ LoadBounded
  BY DEF IInv
<1>2. PICK e \in Matching(s) : Unlink(e) /\ deleting' = deleting \cup {e}
  BY DEF DeleteUnlink
<1>3. /\ phase = "live"
      /\ entries' = entries - 1
      /\ ret' = NULL
      /\ UNCHANGED <<index_size, size_maxed, ent, phase>>
  BY DEF DeleteUnlink
<1>4. e \in Linked /\ e \in DOMAIN ent /\ e \notin deleting
  BY <1>1, <1>2, MatchingFacts
<1>5. EntriesCounted' /\ entries' \in Nat
  <2>1. DOMAIN ent' \ deleting' = (DOMAIN ent \ deleting) \ {e}
    BY <1>2, <1>3
  <2>2. IsFiniteSet(DOMAIN ent \ deleting)
    BY <1>1, TypeFacts, FS_Subset
  <2>3. /\ IsFiniteSet((DOMAIN ent \ deleting) \ {e})
        /\ Cardinality((DOMAIN ent \ deleting) \ {e})
             = Cardinality(DOMAIN ent \ deleting) - 1
    BY <1>4, <2>2, FS_RemoveElement
  <2>4. entries = Cardinality(DOMAIN ent \ deleting)
    BY <1>1, <1>3 DEF EntriesCounted
  <2>5. entries' = Cardinality(DOMAIN ent' \ deleting')
    BY <1>3, <2>1, <2>3, <2>4
  <2>6. entries' \in Nat
    BY <2>1, <2>3, <2>5, FS_CardinalityType
  <2>. QED
    BY <2>5, <2>6 DEF EntriesCounted
<1>6. TypeOK'
  <2>1. index' \in [Buckets(index_size) -> SUBSET Entries]
    BY <1>1, <1>2, <1>3, UnlinkFacts
  <2>. QED
    BY <1>1, <1>2, <1>3, <1>4, <1>5, <2>1 DEF TypeOK
<1>7. ChainsWellPlaced' /\ UniqueKeys' /\ Orphans' = Orphans
  BY <1>1, <1>2, <1>3, <1>4, UnlinkedRest
<1>8. LoadBounded'
  <2>. SUFFICES ASSUME ~size_maxed PROVE entries' <= AVG_CHAIN_MAX * index_size
    BY <1>3 DEF LoadBounded
  <2>1. entries <= AVG_CHAIN_MAX * index_size
    BY <1>1, <1>3 DEF LoadBounded
  <2>2. AVG_CHAIN_MAX * index_size \in Nat /\ entries \in Nat
    BY <1>1, TypeFacts, TableLoadAssumption DEF TypeOK
  <2>. QED
    BY <1>3, <2>1, <2>2
<1>. QED
  BY <1>3, <1>5, <1>6, <1>7, <1>8
  DEF IInv, SizeOnlyGrows, OneLossPerGrowth, SizesOutgrown

LEMMA FreeEntryStep ==
  ASSUME IInv, NEW e \in Entries, FreeEntry(e)
  PROVE  IInv'
<1>1. TypeOK /\ ChainsWellPlaced /\ UniqueKeys /\ EntriesCounted
  BY DEF IInv
<1>2. /\ e \in deleting
      /\ deleting' = deleting \ {e}
      /\ ent' = [f \in DOMAIN ent \ {e} |-> ent[f]]
      /\ UNCHANGED <<index, index_size, entries, size_maxed, ret, phase>>
  BY DEF FreeEntry
<1>3. /\ DOMAIN ent' = DOMAIN ent \ {e}
      /\ \A f \in DOMAIN ent' : ent'[f] = ent[f]
  BY <1>2
<1>4. e \notin Linked /\ Linked \subseteq DOMAIN ent /\ Linked' = Linked
  <2>1. Linked' = Linked
    BY <1>2 DEF Linked
  <2>. QED
    BY <1>1, <1>2, <2>1, LinkedFacts
<1>5. TypeOK'
  <2>1. ent' \in [DOMAIN ent' -> [key : Keys, data : Data \cup {NULL}]]
    BY <1>1, <1>2, <1>3 DEF TypeOK
  <2>2. deleting' \subseteq DOMAIN ent' /\ DOMAIN ent' \subseteq Entries
    BY <1>1, <1>2, <1>3 DEF TypeOK
  <2>3. DOMAIN ent' \ deleting' = DOMAIN ent \ deleting
    BY <1>2, <1>3
  <2>4. ret' \in (DOMAIN ent' \ deleting') \cup {NULL}
    BY <1>1, <1>2, <2>3 DEF TypeOK
  <2>. QED
    BY <1>1, <1>2, <2>1, <2>2, <2>4 DEF TypeOK
<1>6. ChainsWellPlaced'
  <2>1. \A b \in Buckets(index_size) : \A f \in index[b] : f # e
    BY <1>1, <1>2 DEF ChainsWellPlaced
  <2>. QED
    BY <1>1, <1>2, <1>3, <2>1 DEF ChainsWellPlaced, Hash
<1>7. UniqueKeys'
  BY <1>1, <1>3, <1>4 DEF UniqueKeys
<1>8. EntriesCounted'
  <2>1. DOMAIN ent' \ deleting' = DOMAIN ent \ deleting
    BY <1>2, <1>3
  <2>. QED
    BY <1>1, <1>2, <2>1 DEF EntriesCounted
<1>9. Orphans' = Orphans
  BY <1>2, <1>3, <1>4 DEF Orphans
<1>. QED
  BY <1>2, <1>5, <1>6, <1>7, <1>8, <1>9
  DEF IInv, LoadBounded, SizeOnlyGrows, OneLossPerGrowth, SizesOutgrown

LEMMA DestroyUnlinkStep ==
  ASSUME IInv, NEW e \in Entries, DestroyUnlink(e)
  PROVE  IInv'
<1>1. TypeOK /\ ChainsWellPlaced /\ UniqueKeys
  BY DEF IInv
<1>2. /\ phase = "destroying"
      /\ Unlink(e)
      /\ deleting' = deleting \cup {e}
      /\ UNCHANGED <<index_size, entries, size_maxed, ent, ret, phase>>
  BY DEF DestroyUnlink
<1>3. e \in Linked
  BY DEF DestroyUnlink, Linked
<1>4. ChainsWellPlaced' /\ UniqueKeys' /\ Orphans' = Orphans
  BY <1>1, <1>2, <1>3, UnlinkedRest
<1>5. EntriesCounted' /\ LoadBounded'
  BY <1>2 DEF EntriesCounted, LoadBounded
<1>6. TypeOK'
  <2>1. index' \in [Buckets(index_size) -> SUBSET Entries]
    BY <1>1, <1>2, UnlinkFacts
  <2>2. e \in DOMAIN ent
    BY <1>1, <1>3, LinkedFacts
  <2>. QED
    BY <1>1, <1>2, <2>1, <2>2 DEF TypeOK
<1>. QED
  BY <1>2, <1>4, <1>5, <1>6
  DEF IInv, SizeOnlyGrows, OneLossPerGrowth, SizesOutgrown

LEMMA DestroyBeginStep ==
  ASSUME IInv, DestroyBegin
  PROVE  IInv'
<1>1. /\ phase' = "destroying"
      /\ ret' = NULL
      /\ UNCHANGED <<index, index_size, entries, size_maxed, ent, deleting>>
  BY DEF DestroyBegin
<1>2. Linked' = Linked /\ Orphans' = Orphans
  BY <1>1 DEF Linked, Orphans
<1>3. TypeOK'
  BY <1>1 DEF IInv, TypeOK
<1>. QED
  BY <1>1, <1>2, <1>3 DEF IInv, ChainsWellPlaced, UniqueKeys, EntriesCounted,
     LoadBounded, SizeOnlyGrows, OneLossPerGrowth, SizesOutgrown

LEMMA DestroyEndStep ==
  ASSUME IInv, DestroyEnd
  PROVE  IInv'
<1>1. /\ phase = "destroying"
      /\ phase' = "freed"
      /\ UNCHANGED <<index, index_size, entries, size_maxed, ent, deleting, ret>>
  BY DEF DestroyEnd
<1>2. Linked' = Linked /\ Orphans' = Orphans
  BY <1>1 DEF Linked, Orphans
<1>3. TypeOK'
  BY <1>1 DEF IInv, TypeOK
<1>. QED
  BY <1>1, <1>2, <1>3 DEF IInv, ChainsWellPlaced, UniqueKeys, EntriesCounted,
     LoadBounded, SizeOnlyGrows, OneLossPerGrowth, SizesOutgrown

LEMMA StutterStep ==
  ASSUME IInv, UNCHANGED vars
  PROVE  IInv'
<1>1. Linked' = Linked /\ Orphans' = Orphans
  BY DEF vars, Linked, Orphans
<1>. QED
  BY <1>1 DEF vars, IInv, TypeOK, ChainsWellPlaced, UniqueKeys, EntriesCounted,
     LoadBounded, SizeOnlyGrows, OneLossPerGrowth, SizesOutgrown

-----------------------------------------------------------------------------
(* The theorems.                                                           *)

\* The inductive invariant holds in every state of every table: one step of the
\* proof per function of strhash.c.
THEOREM Invariance == Spec => []IInv
<1>1. Init => IInv
  BY InitIInv
<1>2. IInv /\ [Next]_vars => IInv'
  <2>. SUFFICES ASSUME IInv, [Next]_vars PROVE IInv'
    OBVIOUS
  <2>1. CASE \E s \in Keys : Find(s) \/ Miss(s) \/ DeleteUnlink(s)
    BY <2>1, LookupStep, DeleteUnlinkStep
  <2>2. CASE \E s \in Keys, e \in Entries \ DOMAIN ent :
               InsertLinked(s, e) \/ InsertGrow(s, e)
    BY <2>2, InsertLinkedStep, InsertGrowStep
  <2>3. CASE \E d \in Data : SetData(d)
    BY <2>3, SetDataStep
  <2>4. CASE \E e \in Entries : FreeEntry(e) \/ DestroyUnlink(e)
    BY <2>4, FreeEntryStep, DestroyUnlinkStep
  <2>5. CASE DestroyBegin
    BY <2>5, DestroyBeginStep
  <2>6. CASE DestroyEnd
    BY <2>6, DestroyEndStep
  <2>7. CASE UNCHANGED vars
    BY <2>7, StutterStep
  <2>. QED
    BY <2>1, <2>2, <2>3, <2>4, <2>5, <2>6, <2>7 DEF Next
<1>. QED
  BY <1>1, <1>2, PTL DEF Spec

\* Every variable of the table keeps its type: in particular the pointer the
\* last call returned is an entry that is still allocated.
THEOREM TypeCorrect == Spec => []TypeOK
<1>1. IInv => TypeOK
  BY DEF IInv
<1>. QED
  BY <1>1, Invariance, PTL

\* Entries are always found in the bucket their key hashes to, across every
\* growth of the table.
THEOREM WellPlaced == Spec => []ChainsWellPlaced
<1>1. IInv => ChainsWellPlaced
  BY DEF IInv
<1>. QED
  BY <1>1, Invariance, PTL

\* A key never has two entries in the table.
THEOREM KeysUnique == Spec => []UniqueKeys
<1>1. IInv => UniqueKeys
  BY DEF IInv
<1>. QED
  BY <1>1, Invariance, PTL

\* The count is exact over the entries callers own, lost ones included.
THEOREM CountExact == Spec => []EntriesCounted
<1>1. IInv => EntriesCounted
  BY DEF IInv
<1>. QED
  BY <1>1, Invariance, PTL

\* The load factor is bounded until the ladder of sizes is exhausted.
THEOREM LoadFactor == Spec => []LoadBounded
<1>1. IInv => LoadBounded
  BY DEF IInv
<1>. QED
  BY <1>1, Invariance, PTL

\* However the table is used, it loses at most one entry per growth.
THEOREM LossBound == Spec => []OneLossPerGrowth
<1>1. IInv => OneLossPerGrowth
  BY DEF IInv
<1>. QED
  BY <1>1, Invariance, PTL

\* No step but a delete takes an entry out of its chain.
THEOREM DeletesOnly == Spec => OnlyDeleteUnlinks
<1>1. IInv /\ [Next]_vars => [(Linked \ Linked') \subseteq deleting']_vars
  <2>. SUFFICES ASSUME IInv, Next
                PROVE  (Linked \ Linked') \subseteq deleting'
    BY DEF vars
  <2>1. TypeOK /\ ChainsWellPlaced
    BY DEF IInv
  <2>2. ASSUME UNCHANGED <<index, index_size>>
        PROVE  Linked' = Linked
    BY <2>2 DEF Linked
  <2>3. ASSUME NEW s \in Keys, Find(s) \/ Miss(s) \/ DeleteUnlink(s)
        PROVE  (Linked \ Linked') \subseteq deleting'
    <3>1. CASE Find(s) \/ Miss(s)
      BY <2>2, <3>1 DEF Find, Miss
    <3>2. CASE DeleteUnlink(s)
      BY <2>1, <3>2, UnlinkFacts DEF DeleteUnlink
    <3>. QED
      BY <2>3, <3>1, <3>2
  <2>4. ASSUME NEW s \in Keys, NEW e \in Entries \ DOMAIN ent, InsertLinked(s, e)
        PROVE  Linked \subseteq Linked'
    <3>1. \A b \in Buckets(index_size) : index[b] \subseteq index'[b]
      BY <2>1, <2>4 DEF InsertLinked, TypeOK
    <3>. QED
      BY <2>4, <3>1 DEF InsertLinked, Linked
  <2>5. ASSUME NEW s \in Keys, NEW e \in Entries \ DOMAIN ent, InsertGrow(s, e)
        PROVE  Linked \subseteq Linked'
    <3>1. index_size' \in Nat \ {0} /\ index' = Rehash(index_size')
      BY <2>1, <2>5, TypeFacts, TableSizes DEF InsertGrow
    <3>2. ASSUME NEW f \in Linked PROVE f \in Linked'
      <4>1. f \in Entries /\ ent[f].key \in Keys
        BY <2>1, <3>2, LinkedFacts, TypeFacts DEF Linked
      <4>2. Hash(ent[f].key, index_size') \in Buckets(index_size')
        BY <3>1, <4>1, HashInBuckets
      <4>3. f \in index'[Hash(ent[f].key, index_size')]
        BY <3>1, <3>2, <4>2 DEF Rehash
      <4>. QED
        BY <4>1, <4>2, <4>3 DEF Linked
    <3>. QED
      BY <3>2
  <2>6. ASSUME NEW e \in Entries, FreeEntry(e) \/ DestroyUnlink(e)
        PROVE  (Linked \ Linked') \subseteq deleting'
    <3>1. CASE FreeEntry(e)
      BY <2>2, <3>1 DEF FreeEntry
    <3>2. CASE DestroyUnlink(e)
      BY <2>1, <3>2, UnlinkFacts DEF DestroyUnlink
    <3>. QED
      BY <2>6, <3>1, <3>2
  <2>7. CASE (\E d \in Data : SetData(d)) \/ DestroyBegin \/ DestroyEnd
    BY <2>2, <2>7 DEF SetData, DestroyBegin, DestroyEnd
  <2>. QED
    BY <2>3, <2>4, <2>5, <2>6, <2>7 DEF Next
<1>. QED
  BY <1>1, Invariance, PTL DEF Spec, OnlyDeleteUnlinks

-----------------------------------------------------------------------------
(* The table implements the map.                                           *)

\* The map the linked entries S of a heap g make, and what tells it from others.
MapOf(S, g) ==
  [s \in {g[e].key : e \in S} |-> g[CHOOSE e \in S : g[e].key = s].data]

KeysOnce(S, g) == \A e, f \in S : g[e].key = g[f].key => e = f

IsMapOf(m, S, g) ==
  /\ m = [s \in {g[e].key : e \in S} |-> m[s]]
  /\ \A e \in S : m[g[e].key] = g[e].data

\* The key of the entry a caller holds has no other entry: storing into an entry
\* that was lost touches no entry of the table.
ReturnedKey == ret # NULL => \A e \in Linked : ent[e].key = ent[ret].key => e = ret

\* A map is given by its entries when no two have the same key.
LEMMA MapOfFacts ==
  ASSUME NEW S, NEW g, KeysOnce(S, g)
  PROVE  IsMapOf(MapOf(S, g), S, g)
<1>1. ASSUME NEW e \in S PROVE MapOf(S, g)[g[e].key] = g[e].data
  <2>1. (CHOOSE f \in S : g[f].key = g[e].key) = e
    BY DEF KeysOnce
  <2>. QED
    BY <2>1 DEF MapOf
<1>2. MapOf(S, g) = [s \in {g[e].key : e \in S} |-> MapOf(S, g)[s]]
  BY DEF MapOf
<1>. QED
  BY <1>1, <1>2 DEF IsMapOf

LEMMA MapOfOnly ==
  ASSUME NEW S, NEW g, NEW m, NEW n, IsMapOf(m, S, g), IsMapOf(n, S, g)
  PROVE  m = n
<1>1. \A s \in {g[e].key : e \in S} : m[s] = n[s]
  BY DEF IsMapOf
<1>2. /\ m = [s \in {g[e].key : e \in S} |-> m[s]]
      /\ n = [s \in {g[e].key : e \in S} |-> n[s]]
  BY DEF IsMapOf
<1>. QED
  BY <1>1, <1>2

\* What the abstract variables are in a live table, before and after a step.
LEMMA MapBarFacts ==
  ASSUME IInv, IInv'
  PROVE  /\ phase = "live" => IsMapOf(mapBar, Linked, ent)
         /\ phase' = "live" => IsMapOf(mapBar', Linked', ent')
         /\ phase # "live" => mapBar = [s \in {} |-> NULL] /\ ret = NULL
         /\ phase' # "live" => mapBar' = [s \in {} |-> NULL] /\ ret' = NULL
         /\ phase = "live" => DOMAIN mapBar = {ent[e].key : e \in Linked}
<1>1. KeysOnce(Linked, ent) /\ KeysOnce(Linked', ent')
  BY DEF IInv, UniqueKeys, KeysOnce
<1>2. /\ phase = "live" => mapBar = MapOf(Linked, ent)
      /\ phase' = "live" => mapBar' = MapOf(Linked', ent')
  BY DEF mapBar, MapOf, PresentKeys
<1>3. DOMAIN MapOf(Linked, ent) = {ent[e].key : e \in Linked}
  BY DEF MapOf
<1>4. IsMapOf(MapOf(Linked, ent), Linked, ent) /\ IsMapOf(MapOf(Linked', ent'), Linked', ent')
  BY <1>1, MapOfFacts
<1>. QED
  BY <1>2, <1>3, <1>4 DEF mapBar, IInv, TypeOK

\* A step that changes neither the chains nor what is in a linked entry.
LEMMA SameMap ==
  ASSUME IInv, IInv', UNCHANGED phase, Linked' = Linked,
         \A e \in Linked : ent'[e] = ent[e]
  PROVE  mapBar' = mapBar
<1>1. CASE phase = "live"
  <2>1. IsMapOf(mapBar, Linked, ent) /\ IsMapOf(mapBar', Linked', ent')
    BY <1>1, MapBarFacts
  <2>2. {ent'[e].key : e \in Linked} = {ent[e].key : e \in Linked}
    OBVIOUS
  <2>3. IsMapOf(mapBar', Linked, ent)
    BY <2>1, <2>2 DEF IsMapOf
  <2>. QED
    BY <2>1, <2>3, MapOfOnly
<1>2. CASE phase # "live"
  BY <1>2, MapBarFacts
<1>. QED
  BY <1>1, <1>2

\* The empty table is the empty map.
LEMMA InitMap == Init => StrMapOf!MapInit /\ ReturnedKey
<1>. SUFFICES ASSUME Init PROVE StrMapOf!MapInit /\ ReturnedKey
  OBVIOUS
<1>1. Linked = {} /\ ret = NULL /\ phase = "live"
  BY DEF Init, Linked
<1>2. mapBar = [s \in {} |-> NULL]
  BY <1>1 DEF mapBar, PresentKeys
<1>. QED
  BY <1>1, <1>2 DEF StrMapOf!MapInit, resultBar, ReturnedKey

\* Lookups.
LEMMA LookupMap ==
  ASSUME IInv, IInv', NEW s \in Keys, Find(s) \/ Miss(s)
  PROVE  /\ StrMapOf!MapFind(s) \/ StrMapOf!MapMiss(s)
         /\ ReturnedKey'
<1>1. TypeOK /\ ChainsWellPlaced /\ UniqueKeys
  BY DEF IInv
<1>2. Linked' = Linked /\ ent' = ent /\ phase = "live" /\ phase' = "live"
  BY DEF Find, Miss, Linked
<1>3. mapBar' = mapBar /\ DOMAIN mapBar = {ent[e].key : e \in Linked}
  BY <1>2, SameMap, MapBarFacts
<1>4. CASE Find(s)
  <2>1. ret' \in Linked /\ ret' \in DOMAIN ent /\ ent[ret'].key = s
    BY <1>1, <1>4, MatchingFacts DEF Find
  <2>2. ret' # NULL
    BY <1>1, <2>1, StrHashAssumption, TableLoadAssumption DEF TypeOK
  <2>3. resultBar' = s /\ s \in DOMAIN mapBar
    BY <1>2, <1>3, <2>1, <2>2 DEF resultBar
  <2>4. ReturnedKey'
    BY <1>1, <1>2, <2>1 DEF ReturnedKey, UniqueKeys
  <2>. QED
    BY <1>2, <1>3, <2>3, <2>4 DEF StrMapOf!MapFind
<1>5. CASE Miss(s)
  <2>1. s \notin DOMAIN mapBar
    BY <1>1, <1>3, <1>5, MatchingFacts DEF Miss
  <2>2. ret' = NULL
    BY <1>5 DEF Miss
  <2>. QED
    BY <1>2, <1>3, <2>1, <2>2 DEF StrMapOf!MapMiss, resultBar, ReturnedKey
<1>. QED
  BY <1>4, <1>5

\* Insertion: the new entry is in the table, with no data.
LEMMA InsertLinkedMap ==
  ASSUME IInv, IInv', NEW s \in Keys, NEW e \in Entries \ DOMAIN ent, InsertLinked(s, e)
  PROVE  StrMapOf!MapInsert(s) /\ ReturnedKey'
<1>. DEFINE m == [t \in DOMAIN mapBar \cup {s} |-> IF t = s THEN NULL ELSE mapBar[t]]
<1>1. TypeOK /\ ChainsWellPlaced /\ UniqueKeys'
  BY DEF IInv
<1>2. /\ phase = "live" /\ phase' = "live" /\ Matching(s) = {} /\ ret' = e
      /\ Allocate(e, s)
      /\ index' = [index EXCEPT ![Hash(s, index_size)] = @ \cup {e}]
      /\ index_size' = index_size
  BY DEF InsertLinked
<1>3. /\ ent'[e].key = s /\ ent'[e].data = NULL
      /\ \A f \in DOMAIN ent : ent'[f] = ent[f]
  BY <1>1, <1>2, AllocateFacts DEF Allocate
<1>4. Linked' = Linked \cup {e}
  <2>1. Hash(s, index_size) \in Buckets(index_size)
    BY <1>1, TypeFacts, HashInBuckets
  <2>. QED
    BY <1>1, <1>2, <2>1 DEF Linked, TypeOK
<1>5. \A f \in Linked : f \in DOMAIN ent /\ ent[f].key # s
  BY <1>1, <1>2, MatchingFacts, LinkedFacts
<1>6. /\ IsMapOf(mapBar, Linked, ent) /\ IsMapOf(mapBar', Linked', ent')
      /\ DOMAIN mapBar = {ent[f].key : f \in Linked}
  BY <1>2, MapBarFacts
<1>7. IsMapOf(m, Linked', ent')
  <2>1. DOMAIN m = {ent'[f].key : f \in Linked'}
    BY <1>3, <1>4, <1>5, <1>6
  <2>2. \A f \in Linked' : m[ent'[f].key] = ent'[f].data
    BY <1>3, <1>4, <1>5, <1>6 DEF IsMapOf
  <2>3. m = [t \in DOMAIN m |-> m[t]]
    OBVIOUS
  <2>. QED
    BY <2>1, <2>2, <2>3 DEF IsMapOf
<1>8. mapBar' = m
  BY <1>6, <1>7, MapOfOnly
<1>9. s \notin DOMAIN mapBar
  BY <1>5, <1>6
<1>10. resultBar' = s
  BY <1>1, <1>2, <1>3, StrHashAssumption DEF resultBar
<1>11. ReturnedKey'
  BY <1>1, <1>2, <1>4 DEF ReturnedKey, UniqueKeys
<1>. QED
  BY <1>2, <1>8, <1>9, <1>10, <1>11 DEF StrMapOf!MapInsert

\* Growth: the new entry is lost, and its key is in no other entry.
LEMMA InsertGrowMap ==
  ASSUME IInv, IInv', NEW s \in Keys, NEW e \in Entries \ DOMAIN ent, InsertGrow(s, e)
  PROVE  StrMapOf!MapInsertLost(s) /\ ReturnedKey'
<1>1. TypeOK /\ ChainsWellPlaced
  BY DEF IInv
<1>2. /\ phase = "live" /\ phase' = "live" /\ Matching(s) = {} /\ ret' = e
      /\ Allocate(e, s)
      /\ index_size' = GetTableSize(index_size) /\ index' = Rehash(index_size')
  BY DEF InsertGrow
<1>3. ent'[e].key = s /\ \A f \in DOMAIN ent : ent'[f] = ent[f]
  BY <1>1, <1>2, AllocateFacts
<1>4. Linked \subseteq DOMAIN ent
  BY <1>1, LinkedFacts
<1>5. Linked' = Linked
  <2>1. index_size' \in Nat \ {0}
    BY <1>1, <1>2, TypeFacts, TableSizes
  <2>2. \A f \in Linked : /\ Hash(ent[f].key, index_size') \in Buckets(index_size')
                          /\ f \in Entries
    BY <1>1, <1>4, <2>1, TypeFacts, HashInBuckets DEF Linked
  <2>3. \A b \in Buckets(index_size') :
          index'[b] = {f \in Linked : Hash(ent[f].key, index_size') = b}
    BY <1>2 DEF Rehash
  <2>4. Linked' = {f \in Entries : \E b \in Buckets(index_size') : f \in index'[b]}
    BY DEF Linked
  <2>. QED
    BY <2>2, <2>3, <2>4
<1>6. mapBar' = mapBar
  BY <1>2, <1>3, <1>4, <1>5, SameMap
<1>7. \A f \in Linked : ent[f].key # s
  BY <1>1, <1>2, MatchingFacts
<1>8. s \notin DOMAIN mapBar
  BY <1>2, <1>7, MapBarFacts
<1>9. resultBar' = s
  BY <1>1, <1>2, <1>3, StrHashAssumption DEF resultBar
<1>10. ReturnedKey'
  BY <1>2, <1>3, <1>4, <1>5, <1>7 DEF ReturnedKey
<1>. QED
  BY <1>2, <1>6, <1>8, <1>9, <1>10 DEF StrMapOf!MapInsertLost

\* Storing data: in the entry of the table, or in a lost one.
LEMMA SetDataMap ==
  ASSUME IInv, IInv', ReturnedKey, NEW d \in Data, SetData(d)
  PROVE  StrMapOf!MapSetData(d) /\ ReturnedKey'
<1>. DEFINE k == ent[ret].key
            m == [mapBar EXCEPT ![k] = d]
<1>1. TypeOK /\ ChainsWellPlaced
  BY DEF IInv
<1>2. /\ phase = "live" /\ phase' = "live" /\ ret # NULL /\ ret' = ret
      /\ ent' = [ent EXCEPT ![ret].data = d]
  BY DEF SetData
<1>3. ret \in DOMAIN ent /\ Linked \subseteq DOMAIN ent
  BY <1>1, <1>2, LinkedFacts DEF TypeOK
<1>4. /\ \A f \in DOMAIN ent : ent'[f].key = ent[f].key
      /\ \A f \in DOMAIN ent : f # ret => ent'[f].data = ent[f].data
      /\ ent'[ret].data = d
  BY <1>1, <1>2, <1>3 DEF TypeOK
<1>5. Linked' = Linked
  BY DEF SetData, Linked
<1>6. /\ IsMapOf(mapBar, Linked, ent) /\ IsMapOf(mapBar', Linked', ent')
      /\ DOMAIN mapBar = {ent[f].key : f \in Linked}
  BY <1>2, MapBarFacts
<1>7. \A f \in Linked : ent[f].key = k => f = ret
  BY <1>2 DEF ReturnedKey
<1>8. IsMapOf(m, Linked', ent')
  <2>1. {ent'[f].key : f \in Linked'} = {ent[f].key : f \in Linked}
    BY <1>3, <1>4, <1>5
  <2>2. m = [t \in {ent'[f].key : f \in Linked'} |-> m[t]]
    BY <1>6, <2>1
  <2>3. ASSUME NEW f \in Linked' PROVE m[ent'[f].key] = ent'[f].data
    <3>1. f \in Linked /\ f \in DOMAIN ent /\ ent'[f].key = ent[f].key
      BY <1>3, <1>4, <1>5
    <3>2. ent[f].key \in DOMAIN mapBar /\ mapBar[ent[f].key] = ent[f].data
      BY <1>6, <3>1 DEF IsMapOf
    <3>3. CASE f = ret
      BY <1>4, <3>1, <3>2, <3>3
    <3>4. CASE f # ret
      <4>1. ent[f].key # k
        BY <1>7, <3>1, <3>4
      <4>. QED
        BY <1>4, <3>1, <3>2, <3>4, <4>1
    <3>. QED
      BY <3>3, <3>4
  <2>. QED
    BY <2>2, <2>3 DEF IsMapOf
<1>9. mapBar' = m
  BY <1>6, <1>8, MapOfOnly
<1>10. resultBar = k /\ resultBar' = k /\ k # NULL
  <2>1. k \in Keys
    BY <1>1, <1>3, TypeFacts
  <2>. QED
    BY <1>2, <1>3, <1>4, <2>1, StrHashAssumption DEF resultBar
<1>11. ReturnedKey'
  <2>1. ASSUME NEW e \in Linked', ent'[e].key = ent'[ret'].key
        PROVE  e = ret'
    <3>1. e \in Linked /\ ent'[e].key = ent[e].key
      BY <1>3, <1>4, <1>5
    <3>2. ent'[ret'].key = k
      BY <1>2, <1>3, <1>4
    <3>. QED
      BY <1>2, <1>7, <2>1, <3>1, <3>2
  <2>. QED
    BY <2>1 DEF ReturnedKey
<1>. QED
  BY <1>2, <1>9, <1>10, <1>11 DEF StrMapOf!MapSetData

\* Deletion: the key is gone as soon as its entry is unlinked.
LEMMA DeleteMap ==
  ASSUME IInv, IInv', NEW s \in Keys, DeleteUnlink(s)
  PROVE  StrMapOf!MapDelete(s) /\ ReturnedKey'
<1>. DEFINE m == [t \in DOMAIN mapBar \ {s} |-> mapBar[t]]
<1>1. TypeOK /\ ChainsWellPlaced /\ UniqueKeys
  BY DEF IInv
<1>2. PICK e \in Matching(s) : Unlink(e)
  BY DEF DeleteUnlink
<1>3. /\ phase = "live" /\ phase' = "live" /\ ret' = NULL
      /\ index_size' = index_size /\ ent' = ent
  BY DEF DeleteUnlink
<1>4. Linked' = Linked \ {e} /\ e \in Linked /\ ent[e].key = s
  BY <1>1, <1>2, <1>3, UnlinkFacts, MatchingFacts
<1>5. /\ IsMapOf(mapBar, Linked, ent) /\ IsMapOf(mapBar', Linked', ent')
      /\ DOMAIN mapBar = {ent[f].key : f \in Linked}
  BY <1>3, MapBarFacts
<1>6. \A f \in Linked : ent[f].key = s => f = e
  BY <1>1, <1>4 DEF UniqueKeys
<1>7. IsMapOf(m, Linked', ent')
  <2>1. DOMAIN mapBar \ {s} = {ent'[f].key : f \in Linked'}
    BY <1>3, <1>4, <1>5, <1>6
  <2>2. \A f \in Linked' : m[ent'[f].key] = ent'[f].data
    BY <1>3, <1>4, <1>5, <1>6, <2>1 DEF IsMapOf
  <2>3. m = [t \in {ent'[f].key : f \in Linked'} |-> m[t]]
    BY <2>1
  <2>. QED
    BY <2>2, <2>3 DEF IsMapOf
<1>8. mapBar' = m
  BY <1>5, <1>7, MapOfOnly
<1>9. s \in DOMAIN mapBar
  BY <1>4, <1>5
<1>. QED
  BY <1>3, <1>8, <1>9 DEF StrMapOf!MapDelete, resultBar, ReturnedKey

\* What follows a delete, and the parts of strhash_destroy after its beginning,
\* change nothing of the map.
LEMMA SilentMap ==
  ASSUME IInv, IInv', ReturnedKey,
         \/ \E e \in Entries : FreeEntry(e) \/ DestroyUnlink(e)
         \/ DestroyEnd
         \/ UNCHANGED vars
  PROVE  UNCHANGED <<mapBar, resultBar, (phase # "live")>> /\ ReturnedKey'
<1>1. TypeOK /\ ChainsWellPlaced
  BY DEF IInv
<1>2. ASSUME NEW e \in Entries, FreeEntry(e)
      PROVE  UNCHANGED <<mapBar, resultBar, phase>> /\ ReturnedKey'
  <2>1. /\ Linked' = Linked /\ UNCHANGED <<ret, phase>> /\ e \in deleting
        /\ \A f \in DOMAIN ent \ {e} : ent'[f] = ent[f]
    BY <1>2 DEF FreeEntry, Linked
  <2>2. /\ \A f \in Linked : f \in DOMAIN ent \ {e}
        /\ ret # NULL => ret \in DOMAIN ent \ {e}
    BY <1>1, <2>1, LinkedFacts DEF TypeOK
  <2>3. mapBar' = mapBar
    BY <2>1, <2>2, SameMap
  <2>. QED
    BY <2>1, <2>2, <2>3 DEF resultBar, ReturnedKey
<1>3. ASSUME (\E e \in Entries : DestroyUnlink(e)) \/ DestroyEnd
      PROVE  UNCHANGED <<mapBar, resultBar, (phase # "live")>> /\ ReturnedKey'
  <2>1. phase # "live" /\ phase' # "live"
    BY <1>3 DEF DestroyUnlink, DestroyEnd
  <2>. QED
    BY <2>1, MapBarFacts DEF resultBar, ReturnedKey
<1>4. ASSUME UNCHANGED vars
      PROVE  UNCHANGED <<mapBar, resultBar, phase>> /\ ReturnedKey'
  BY <1>4 DEF vars, mapBar, resultBar, PresentKeys, Linked, ReturnedKey
<1>. QED
  BY <1>2, <1>3, <1>4

\* strhash_destroy: the map is empty from its beginning.
LEMMA DestroyMap ==
  ASSUME IInv, IInv', DestroyBegin
  PROVE  StrMapOf!MapDestroy /\ ReturnedKey'
<1>1. phase = "live" /\ phase' # "live" /\ ret' = NULL
  BY DEF DestroyBegin
<1>. QED
  BY <1>1, MapBarFacts DEF StrMapOf!MapDestroy, resultBar, ReturnedKey

\* The table implements the map of gawkextlib.h but for the entry each growth
\* loses, whatever the keys, the hash function and the ladder of sizes: a table
\* that is searched, extended, grown and emptied never confuses two keys and
\* never returns data stored under another.
THEOREM ImplementsMap == Spec => ImplementsLossyMap
<1>. DEFINE MapStep == StrMapOf!MapNext \/ \E s \in Keys : StrMapOf!MapInsertLost(s)
<1>1. Init => StrMapOf!MapInit /\ ReturnedKey
  BY InitMap
<1>2. IInv /\ IInv' /\ ReturnedKey /\ [Next]_vars
        => [MapStep]_(StrMapOf!mapVars) /\ ReturnedKey'
  <2>. SUFFICES ASSUME IInv, IInv', ReturnedKey, [Next]_vars
                PROVE  /\ MapStep \/ UNCHANGED <<mapBar, resultBar, (phase # "live")>>
                       /\ ReturnedKey'
    BY DEF StrMapOf!mapVars
  <2>1. CASE \E s \in Keys : Find(s) \/ Miss(s) \/ DeleteUnlink(s)
    BY <2>1, LookupMap, DeleteMap DEF StrMapOf!MapNext
  <2>2. CASE \E s \in Keys, e \in Entries \ DOMAIN ent :
               InsertLinked(s, e) \/ InsertGrow(s, e)
    BY <2>2, InsertLinkedMap, InsertGrowMap DEF StrMapOf!MapNext
  <2>3. CASE \E d \in Data : SetData(d)
    BY <2>3, SetDataMap DEF StrMapOf!MapNext
  <2>4. CASE DestroyBegin
    BY <2>4, DestroyMap DEF StrMapOf!MapNext
  <2>5. CASE \/ \E e \in Entries : FreeEntry(e) \/ DestroyUnlink(e)
             \/ DestroyEnd
             \/ UNCHANGED vars
    BY <2>5, SilentMap
  <2>. QED
    BY <2>1, <2>2, <2>3, <2>4, <2>5 DEF Next
<1>. QED
  BY <1>1, <1>2, Invariance, PTL DEF Spec, ImplementsLossyMap, StrMapOf!LossyMapSpec

=============================================================================
