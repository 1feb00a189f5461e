--------------------------- MODULE HandlesProofs ----------------------------
(***************************************************************************)
(* Proofs about MCHandles: the handles of haru, gd and pgsql, for any      *)
(* number of objects, handles, names and arrays and any ladder of sizes.   *)
(*                                                                         *)
(* The argument.  A table issues the numbers below its counter and none    *)
(* twice (IsTable), so a handle that was deleted never comes back.  What   *)
(* is in the tables follows the library because a document, an image and a *)
(* connection has one handle from its making on (Single), the one that is  *)
(* deleted as the object ends; a result of pgsql has the number of its     *)
(* handle.  An object that gets no handle is one of those its table has    *)
(* lost, of which each size it has outgrown accounts for one.  A document  *)
(* is its own document, so that freeing the contents of one leaves all     *)
(* others alone.                                                           *)
(***************************************************************************)
EXTENDS MCHandles, HandleTable, Sequences, SequenceTheorems,
        WellFoundedInduction, TLAPS

-----------------------------------------------------------------------------
(* The sizes of a table.                                                   *)

\* The next size of the ladder is one of the larger ones.
LEMMA NextSize ==
  ASSUME NEW size \in Nat, Larger(size) # {}
  PROVE  GetTableSize(size) \in Sizes /\ size < GetTableSize(size)
<1>1. Larger(size) \in SUBSET Nat
  BY TableLoadAssumption DEF Larger
<1>2. IsWellFoundedOn(OpToRel(<, Nat), Nat)
  BY NatLessThanWellFounded
<1>3. PICK x \in Larger(size) :
        \A y \in Larger(size) : ~(<<y, x>> \in OpToRel(<, Nat))
  BY <1>1, <1>2, WFMin
<1>4. \A y \in Larger(size) : x <= y
  <2>1. \A y \in Larger(size) : ~(y < x)
    BY <1>1, <1>3 DEF OpToRel
  <2>. QED
    BY <1>1, <2>1
<1>5. GetTableSize(size) \in Larger(size)
  BY <1>4 DEF GetTableSize
<1>. QED
  BY <1>5 DEF Larger

LEMMA FirstSize == GetTableSize(0) \in Sizes
<1>1. Larger(0) # {}
  BY TableLoadAssumption DEF Larger
<1>. QED
  BY <1>1, NextSize

LEMMA FirstLoad == LoadOK(NewLoad)
<1>1. NewLoad.size \in Nat /\ NewLoad.size = GetTableSize(0)
  BY FirstSize, TableLoadAssumption DEF NewLoad
<1>2. NewLoad.entries = 0 /\ DOMAIN NewLoad.lost = {}
  BY DEF NewLoad
<1>. QED
  BY <1>1, <1>2, FirstSize DEF LoadOK

\* An insertion loses its own handle or none, and forgets no earlier loss.
LEMMA InsertedLoad ==
  ASSUME NEW old, LoadOK(old), NEW h
  PROVE  /\ LoadOK(Inserted(old, h))
         /\ Lost(old) \subseteq Lost(Inserted(old, h))
         /\ Grows(old) => h \in Lost(Inserted(old, h))
<1>1. /\ old.entries \in Int
      /\ old.size \in Sizes /\ GetTableSize(0) <= old.size
      /\ DOMAIN old.lost \subseteq Outgrown(old.size)
  BY DEF LoadOK
<1>2. CASE ~Grows(old)
  BY <1>1, <1>2 DEF Inserted, LoadOK, Lost
<1>3. CASE Grows(old)
  <2>1. /\ GetTableSize(old.size) \in Sizes
        /\ old.size < GetTableSize(old.size)
    BY <1>1, <1>3, NextSize, TableLoadAssumption DEF Grows
  <2>2. old.size \notin DOMAIN old.lost
    <3>1. old.size \in Nat
      BY <1>1, TableLoadAssumption
    <3>2. old.size \notin Outgrown(old.size)
      BY <3>1 DEF Outgrown
    <3>. QED
      BY <1>1, <3>2
  <2>. DEFINE new == Inserted(old, h)
  <2>3. /\ new.entries = old.entries + 1
        /\ new.size = GetTableSize(old.size)
        /\ DOMAIN new.lost = DOMAIN old.lost \cup {old.size}
        /\ new.lost[old.size] = h
        /\ \A s \in DOMAIN old.lost : new.lost[s] = old.lost[s]
    BY <1>3, <2>2 DEF Inserted
  <2>. HIDE DEF new
  <2>4. LoadOK(new)
    <3>0. /\ GetTableSize(0) \in Nat /\ old.size \in Nat /\ new.size \in Nat
          /\ Sizes \subseteq Nat
      BY <1>1, <2>1, <2>3, FirstSize, TableLoadAssumption
    <3>1. Outgrown(old.size) \cup {old.size} \subseteq Outgrown(new.size)
      <4>1. ASSUME NEW s \in Sizes, GetTableSize(0) <= s, s <= old.size
            PROVE  s < new.size
        <5>1. s \in Nat /\ old.size < new.size
          BY <2>1, <2>3, <3>0
        <5>. QED
          BY <3>0, <4>1, <5>1
      <4>2. \A s \in Outgrown(old.size) \cup {old.size} :
              s \in Sizes /\ GetTableSize(0) <= s /\ s <= old.size
        BY <1>1, <3>0 DEF Outgrown
      <4>. QED
        BY <4>1, <4>2 DEF Outgrown
    <3>2. GetTableSize(0) <= new.size
      <4>1. old.size < new.size
        BY <2>1, <2>3
      <4>. QED
        BY <1>1, <3>0, <4>1
    <3>. QED
      BY <1>1, <2>1, <2>3, <3>1, <3>2 DEF LoadOK
  <2>5. Lost(old) \subseteq Lost(new) /\ h \in Lost(new)
    BY <2>3 DEF Lost
  <2>. QED
    BY <2>4, <2>5 DEF new
<1>. QED
  BY <1>2, <1>3

LEMMA ReleasedLoad ==
  ASSUME NEW old, LoadOK(old)
  PROVE  LoadOK(Released(old)) /\ Lost(Released(old)) = Lost(old)
BY DEF LoadOK, Released, Lost

-----------------------------------------------------------------------------
(* Tables and sequences.                                                   *)

\* A table with the handles below its counter that were neither deleted nor lost.
IsTable(t) ==
  /\ t = [names |-> t.names, hnum |-> t.hnum, load |-> t.load]
  /\ t.names = [n \in DOMAIN t.names |-> t.names[n]]
  /\ t.hnum \in Nat
  /\ \A n \in DOMAIN t.names : n \in Nat /\ n < t.hnum
  /\ LoadOK(t.load)

\* Each object of a table has one handle.
Single(t) == \A m, n \in DOMAIN t.names : t.names[m] = t.names[n] => m = n

Objects(t) == {t.names[n] : n \in DOMAIN t.names}

\* u is t after o got a handle, which is in it or lost.
Adds(t, u, o) ==
  /\ IsTable(u)
  /\ t.hnum \notin DOMAIN t.names
  /\ \/ /\ DOMAIN u.names = DOMAIN t.names \cup {t.hnum}
        /\ u.names[t.hnum] = o
     \/ DOMAIN u.names = DOMAIN t.names /\ o \in Lost(u.load)
  /\ \A n \in DOMAIN t.names : u.names[n] = t.names[n]
  /\ Lost(t.load) \subseteq Lost(u.load)
  /\ u.hnum = t.hnum + 1

\* u is t with one handle less.
Deletes(t, u, n) ==
  /\ IsTable(u)
  /\ DOMAIN u.names = DOMAIN t.names \ {n}
  /\ \A m \in DOMAIN u.names : u.names[m] = t.names[m]
  /\ Lost(u.load) = Lost(t.load)
  /\ u.hnum = t.hnum

\* The empty table is one.
LEMMA EmptyIsTable == IsTable(EmptyTable) /\ DOMAIN EmptyTable.names = {}
  BY FirstLoad DEF EmptyTable, IsTable

\* Issue adds the next number to a table, or the table loses it.
LEMMA IssueAdds ==
  ASSUME NEW t, NEW o, IsTable(t)
  PROVE  Adds(t, Issue(t, o), o)
  <1> DEFINE entered == Entered(t.names, t.hnum, o)
             names == IF Grows(t.load) THEN t.names ELSE entered
             load == Inserted(t.load, o)
             u == Issue(t, o)
  <1>1. u = [names |-> names, hnum |-> t.hnum + 1, load |-> load]
    BY DEF Issue
  <1>2. u.names = names /\ u.hnum = t.hnum + 1 /\ u.load = load
    BY <1>1
  <1>3. entered = [n \in DOMAIN t.names \cup {t.hnum} |->
                     IF n = t.hnum THEN o ELSE t.names[n]]
    BY DEF Entered
  <1>4. /\ LoadOK(load) /\ Lost(t.load) \subseteq Lost(load)
        /\ Grows(t.load) => o \in Lost(load)
    BY InsertedLoad DEF IsTable
  <1> HIDE DEF entered, load, u
  <1>5. t.hnum \in Nat /\ t.hnum \notin DOMAIN t.names
    BY DEF IsTable
  <1>6. /\ DOMAIN entered = DOMAIN t.names \cup {t.hnum}
        /\ entered[t.hnum] = o
        /\ \A n \in DOMAIN t.names : entered[n] = t.names[n]
        /\ entered = [n \in DOMAIN entered |-> entered[n]]
    BY <1>3, <1>5
  <1>7. /\ \/ DOMAIN names = DOMAIN t.names \cup {t.hnum} /\ names[t.hnum] = o
           \/ DOMAIN names = DOMAIN t.names /\ o \in Lost(load)
        /\ \A n \in DOMAIN t.names : names[n] = t.names[n]
        /\ names = [n \in DOMAIN names |-> names[n]]
    <2>1. t.names = [n \in DOMAIN t.names |-> t.names[n]]
      BY DEF IsTable
    <2>2. QED
      BY <1>4, <1>6, <2>1
  <1> HIDE DEF names
  <1>8. \A n \in DOMAIN u.names : n \in Nat /\ n < u.hnum
    BY <1>2, <1>5, <1>7 DEF IsTable
  <1>9. IsTable(u)
    <2>1. u = [names |-> u.names, hnum |-> u.hnum, load |-> u.load]
      BY <1>1, <1>2
    <2>2. u.hnum \in Nat
      BY <1>2, <1>5
    <2>3. QED
      BY <1>2, <1>4, <1>7, <1>8, <2>1, <2>2 DEF IsTable
  <1>10. Adds(t, u, o)
    BY <1>2, <1>4, <1>5, <1>7, <1>9 DEF Adds
  <1>11. QED
    BY <1>10 DEF u

\* Without takes one number from a table.
LEMMA WithoutDeletes ==
  ASSUME NEW t, NEW n, IsTable(t)
  PROVE  Deletes(t, Without(t, n), n)
  <1> DEFINE names == [m \in DOMAIN t.names \ {n} |-> t.names[m]]
             load == Released(t.load)
             u == Without(t, n)
  <1>1. u = [names |-> names, hnum |-> t.hnum, load |-> load]
    BY DEF Without
  <1>2. u.names = names /\ u.hnum = t.hnum /\ u.load = load
    BY <1>1
  <1>3. /\ DOMAIN names = DOMAIN t.names \ {n}
        /\ \A m \in DOMAIN names : names[m] = t.names[m]
        /\ names = [m \in DOMAIN names |-> names[m]]
    OBVIOUS
  <1>4. LoadOK(load) /\ Lost(load) = Lost(t.load)
    BY ReleasedLoad DEF IsTable
  <1> HIDE DEF names, load, u
  <1>5. IsTable(u)
    BY <1>1, <1>2, <1>3, <1>4 DEF IsTable
  <1>6. Deletes(t, u, n)
    BY <1>2, <1>3, <1>4, <1>5 DEF Deletes
  <1>7. QED
    BY <1>6 DEF u

\* A handle keeps its meaning when another is added or deleted.
LEMMA AddingKeeps ==
  ASSUME NEW t, NEW u, NEW o, IsTable(t), Adds(t, u, o)
  PROVE  Keeps(t, u)
  BY DEF IsTable, Adds, Keeps, Found

LEMMA DeletingKeeps ==
  ASSUME NEW t, NEW u, NEW n, IsTable(t), Deletes(t, u, n)
  PROVE  Keeps(t, u)
  BY DEF IsTable, Deletes, Keeps, Found

LEMMA NothingKeeps ==
  ASSUME NEW t
  PROVE  Keeps(t, t)
  BY DEF Keeps

\* The objects of a table and perhaps the one more.
LEMMA AddingObjects ==
  ASSUME NEW t, NEW u, NEW o, IsTable(t), Adds(t, u, o)
  PROVE  /\ Objects(t) \subseteq Objects(u)
         /\ Objects(u) \subseteq Objects(t) \cup {o}
         /\ o \in Objects(u) \cup Lost(u.load)
  BY DEF IsTable, Adds, Objects

\* An object that had no handle has one after it was issued, if any.
LEMMA AddingSingle ==
  ASSUME NEW t, NEW u, NEW o, IsTable(t), Adds(t, u, o),
         Single(t), o \notin Objects(t)
  PROVE  Single(u)
  BY DEF IsTable, Adds, Single, Objects

\* An object that had one handle has none after that was deleted.
LEMMA DeletingSingle ==
  ASSUME NEW t, NEW u, NEW n \in DOMAIN t.names, IsTable(t), Deletes(t, u, n),
         Single(t)
  PROVE  Single(u) /\ Objects(u) = Objects(t) \ {t.names[n]}
  BY DEF IsTable, Deletes, Single, Objects

\* A table that names the objects of a set goes on to do so.
LEMMA AddingNames ==
  ASSUME NEW t, NEW u, NEW o, NEW S, IsTable(t), Adds(t, u, o), NamesAll(t, S)
  PROVE  NamesAll(u, S \cup {o})
  <1>1. /\ Objects(t) \subseteq S /\ S \ Objects(t) \subseteq Lost(t.load)
    BY DEF NamesAll, Objects
  <1>2. /\ Objects(u) \subseteq S \cup {o}
        /\ (S \cup {o}) \ Objects(u) \subseteq Lost(u.load)
    BY <1>1, AddingObjects DEF Adds
  <1>3. DOMAIN u.load.lost \subseteq Outgrown(u.load.size)
    BY DEF Adds, IsTable, LoadOK
  <1>4. QED
    BY <1>2, <1>3 DEF NamesAll, Objects

LEMMA DeletingNames ==
  ASSUME NEW t, NEW u, NEW n \in DOMAIN t.names, NEW S, IsTable(t),
         Deletes(t, u, n), Single(t), NamesAll(t, S)
  PROVE  NamesAll(u, S \ {t.names[n]})
  <1>1. /\ Objects(t) \subseteq S /\ S \ Objects(t) \subseteq Lost(t.load)
    BY DEF NamesAll, Objects
  <1>2. /\ Objects(u) \subseteq S \ {t.names[n]}
        /\ (S \ {t.names[n]}) \ Objects(u) \subseteq Lost(u.load)
    BY <1>1, DeletingSingle DEF Deletes
  <1>3. DOMAIN u.load.lost \subseteq Outgrown(u.load.size)
    BY DEF Deletes, IsTable, LoadOK
  <1>4. QED
    BY <1>2, <1>3 DEF NamesAll, Objects

\* An empty table names no object.
LEMMA EmptyNames == NamesAll(EmptyTable, {})
  <1>1. EmptyTable.load = NewLoad
    BY DEF EmptyTable
  <1>2. QED
    BY <1>1, EmptyIsTable, FirstLoad DEF NamesAll, LoadOK

\* Objects that are numbered by their handles.
Numbered(t) == \A n \in DOMAIN t.names : t.names[n] = n

\* Each of them has one handle, and the next number names none.
LEMMA NumberedSingle ==
  ASSUME NEW t, IsTable(t), Numbered(t)
  PROVE  Single(t) /\ t.hnum \notin Objects(t)
  BY DEF IsTable, Numbered, Single, Objects

LEMMA NumberedStays ==
  ASSUME NEW t, NEW u, IsTable(t), Numbered(t),
         Adds(t, u, t.hnum) \/ \E n \in DOMAIN t.names : Deletes(t, u, n)
  PROVE  Numbered(u)
  BY DEF IsTable, Numbered, Adds, Deletes

\* The loads of the tables of the extensions are all of this kind.
LEMMA SameSizes ==
  /\ \A n : /\ Haru!GetTableSize(n) = GetTableSize(n)
            /\ Gd!GetTableSize(n) = GetTableSize(n)
            /\ Pg!GetTableSize(n) = GetTableSize(n)
            /\ Haru!Larger(n) = Larger(n)
            /\ Gd!Larger(n) = Larger(n)
            /\ Pg!Larger(n) = Larger(n)
            /\ Haru!Outgrown(n) = Outgrown(n)
            /\ Gd!Outgrown(n) = Outgrown(n)
            /\ Pg!Outgrown(n) = Outgrown(n)
            /\ Haru!Grows(n) <=> Grows(n)
            /\ Gd!Grows(n) <=> Grows(n)
            /\ Pg!Grows(n) <=> Grows(n)
            /\ Haru!Lost(n) = Lost(n)
            /\ Gd!Lost(n) = Lost(n)
            /\ Pg!Lost(n) = Lost(n)
            /\ Haru!Released(n) = Released(n)
            /\ Gd!Released(n) = Released(n)
            /\ Pg!Released(n) = Released(n)
  /\ Haru!NewLoad = NewLoad /\ Gd!NewLoad = NewLoad /\ Pg!NewLoad = NewLoad
  BY DEF GetTableSize, Haru!GetTableSize, Gd!GetTableSize, Pg!GetTableSize,
         Larger, Haru!Larger, Gd!Larger, Pg!Larger,
         Outgrown, Haru!Outgrown, Gd!Outgrown, Pg!Outgrown,
         Grows, Haru!Grows, Gd!Grows, Pg!Grows,
         Lost, Haru!Lost, Gd!Lost, Pg!Lost,
         Released, Haru!Released, Gd!Released, Pg!Released,
         NewLoad, Haru!NewLoad, Gd!NewLoad, Pg!NewLoad

LEMMA SameLoads ==
  \A l, o : /\ Haru!Inserted(l, o) = Inserted(l, o)
           /\ Gd!Inserted(l, o) = Inserted(l, o)
           /\ Pg!Inserted(l, o) = Inserted(l, o)
  BY SameSizes DEF Inserted, Haru!Inserted, Gd!Inserted, Pg!Inserted

\* And so are the tables.
LEMMA SameTables ==
  /\ Haru!EmptyTable = EmptyTable
  /\ Gd!EmptyTable = EmptyTable
  /\ Pg!EmptyTable = EmptyTable
  /\ \A t, o : /\ Haru!Issue(t, o) = Issue(t, o)
               /\ Gd!Issue(t, o) = Issue(t, o)
               /\ Pg!Issue(t, o) = Issue(t, o)
               /\ Haru!Without(t, o) = Without(t, o)
               /\ Gd!Without(t, o) = Without(t, o)
               /\ Pg!Without(t, o) = Without(t, o)
               /\ Haru!Keeps(t, o) <=> Keeps(t, o)
               /\ Pg!Keeps(t, o) <=> Keeps(t, o)
               /\ Gd!NamesAll(t, o) <=> NamesAll(t, o)
               /\ Pg!NamesAll(t, o) <=> NamesAll(t, o)
  BY SameSizes, SameLoads
  DEF EmptyTable, Haru!EmptyTable, Gd!EmptyTable, Pg!EmptyTable,
         Issue, Haru!Issue, Gd!Issue, Pg!Issue,
         Entered, Haru!Entered, Gd!Entered, Pg!Entered,
         Without, Haru!Without, Gd!Without, Pg!Without,
         Found, Haru!Found, Pg!Found, Keeps, Haru!Keeps, Pg!Keeps,
         NamesAll, Gd!NamesAll, Pg!NamesAll

-----------------------------------------------------------------------------
(* gd.                                                                     *)

GdInv ==
  /\ IsTable(imgs)
  /\ Numbered(imgs)
  /\ Gd!ImagesNamed

\* What a step of gd or of another extension does to the tables of gd.
GdKeeps == Keeps(imgs, imgs')

LEMMA GdInitInv == Gd!GdInit => GdInv
  <1> SUFFICES ASSUME Gd!GdInit PROVE GdInv
    OBVIOUS
  <1>1. imgs = EmptyTable /\ live = {}
    BY SameTables DEF Gd!GdInit
  <1>2. IsTable(imgs) /\ DOMAIN imgs.names = {}
    BY <1>1, EmptyIsTable
  <1>3. QED
    BY <1>1, <1>2, EmptyNames, SameTables DEF GdInv, Numbered, Gd!ImagesNamed

\* The images and their handles.
LEMMA GdTable ==
  ASSUME GdInv, Gd!GdNext
  PROVE  IsTable(imgs)' /\ Numbered(imgs)' /\ Gd!ImagesNamed' /\ GdKeeps
  <1>1. IsTable(imgs) /\ Numbered(imgs) /\ Gd!ImagesNamed
    BY DEF GdInv
  <1>2. /\ Single(imgs) /\ imgs.hnum \notin Objects(imgs)
        /\ NamesAll(imgs, live)
    BY <1>1, NumberedSingle, SameTables DEF Gd!ImagesNamed
  <1>3. CASE UNCHANGED <<imgs, live>>
    BY <1>1, <1>2, <1>3, NothingKeeps, SameTables
    DEF Gd!ImagesNamed, GdKeeps, IsTable, Numbered
  <1>4. CASE imgs' = Issue(imgs, imgs.hnum) /\ live' = live \cup {imgs.hnum}
    <2>1. Adds(imgs, imgs', imgs.hnum)
      BY <1>1, <1>4, IssueAdds
    <2>2. Single(imgs') /\ NamesAll(imgs', live')
      BY <1>1, <1>2, <1>4, <2>1, AddingSingle, AddingNames
    <2>3. IsTable(imgs') /\ Numbered(imgs') /\ Keeps(imgs, imgs')
      BY <1>1, <2>1, AddingKeeps, NumberedStays DEF Adds
    <2>4. QED
      BY <2>2, <2>3, SameTables DEF Gd!ImagesNamed, GdKeeps, Single
  <1>5. CASE \E n \in DOMAIN imgs.names :
               imgs' = Without(imgs, n) /\ live' = live \ {imgs.names[n]}
    <2>1. PICK n \in DOMAIN imgs.names :
            imgs' = Without(imgs, n) /\ live' = live \ {imgs.names[n]}
      BY <1>5
    <2>2. Deletes(imgs, imgs', n)
      BY <1>1, <2>1, WithoutDeletes
    <2>3. Single(imgs') /\ NamesAll(imgs', live')
      BY <1>1, <1>2, <2>1, <2>2, DeletingSingle, DeletingNames
    <2>4. IsTable(imgs') /\ Numbered(imgs') /\ Keeps(imgs, imgs')
      BY <1>1, <2>2, DeletingKeeps, NumberedStays DEF Deletes
    <2>5. QED
      BY <2>3, <2>4, SameTables DEF Gd!ImagesNamed, GdKeeps, Single
  <1>6. QED
    BY <1>3, <1>4, <1>5, SameTables
    DEF Gd!GdNext, Gd!Create, Gd!Destroy, Gd!Draw, Gd!StringFT

-----------------------------------------------------------------------------
(* pgsql.                                                                  *)

OpenStates == {"idle", "busy", "in", "out", "bad"}

PgConnsInv ==
  /\ IsTable(conns) /\ Single(conns)
  /\ links \in Seq(OpenStates \cup {"closed"})
  /\ NamesAll(conns, {c \in 1 .. Len(links) : links[c] # "closed"})

PgResultsInv ==
  /\ IsTable(results) /\ Numbered(results)
  /\ NamesAll(results, tuples)
  /\ contents \in Seq(Pg!Results)
  /\ Len(contents) = results.hnum

\* The names taken so far are below the counter.
PgNamesInv ==
  /\ prepnum \in Nat
  /\ prepared \in SUBSET (Nat \X Nat)
  /\ \A p \in prepared : p[2] < prepnum
  /\ Pg!NamesUnique

PgInv ==
  /\ PgConnsInv
  /\ PgResultsInv
  /\ PgNamesInv
  /\ Pg!RowsAgree

PgKeeps == Keeps(conns, conns') /\ Keeps(results, results')

LEMMA PgInitInv == Pg!PgInit => PgInv
  <1> SUFFICES ASSUME Pg!PgInit PROVE PgInv
    OBVIOUS
  <1>1. /\ conns = EmptyTable /\ results = EmptyTable
        /\ links = <<>> /\ tuples = {} /\ contents = <<>>
        /\ prepnum = 0 /\ prepared = {} /\ row = NULL
    BY SameTables DEF Pg!PgInit
  <1>2. /\ IsTable(conns) /\ IsTable(results)
        /\ DOMAIN conns.names = {} /\ DOMAIN results.names = {}
        /\ results.hnum = 0
    BY <1>1, EmptyIsTable DEF EmptyTable
  <1>3. PgConnsInv
    BY <1>1, <1>2, EmptyNames DEF PgConnsInv, Single
  <1>4. PgResultsInv
    BY <1>1, <1>2, EmptyNames DEF PgResultsInv, Numbered
  <1>5. PgNamesInv /\ Pg!RowsAgree
    BY <1>1 DEF PgNamesInv, Pg!NamesUnique, Pg!RowsAgree
  <1>6. QED
    BY <1>1, <1>3, <1>4, <1>5 DEF PgInv

\* A step leaves the connections alone, changes what is going on on one that is
\* open, makes one or ends one.
PgLinkStep ==
  \/ UNCHANGED <<conns, links>>
  \/ /\ UNCHANGED conns
     /\ \E n \in DOMAIN conns.names, s \in OpenStates :
          links' = [links EXCEPT ![conns.names[n]] = s]
  \/ /\ conns' = Issue(conns, Len(links) + 1)
     /\ links' = Append(links, "idle")
  \/ \E n \in DOMAIN conns.names :
       /\ conns' = Without(conns, n)
       /\ links' = [links EXCEPT ![conns.names[n]] = "closed"]

\* Every result leaves its connection open.
LEMMA StatesOfOutcomes == \A o \in Pg!Outcomes : o[2] \in OpenStates
  BY DEF Pg!Outcomes, OpenStates

LEMMA PgStepsOfLinks == Pg!PgNext => PgLinkStep
  <1> SUFFICES ASSUME Pg!PgNext PROVE PgLinkStep
    OBVIOUS
  <1> USE DEF PgLinkStep, OpenStates, Pg!Link, Pg!Goes
  <1>1. CASE Pg!Connect \/ Pg!Disconnect
    BY <1>1, SameTables DEF Pg!Connect, Pg!Disconnect
  <1>2. CASE Pg!Reset
    BY <1>2 DEF Pg!Reset
  <1>3. CASE Pg!Send
    BY <1>3 DEF Pg!Send
  <1>4. CASE Pg!SendPrepare
    BY <1>4 DEF Pg!SendPrepare
  <1>5. CASE Pg!Prepare
    BY <1>5 DEF Pg!Prepare
  <1>6. CASE Pg!Exec
    <2>1. UNCHANGED conns
      BY <1>6 DEF Pg!Exec
    <2>2. PICK n \in DOMAIN conns.names :
            \/ \E o \in Pg!Outcomes : links' = [links EXCEPT ![conns.names[n]] = o[2]]
            \/ UNCHANGED links
      BY <1>6 DEF Pg!Exec
    <2>3. QED
      BY <2>1, <2>2, StatesOfOutcomes
  <1>7. CASE Pg!GetResult
    <2>1. UNCHANGED conns
      BY <1>7 DEF Pg!GetResult
    <2>2. PICK n \in DOMAIN conns.names :
            \/ \E o \in Pg!Outcomes :
                 links' = [links EXCEPT ![conns.names[n]] =
                             IF o[2] = "idle" THEN "busy" ELSE o[2]]
            \/ UNCHANGED links
            \/ /\ links[conns.names[n]] \in OpenStates
               /\ links' = [links EXCEPT ![conns.names[n]] =
                              IF links[conns.names[n]] = "busy"
                              THEN "idle" ELSE links[conns.names[n]]]
      BY <1>7 DEF Pg!GetResult
    <2>3. QED
      BY <2>1, <2>2, StatesOfOutcomes
  <1>8. CASE Pg!Copy
    BY <1>8 DEF Pg!Copy
  <1>9. CASE \/ Pg!Ask \/ Pg!EndEarly \/ Pg!Clear
             \/ Pg!Describe \/ Pg!ReadField \/ Pg!GetRow
    BY <1>9 DEF Pg!Ask, Pg!EndEarly, Pg!Clear, Pg!Describe, Pg!ReadField,
                Pg!GetRow
  <1>10. QED
    BY <1>1, <1>2, <1>3, <1>4, <1>5, <1>6, <1>7, <1>8, <1>9 DEF Pg!PgNext

LEMMA PgConns ==
  ASSUME PgConnsInv, PgLinkStep
  PROVE  PgConnsInv' /\ Keeps(conns, conns')
  <1> DEFINE Open == {c \in 1 .. Len(links) : links[c] # "closed"}
  <1>1. /\ IsTable(conns) /\ Single(conns)
        /\ links \in Seq(OpenStates \cup {"closed"})
        /\ NamesAll(conns, Open)
    BY DEF PgConnsInv
  <1>2. "closed" \notin OpenStates
    BY DEF OpenStates
  <1>3. Objects(conns) \subseteq 1 .. Len(links)
    BY <1>1 DEF NamesAll, Objects
  <1>4. CASE UNCHANGED <<conns, links>>
    BY <1>1, <1>4, NothingKeeps DEF PgConnsInv, Single, IsTable
  <1>5. CASE /\ UNCHANGED conns
             /\ \E n \in DOMAIN conns.names, s \in OpenStates :
                  links' = [links EXCEPT ![conns.names[n]] = s]
    <2>1. PICK n \in DOMAIN conns.names, s \in OpenStates :
            links' = [links EXCEPT ![conns.names[n]] = s]
      BY <1>5
    <2>2. conns.names[n] \in Open
      BY <1>1 DEF NamesAll
    <2>3. /\ links' \in Seq(OpenStates \cup {"closed"})
          /\ Len(links') = Len(links)
          /\ \A c \in 1 .. Len(links) : links'[c] # "closed" <=> links[c] # "closed"
      BY <1>1, <1>2, <2>1, <2>2
    <2>4. Open' = Open
      BY <1>1, <2>3
    <2>5. conns' = conns
      BY <1>5
    <2> HIDE DEF Open
    <2>6. NamesAll(conns', Open')
      BY <1>1, <2>4, <2>5
    <2>7. IsTable(conns') /\ Single(conns') /\ Keeps(conns, conns')
      BY <1>1, <2>5, NothingKeeps
    <2>8. QED
      BY <2>3, <2>6, <2>7 DEF PgConnsInv, Open
  <1>6. CASE /\ conns' = Issue(conns, Len(links) + 1)
             /\ links' = Append(links, "idle")
    <2>1. Adds(conns, conns', Len(links) + 1)
      BY <1>1, <1>6, IssueAdds
    <2>2. Len(links) + 1 \notin Objects(conns)
      BY <1>1, <1>3
    <2>3. /\ Single(conns')
          /\ NamesAll(conns', Open \cup {Len(links) + 1})
      BY <1>1, <2>1, <2>2, AddingSingle, AddingNames
    <2>4. /\ links' \in Seq(OpenStates \cup {"closed"})
          /\ Len(links') = Len(links) + 1
          /\ links'[Len(links) + 1] = "idle"
          /\ \A c \in 1 .. Len(links) : links'[c] = links[c]
      BY <1>1, <1>6 DEF OpenStates
    <2>5. Open' = Open \cup {Len(links) + 1}
      BY <1>1, <2>4
    <2>6. IsTable(conns') /\ Keeps(conns, conns')
      BY <1>1, <2>1, AddingKeeps DEF Adds
    <2> HIDE DEF Open
    <2>7. NamesAll(conns', Open')
      BY <2>3, <2>5
    <2>8. QED
      BY <2>3, <2>4, <2>6, <2>7 DEF PgConnsInv, Open
  <1>7. CASE \E n \in DOMAIN conns.names :
               /\ conns' = Without(conns, n)
               /\ links' = [links EXCEPT ![conns.names[n]] = "closed"]
    <2>1. PICK n \in DOMAIN conns.names :
               /\ conns' = Without(conns, n)
               /\ links' = [links EXCEPT ![conns.names[n]] = "closed"]
      BY <1>7
    <2>2. Deletes(conns, conns', n)
      BY <1>1, <2>1, WithoutDeletes
    <2>3. Single(conns') /\ NamesAll(conns', Open \ {conns.names[n]})
      BY <1>1, <2>2, DeletingSingle, DeletingNames
    <2>4. conns.names[n] \in 1 .. Len(links)
      BY <1>3 DEF Objects
    <2>5. /\ links' \in Seq(OpenStates \cup {"closed"})
          /\ Len(links') = Len(links)
          /\ \A c \in 1 .. Len(links) :
               links'[c] # "closed" <=> links[c] # "closed" /\ c # conns.names[n]
      BY <1>1, <2>1, <2>4
    <2>6. Open' = Open \ {conns.names[n]}
      BY <1>1, <2>5
    <2>7. IsTable(conns') /\ Keeps(conns, conns')
      BY <1>1, <2>2, DeletingKeeps DEF Deletes
    <2> HIDE DEF Open
    <2>8. NamesAll(conns', Open')
      BY <2>3, <2>6
    <2>9. QED
      BY <2>3, <2>5, <2>7, <2>8 DEF PgConnsInv, Open
  <1>8. QED
    BY <1>4, <1>5, <1>6, <1>7 DEF PgLinkStep

\* A step leaves the results alone, makes one or clears one: the results that are
\* no tuples are cleared by the call that got them.
PgResultStep ==
  \/ UNCHANGED <<results, tuples, contents>>
  \/ Pg!TuplesResult
  \/ \E n \in DOMAIN results.names :
       /\ results' = Without(results, n)
       /\ tuples' = tuples \ {results.names[n]}
       /\ UNCHANGED contents

LEMMA PgProcessResult ==
  ASSUME NEW status, Pg!ProcessResult(status)
  PROVE  PgResultStep
  BY DEF Pg!ProcessResult, Pg!OtherResult, Pg!Cleared, PgResultStep

LEMMA PgStepsOfResults == Pg!PgNext => PgResultStep
  <1> SUFFICES ASSUME Pg!PgNext PROVE PgResultStep
    OBVIOUS
  <1>1. CASE Pg!Exec
    <2>1. \/ \E o \in Pg!Outcomes : Pg!ProcessResult(o[1])
          \/ UNCHANGED <<results, tuples, contents>>
      BY <1>1 DEF Pg!Exec
    <2>2. QED
      BY <2>1, PgProcessResult DEF PgResultStep
  <1>2. CASE Pg!GetResult
    <2>1. \/ \E o \in Pg!Outcomes : Pg!ProcessResult(o[1])
          \/ Pg!OtherResult("copy")
          \/ UNCHANGED <<results, tuples, contents>>
      BY <1>2 DEF Pg!GetResult
    <2>2. Pg!OtherResult("copy") => UNCHANGED <<results, tuples, contents>>
      BY DEF Pg!OtherResult, Pg!Cleared
    <2>3. QED
      BY <2>1, <2>2, PgProcessResult DEF PgResultStep
  <1>3. CASE Pg!Clear
    BY <1>3, SameTables DEF Pg!Clear, PgResultStep
  <1>4. CASE \/ Pg!Connect \/ Pg!Disconnect \/ Pg!Reset \/ Pg!Ask
             \/ Pg!EndEarly \/ Pg!Send \/ Pg!SendPrepare \/ Pg!Prepare
             \/ Pg!Copy \/ Pg!Describe \/ Pg!ReadField \/ Pg!GetRow
    BY <1>4
    DEF PgResultStep, Pg!Connect, Pg!Disconnect, Pg!Reset, Pg!Ask,
        Pg!EndEarly, Pg!Send, Pg!SendPrepare, Pg!Prepare, Pg!Copy,
        Pg!Describe, Pg!ReadField, Pg!GetRow
  <1>5. QED
    BY <1>1, <1>2, <1>3, <1>4 DEF Pg!PgNext

LEMMA PgResults ==
  ASSUME PgResultsInv, PgResultStep
  PROVE  PgResultsInv' /\ Keeps(results, results')
  <1>1. /\ IsTable(results) /\ Numbered(results)
        /\ NamesAll(results, tuples)
        /\ contents \in Seq(Pg!Results) /\ Len(contents) = results.hnum
    BY DEF PgResultsInv
  <1>2. Single(results) /\ results.hnum \notin Objects(results)
    BY <1>1, NumberedSingle
  <1>3. CASE UNCHANGED <<results, tuples, contents>>
    BY <1>1, <1>3, NothingKeeps DEF PgResultsInv, IsTable, Numbered
  <1>4. CASE Pg!TuplesResult
    <2>1. PICK content \in Pg!Results :
            /\ results' = Issue(results, results.hnum)
            /\ tuples' = tuples \cup {results.hnum}
            /\ contents' = Append(contents, content)
      BY <1>4, SameTables DEF Pg!TuplesResult
    <2>2. Adds(results, results', results.hnum)
      BY <1>1, <2>1, IssueAdds
    <2>3. IsTable(results') /\ Numbered(results') /\ Keeps(results, results')
      BY <1>1, <2>2, AddingKeeps, NumberedStays DEF Adds
    <2>4. NamesAll(results', tuples')
      BY <1>1, <2>1, <2>2, AddingNames
    <2>5. contents' \in Seq(Pg!Results) /\ Len(contents') = Len(contents) + 1
      BY <1>1, <2>1
    <2>6. Len(contents') = results'.hnum
      BY <1>1, <2>2, <2>5 DEF Adds
    <2>7. QED
      BY <2>3, <2>4, <2>5, <2>6
      DEF PgResultsInv, IsTable, Numbered, Pg!Results
  <1>5. CASE \E n \in DOMAIN results.names :
               /\ results' = Without(results, n)
               /\ tuples' = tuples \ {results.names[n]}
               /\ UNCHANGED contents
    <2>1. PICK n \in DOMAIN results.names :
               /\ results' = Without(results, n)
               /\ tuples' = tuples \ {results.names[n]}
               /\ contents' = contents
      BY <1>5
    <2>2. Deletes(results, results', n)
      BY <1>1, <2>1, WithoutDeletes
    <2>3. IsTable(results') /\ Numbered(results') /\ Keeps(results, results')
      BY <1>1, <2>2, DeletingKeeps, NumberedStays DEF Deletes
    <2>4. NamesAll(results', tuples')
      BY <1>1, <1>2, <2>1, <2>2, DeletingNames
    <2>5. contents' \in Seq(Pg!Results) /\ Len(contents') = results'.hnum
      BY <1>1, <2>1, <2>2 DEF Deletes
    <2>6. QED
      BY <2>3, <2>4, <2>5
      DEF PgResultsInv, IsTable, Numbered, Pg!Results
  <1>6. QED
    BY <1>3, <1>4, <1>5 DEF PgResultStep

\* The names of statements, of connections there are.
LEMMA PgNames ==
  ASSUME PgConnsInv, PgNamesInv, Pg!PgNext
  PROVE  PgNamesInv'
  <1>1. /\ prepnum \in Nat
        /\ prepared \in SUBSET (Nat \X Nat)
        /\ \A p \in prepared : p[2] < prepnum
        /\ \A p, q \in prepared : p[2] = q[2] => p = q
    BY DEF PgNamesInv, Pg!NamesUnique
  <1>2. \A n \in DOMAIN conns.names : conns.names[n] \in Nat
    <2>1. \A c \in {conns.names[n] : n \in DOMAIN conns.names} : c \in Nat
      BY DEF PgConnsInv, NamesAll
    <2>2. QED
      BY <2>1
  <1>3. CASE prepnum' = prepnum /\ prepared' \in SUBSET prepared
    BY <1>1, <1>3 DEF PgNamesInv, Pg!NamesUnique
  <1>4. CASE /\ prepnum' = prepnum + 1
             /\ \/ UNCHANGED prepared
                \/ \E n \in DOMAIN conns.names :
                     prepared' = prepared \cup {<<conns.names[n], prepnum>>}
    <2>1. PICK c \in Nat :
            \/ prepared' = prepared
            \/ prepared' = prepared \cup {<<c, prepnum>>}
      BY <1>2, <1>4
    <2>2. \A p \in prepared' : p = <<c, prepnum>> \/ p \in prepared
      BY <2>1
    <2>3. prepared' \in SUBSET (Nat \X Nat)
      BY <1>1, <2>1
    <2>4. \A p \in prepared' : p[2] < prepnum + 1
      BY <1>1, <2>2
    <2>5. \A p, q \in prepared' : p[2] = q[2] => p = q
      BY <1>1, <2>2
    <2>6. QED
      BY <1>1, <1>4, <2>3, <2>4, <2>5 DEF PgNamesInv, Pg!NamesUnique
  <1>5. QED
    BY <1>3, <1>4
    DEF Pg!PgNext, Pg!Connect, Pg!Disconnect, Pg!Reset, Pg!Ask, Pg!EndEarly,
        Pg!Send, Pg!SendPrepare, Pg!Prepare, Pg!Exec, Pg!GetResult, Pg!Copy,
        Pg!Clear, Pg!Describe, Pg!ReadField, Pg!GetRow, Pg!PrepName, Pg!Link

\* What getrow and getrowbyname store, for any contents of a result.
LEMMA NumbersAgree ==
  ASSUME NEW r
  PROVE  Pg!RowOf(r, "number", Pg!ByNumber(r))
  BY DEF Pg!RowOf, Pg!ByNumber, Pg!IsNull, Pg!GetValue

LEMMA NamesAgree ==
  ASSUME NEW r \in Pg!Results
  PROVE  Pg!RowOf(r, "name", Pg!ByName(r))
  <1> DEFINE values == Pg!ByName(r)
             fields == Pg!FieldsByName(r)
  <1>1. /\ DOMAIN fields = {r.names[1], r.names[2]}
        /\ \A name \in DOMAIN fields :
             fields[name] = IF r.names[2] = name THEN 2 ELSE 1
    BY DEF Pg!FieldsByName
  <1>2. /\ \A name : name \in DOMAIN values <=>
             \/ name = r.names[1] /\ r.row[1] # NULL
             \/ name = r.names[2] /\ r.row[2] # NULL
        /\ \A name \in DOMAIN values :
             values[name] = IF r.names[2] = name /\ r.row[2] # NULL
                            THEN r.row[2] ELSE r.row[1]
    BY DEF Pg!ByName
  <1> HIDE DEF values, fields
  <1>3. \A name \in DOMAIN fields :
          LET value == r.row[fields[name]] IN
          IF value # NULL
          THEN name \in DOMAIN values /\ values[name] = value
          ELSE name \in DOMAIN values => r.names[1] = r.names[2]
    BY <1>1, <1>2
  <1>4. QED
    BY <1>3 DEF Pg!RowOf, values, fields

\* The row in the array is of the result it was asked of.
LEMMA PgRow ==
  ASSUME PgResultsInv, Pg!PgNext
  PROVE  Pg!RowsAgree'
  <1>1. CASE row' = NULL
    BY <1>1 DEF Pg!RowsAgree
  <1>2. CASE Pg!GetRow
    <2>1. PICK n \in DOMAIN results.names :
            \/ row' = [by |-> "name", of |-> n,
                       values |-> Pg!ByName(Pg!Content(n))]
            \/ row' = [by |-> "number", of |-> n,
                       values |-> Pg!ByNumber(Pg!Content(n))]
      BY <1>2 DEF Pg!GetRow
    <2>2. contents' = contents
      BY <1>2 DEF Pg!GetRow
    <2>3. /\ results.names[n] = n
          /\ contents[n + 1] \in Pg!Results
      BY DEF PgResultsInv, IsTable, Numbered
    <2>4. Pg!Content(n) = contents[n + 1]
      BY <2>3 DEF Pg!Content
    <2>5. row'.of = n /\ Pg!RowOf(contents[n + 1], row'.by, row'.values)
      BY <2>1, <2>3, <2>4, NamesAgree, NumbersAgree
    <2>6. Pg!RowOf(contents'[row'.of + 1], row'.by, row'.values)
      BY <2>2, <2>5
    <2>7. QED
      BY <2>6 DEF Pg!RowsAgree
  <1>3. QED
    BY <1>1, <1>2
    DEF Pg!PgNext, Pg!Connect, Pg!Disconnect, Pg!Reset, Pg!Ask, Pg!EndEarly,
        Pg!Send, Pg!SendPrepare, Pg!Prepare, Pg!Exec, Pg!GetResult, Pg!Copy,
        Pg!Clear, Pg!Describe, Pg!ReadField

\* A step of pgsql keeps the invariant.
LEMMA PgNextInv ==
  ASSUME PgInv, Pg!PgNext
  PROVE  PgInv' /\ PgKeeps
  <1>1. PgConnsInv /\ PgResultsInv /\ PgNamesInv
    BY DEF PgInv
  <1>2. PgConnsInv' /\ Keeps(conns, conns')
    BY <1>1, PgConns, PgStepsOfLinks
  <1>3. PgResultsInv' /\ Keeps(results, results')
    BY <1>1, PgResults, PgStepsOfResults
  <1>4. PgNamesInv' /\ Pg!RowsAgree'
    BY <1>1, PgNames, PgRow
  <1>5. QED
    BY <1>2, <1>3, <1>4 DEF PgInv, PgKeeps

-----------------------------------------------------------------------------
(* haru.                                                                   *)

IsObject(x) == x = [kind |-> x.kind, doc |-> x.doc, live |-> x.live]

IsSequence(s) == s \in Seq({s[i] : i \in 1 .. Len(s)})

\* A document is in itself.
HaruObjects ==
  /\ IsSequence(objs)
  /\ \A o \in 1 .. Len(objs) :
       IsObject(objs[o]) /\ (objs[o].kind = "data" => objs[o].doc = o)

HaruTables ==
  /\ table = [k \in Haru!HandleKinds |-> table[k]]
  /\ \A k \in Haru!HandleKinds : IsTable(table[k])
  /\ \A k \in Haru!HandleKinds : \A o \in Objects(table[k]) :
       o \in 1 .. Len(objs) /\ objs[o].kind = k

\* The documents that are there are in the table, or it has lost them.
HaruDocuments ==
  /\ Single(table["data"])
  /\ \A o \in Objects(table["data"]) : objs[o].live
  /\ \A o \in 1 .. Len(objs) :
       objs[o].live /\ objs[o].kind = "data" /\ o \notin emptied =>
         o \in Objects(table["data"]) \cup Lost(table["data"].load)

HaruInv ==
  /\ HaruObjects
  /\ HaruTables
  /\ HaruDocuments
  /\ Haru!ResultReachable

LEMMA HaruInitInv == Haru!Init => HaruInv
  <1> SUFFICES ASSUME Haru!Init PROVE HaruInv
    OBVIOUS
  <1>1. /\ table = [k \in Haru!HandleKinds |-> EmptyTable]
        /\ objs = <<>> /\ emptied = {} /\ got = NULL
    BY SameTables DEF Haru!Init
  <1>2. "data" \in Haru!HandleKinds
    BY DEF Haru!HandleKinds
  <1>3. \A k \in Haru!HandleKinds :
          IsTable(table[k]) /\ Objects(table[k]) = {}
    BY <1>1, EmptyIsTable DEF Objects
  <1>4. DOMAIN table["data"].names = {}
    BY <1>1, <1>2, EmptyIsTable
  <1>5. HaruObjects
    BY <1>1 DEF HaruObjects, IsSequence
  <1>6. HaruTables
    BY <1>1, <1>3 DEF HaruTables
  <1>7. HaruDocuments
    BY <1>1, <1>2, <1>3, <1>4 DEF HaruDocuments, Single
  <1>8. Haru!ResultReachable
    BY <1>1 DEF Haru!ResultReachable
  <1>9. QED
    BY <1>5, <1>6, <1>7, <1>8 DEF HaruInv

\* What the program is told of documents follows from the invariant.
LEMMA HaruNames == HaruInv => Haru!DocumentsNamed
  <1> SUFFICES ASSUME HaruInv PROVE Haru!DocumentsNamed
    OBVIOUS
  <1>1. \A k \in Haru!HandleKinds : \A n \in DOMAIN table[k].names :
          objs[table[k].names[n]].kind = k
    BY DEF HaruInv, HaruTables, Objects
  <1>2. \A n \in DOMAIN table["data"].names : objs[table["data"].names[n]].live
    BY DEF HaruInv, HaruDocuments, Objects
  <1>3. \A o \in 1 .. Len(objs) :
          objs[o].live /\ objs[o].kind = "data" /\ o \notin emptied =>
            \/ \E n \in DOMAIN table["data"].names : table["data"].names[n] = o
            \/ o \in Haru!Lost(table["data"].load)
    BY SameSizes DEF HaruInv, HaruDocuments, Objects
  <1>4. \A k \in Haru!HandleKinds :
          DOMAIN table[k].load.lost \subseteq Haru!Outgrown(table[k].load.size)
    BY SameSizes DEF HaruInv, HaruTables, IsTable, LoadOK
  <1>5. QED
    BY <1>1, <1>2, <1>3, <1>4 DEF Haru!DocumentsNamed, Haru!Named, Haru!Live

\* No row of HaruCalls makes a document.
NoDocument(fns) == \A f \in fns : f.gives # "data"

LEMMA TakesNoDocument ==
  ASSUME NEW a, NEW g, NEW names, g # "data"
  PROVE  NoDocument(Haru!Takes(a, g, names))
  BY DEF Haru!Takes, NoDocument

LEMMA UnionNoDocument ==
  ASSUME NEW fns, NEW others, NoDocument(fns), NoDocument(others)
  PROVE  NoDocument(fns \cup others)
  BY DEF NoDocument

LEMMA FunctionsGiveNoDocument == NoDocument(Haru!Functions)
  <1> USE TakesNoDocument, UnionNoDocument
      DEF Haru!STATUS, Haru!TRUTH, Haru!NUMBER, Haru!NONZERO, Haru!TEXT,
          Haru!FORMATTED, Haru!BYTES, Haru!DONE
  <1>1. /\ NoDocument(Haru!VersionCalls)
        /\ NoDocument(Haru!HasDocumentCalls)
        /\ NoDocument(Haru!DocumentOutputCalls)
        /\ NoDocument(Haru!PagesConfigurationCalls)
        /\ NoDocument(Haru!DocumentModesCalls)
        /\ NoDocument(Haru!ViewerAndOpenActionCalls)
        /\ NoDocument(Haru!PagesAndSizesCalls)
    BY DEF Haru!VersionCalls, Haru!HasDocumentCalls,
           Haru!DocumentOutputCalls, Haru!PagesConfigurationCalls,
           Haru!DocumentModesCalls, Haru!ViewerAndOpenActionCalls,
           Haru!PagesAndSizesCalls
  <1>2. /\ NoDocument(Haru!PageGeometryCalls)
        /\ NoDocument(Haru!FontFilesCalls)
        /\ NoDocument(Haru!PageLabelsAndFontsCalls)
        /\ NoDocument(Haru!OutlinesCalls)
        /\ NoDocument(Haru!DestinationsToHeightCalls)
        /\ NoDocument(Haru!DestinationsToBoxCalls)
        /\ NoDocument(Haru!EncodersCalls)
    BY DEF Haru!PageGeometryCalls, Haru!FontFilesCalls,
           Haru!PageLabelsAndFontsCalls, Haru!OutlinesCalls,
           Haru!DestinationsToHeightCalls, Haru!DestinationsToBoxCalls,
           Haru!EncodersCalls
  <1>3. /\ NoDocument(Haru!EncodingsCalls)
        /\ NoDocument(Haru!Annotations3DCalls)
        /\ NoDocument(Haru!LinkAnnotationsCalls)
        /\ NoDocument(Haru!AnnotationStylesCalls)
        /\ NoDocument(Haru!ImageFilesCalls)
        /\ NoDocument(Haru!RawImagesCalls)
        /\ NoDocument(Haru!ImageSizesCalls)
    BY DEF Haru!EncodingsCalls, Haru!Annotations3DCalls,
           Haru!LinkAnnotationsCalls, Haru!AnnotationStylesCalls,
           Haru!ImageFilesCalls, Haru!RawImagesCalls, Haru!ImageSizesCalls
  <1>4. /\ NoDocument(Haru!ImageMasksCalls)
        /\ NoDocument(Haru!InfoAndPasswordCalls)
        /\ NoDocument(Haru!SecurityAndFontNamesCalls)
        /\ NoDocument(Haru!FontMetricsCalls)
        /\ NoDocument(Haru!FontWidthsCalls)
        /\ NoDocument(Haru!ExtGStatesCalls)
        /\ NoDocument(Haru!PageTextCalls)
    BY DEF Haru!ImageMasksCalls, Haru!InfoAndPasswordCalls,
           Haru!SecurityAndFontNamesCalls, Haru!FontMetricsCalls,
           Haru!FontWidthsCalls, Haru!ExtGStatesCalls, Haru!PageTextCalls
  <1>5. /\ NoDocument(Haru!PagePositionCalls)
        /\ NoDocument(Haru!PageFontAndMatrixCalls)
        /\ NoDocument(Haru!PageLineStyleCalls)
        /\ NoDocument(Haru!PageTextStateCalls)
        /\ NoDocument(Haru!PageColorsCalls)
        /\ NoDocument(Haru!PageColorSpacesCalls)
        /\ NoDocument(Haru!LineStyleCalls)
    BY DEF Haru!PagePositionCalls, Haru!PageFontAndMatrixCalls,
           Haru!PageLineStyleCalls, Haru!PageTextStateCalls,
           Haru!PageColorsCalls, Haru!PageColorSpacesCalls,
           Haru!LineStyleCalls
  <1>6. /\ NoDocument(Haru!DashAndStateCalls)
        /\ NoDocument(Haru!MoveAndLineCalls)
        /\ NoDocument(Haru!CurvesCalls)
        /\ NoDocument(Haru!PathPaintingCalls)
        /\ NoDocument(Haru!PathFillingCalls)
        /\ NoDocument(Haru!ClippingAndTextCalls)
        /\ NoDocument(Haru!TextSpacingCalls)
    BY DEF Haru!DashAndStateCalls, Haru!MoveAndLineCalls, Haru!CurvesCalls,
           Haru!PathPaintingCalls, Haru!PathFillingCalls,
           Haru!ClippingAndTextCalls, Haru!TextSpacingCalls
  <1>7. /\ NoDocument(Haru!TextPositionCalls)
        /\ NoDocument(Haru!ShowTextCalls)
        /\ NoDocument(Haru!RGBColorsCalls)
        /\ NoDocument(Haru!CMYKColorsCalls)
        /\ NoDocument(Haru!ImagesCalls)
        /\ NoDocument(Haru!ArcAndTextCalls)
        /\ NoDocument(Haru!TextBoxAndSlidesCalls)
    BY DEF Haru!TextPositionCalls, Haru!ShowTextCalls, Haru!RGBColorsCalls,
           Haru!CMYKColorsCalls, Haru!ImagesCalls, Haru!ArcAndTextCalls,
           Haru!TextBoxAndSlidesCalls
  <1>8. QED
    BY <1>1, <1>2, <1>3, <1>4, <1>5, <1>6, <1>7
    DEF Haru!Functions, NoDocument

\* A sequence with one more element is one.
LEMMA AppendSequence ==
  ASSUME NEW s, NEW x, IsSequence(s)
  PROVE  /\ IsSequence(Append(s, x))
         /\ Len(s) \in Nat
         /\ Len(Append(s, x)) = Len(s) + 1
         /\ \A i \in 1 .. Len(s) : Append(s, x)[i] = s[i]
         /\ Append(s, x)[Len(s) + 1] = x
  <1> DEFINE S == {s[i] : i \in 1 .. Len(s)}
             y == Append(s, x)
  <1>1. s \in Seq(S)
    BY DEF IsSequence
  <1> HIDE DEF S
  <1>2. s \in Seq(S \cup {x})
    BY <1>1
  <1>3. /\ y \in Seq(S \cup {x})
        /\ Len(s) \in Nat
        /\ Len(y) = Len(s) + 1
        /\ \A i \in 1 .. Len(s) : y[i] = s[i]
        /\ y[Len(s) + 1] = x
    BY <1>2
  <1> HIDE DEF y
  <1>4. y = [i \in 1 .. Len(y) |-> y[i]]
    BY <1>3
  <1>5. IsSequence(y)
    BY <1>3, <1>4 DEF IsSequence
  <1>6. QED
    BY <1>3, <1>5 DEF y

\* What a step does.  A new object, a document for itself, gets a handle.
HaruMakes(kind, doc) ==
  /\ kind \in Haru!HandleKinds
  /\ kind = "data" => doc = Len(objs) + 1
  /\ objs' = Append(objs, [kind |-> kind, doc |-> doc, live |-> TRUE])
  /\ table' = [table EXCEPT ![kind] = Issue(table[kind], Len(objs) + 1)]
  /\ UNCHANGED emptied

\* An object that is there gets another handle; it is no document.
HaruGives(kind, o) ==
  /\ kind \in Haru!HandleKinds \ {"data"}
  /\ o \in 1 .. Len(objs)
  /\ objs[o].kind = kind
  /\ table' = [table EXCEPT ![kind] = Issue(table[kind], o)]
  /\ UNCHANGED <<objs, emptied>>

\* Objects are freed, of the documents only those in ends.
Frees(ends) ==
  /\ IsSequence(objs')
  /\ Len(objs') = Len(objs)
  /\ \A o \in 1 .. Len(objs) :
       /\ IsObject(objs'[o])
       /\ objs'[o].kind = objs[o].kind
       /\ objs'[o].doc = objs[o].doc
       /\ objs[o].kind = "data" /\ o \notin ends => objs'[o] = objs[o]

HaruEmpties == UNCHANGED <<table, emptied>> /\ Frees({})

\* The handle of a document is deleted, which ends or is noted in emptied.
HaruDeletes(n) ==
  /\ n \in DOMAIN table["data"].names
  /\ table' = [table EXCEPT !["data"] = Without(table["data"], n)]
  /\ LET doc == table["data"].names[n] IN
       /\ Frees({doc})
       /\ emptied \subseteq emptied'
       /\ doc \in emptied' \/ objs'[doc].live = FALSE

HaruStep ==
  \/ UNCHANGED <<table, objs, emptied>>
  \/ \E kind, doc : HaruMakes(kind, doc)
  \/ \E kind, o : HaruGives(kind, o)
  \/ HaruEmpties
  \/ \E n : HaruDeletes(n)

\* An object that is freed is the same in all else.
LEMMA DeadObject ==
  ASSUME NEW x, IsObject(x)
  PROVE  LET y == [x EXCEPT !.live = FALSE]
         IN IsObject(y) /\ y.kind = x.kind /\ y.doc = x.doc /\ y.live = FALSE
  <1> DEFINE y == [x EXCEPT !.live = FALSE]
  <1>1. y = [kind |-> x.kind, doc |-> x.doc, live |-> FALSE]
    <2>1. PICK k, d, l : x = [kind |-> k, doc |-> d, live |-> l]
      BY DEF IsObject
    <2>2. x.kind = k /\ x.doc = d
      BY <2>1
    <2>3. \A dead : [[kind |-> k, doc |-> d, live |-> l] EXCEPT !.live = dead] =
            [kind |-> k, doc |-> d, live |-> dead]
      OBVIOUS
    <2>4. y = [kind |-> k, doc |-> d, live |-> FALSE]
      BY <2>1, <2>3, Zenon
    <2>5. QED
      BY <2>2, <2>4
  <1> HIDE DEF y
  <1>2. y.kind = x.kind /\ y.doc = x.doc /\ y.live = FALSE
    BY <1>1
  <1>3. IsObject(y)
    BY <1>1, <1>2 DEF IsObject
  <1>4. QED
    BY <1>2, <1>3 DEF y

\* What the library frees with the contents of a document.
LEMMA FreedObjects ==
  ASSUME HaruObjects, NEW doc, NEW kept
  PROVE  \A o \in 1 .. Len(objs) :
           LET x == Haru!Freed(doc, kept)[o] IN
           /\ IsObject(x) /\ x.kind = objs[o].kind /\ x.doc = objs[o].doc
           /\ objs[o].kind = "data" => x = objs[o]
  <1> TAKE o \in 1 .. Len(objs)
  <1> DEFINE x == Haru!Freed(doc, kept)[o]
  <1>1. x = IF objs[o].doc = doc /\ o # doc /\ objs[o].kind \notin kept
            THEN [objs[o] EXCEPT !.live = FALSE]
            ELSE objs[o]
    BY DEF Haru!Freed
  <1>2. IsObject(objs[o]) /\ (objs[o].kind = "data" => objs[o].doc = o)
    BY DEF HaruObjects
  <1> HIDE DEF x
  <1>3. /\ IsObject(x) /\ x.kind = objs[o].kind /\ x.doc = objs[o].doc
        /\ objs[o].kind = "data" => x = objs[o]
    BY <1>1, <1>2, DeadObject
  <1>4. QED
    BY <1>3 DEF x

LEMMA SequenceFrees ==
  ASSUME Len(objs) \in Nat, NEW ends,
         objs' = [o \in 1 .. Len(objs) |-> objs'[o]],
         \A o \in 1 .. Len(objs) :
           /\ IsObject(objs'[o])
           /\ objs'[o].kind = objs[o].kind
           /\ objs'[o].doc = objs[o].doc
           /\ objs[o].kind = "data" /\ o \notin ends => objs'[o] = objs[o]
  PROVE  Frees(ends)
  <1>1. Len(objs') = Len(objs)
    OBVIOUS
  <1>2. IsSequence(objs')
    BY <1>1 DEF IsSequence
  <1>3. QED
    BY <1>1, <1>2 DEF Frees

LEMMA FreedFrees ==
  ASSUME HaruObjects, NEW doc, NEW kept, objs' = Haru!Freed(doc, kept)
  PROVE  Frees({})
  <1>1. Len(objs) \in Nat
    BY DEF HaruObjects, IsSequence
  <1>2. objs' = [o \in 1 .. Len(objs) |-> objs'[o]]
    BY DEF Haru!Freed
  <1>3. QED
    BY <1>1, <1>2, FreedObjects, SequenceFrees

\* The ways a function gets an object.
LEMMA HaruMake ==
  ASSUME NEW kind \in Haru!HandleKinds, NEW doc,
         kind = "data" => doc = Len(objs) + 1,
         Haru!Make(kind, doc), UNCHANGED emptied
  PROVE  HaruStep
  <1>1. HaruMakes(kind, doc)
    BY SameTables DEF HaruMakes, Haru!Make, Haru!HandOut
  <1>2. QED
    BY <1>1 DEF HaruStep

LEMMA HaruGive ==
  ASSUME NEW kind \in Haru!HandleKinds, kind # "data",
         NEW o \in 1 .. Len(objs), objs[o].kind = kind,
         table' = [table EXCEPT ![kind] = Haru!Issue(@, o)],
         UNCHANGED <<objs, emptied>>
  PROVE  HaruStep
  <1>1. HaruGives(kind, o)
    BY SameTables DEF HaruGives
  <1>2. QED
    BY <1>1 DEF HaruStep

LEMMA HaruGiveObject ==
  ASSUME NEW kind \in Haru!HandleKinds, kind # "data", NEW doc,
         Haru!GiveObject(kind, doc), UNCHANGED emptied
  PROVE  HaruStep
  <1>1. CASE Haru!Make(kind, doc)
    BY <1>1, HaruMake
  <1>2. CASE Haru!GetAgain(kind, doc)
    <2>1. PICK o \in 1 .. Len(objs) :
            objs[o].kind = kind /\ Haru!HandOut(kind, o) /\ UNCHANGED objs
      BY <1>2 DEF Haru!GetAgain, Haru!Contents
    <2>2. QED
      BY <2>1, HaruGive DEF Haru!HandOut
  <1>3. CASE Haru!Return(Haru!NoText)
    BY <1>3 DEF Haru!Return, HaruStep
  <1>4. QED
    BY <1>1, <1>2, <1>3 DEF Haru!GiveObject

LEMMA HaruCall == Haru!Call => HaruStep
  <1> SUFFICES ASSUME Haru!Call PROVE HaruStep
    OBVIOUS
  <1>1. PICK f \in Haru!Functions : \E doc : Haru!Give(Haru!Shape(f).gives, doc)
    BY DEF Haru!Call, Haru!Shapes
  <1>2. PICK doc : Haru!Give(f.gives, doc)
    BY <1>1 DEF Haru!Shape
  <1>3. f.gives # "data" /\ UNCHANGED emptied
    BY FunctionsGiveNoDocument DEF NoDocument, Haru!Call
  <1>4. CASE f.gives \in Haru!HandleKinds
    BY <1>2, <1>3, <1>4, HaruGiveObject DEF Haru!Give
  <1>5. CASE f.gives \notin Haru!HandleKinds
    BY <1>2, <1>3, <1>5 DEF Haru!Give, Haru!Return, HaruStep
  <1>6. QED
    BY <1>4, <1>5

LEMMA HaruSteps ==
  ASSUME HaruObjects, HaruTables, Haru!Next
  PROVE  HaruStep
  <1>1. /\ "data" \in Haru!HandleKinds /\ "page" \in Haru!HandleKinds
        /\ "outline" \in Haru!HandleKinds /\ "destination" \in Haru!HandleKinds
        /\ "annotation" \in Haru!HandleKinds
    BY DEF Haru!HandleKinds
  <1>2. CASE Haru!Call
    BY <1>2, HaruCall
  <1>3. CASE Haru!New
    BY <1>1, <1>3, HaruMake DEF Haru!New, Haru!Return, HaruStep
  <1>4. CASE Haru!Free
    <2>1. PICK n \in DOMAIN table["data"].names :
            /\ objs' = [Haru!Freed(table["data"].names[n], {})
                          EXCEPT ![table["data"].names[n]].live = FALSE]
            /\ table' = [table EXCEPT !["data"] = Haru!Without(@, n)]
      BY <1>4 DEF Haru!Free, Haru!Named
    <2>2. HaruDeletes(n)
      <3> DEFINE doc == table["data"].names[n]
                 freed == Haru!Freed(doc, {})
                 dead == [freed[doc] EXCEPT !.live = FALSE]
      <3>1. doc \in 1 .. Len(objs) /\ objs[doc].kind = "data" /\ Len(objs) \in Nat
        BY <1>1 DEF HaruTables, HaruObjects, IsSequence, Objects
      <3>2. /\ DOMAIN freed = 1 .. Len(objs)
            /\ objs' = [freed EXCEPT ![doc] = dead]
        BY <2>1 DEF Haru!Freed
      <3>3. \A o \in 1 .. Len(objs) :
              /\ IsObject(freed[o])
              /\ freed[o].kind = objs[o].kind
              /\ freed[o].doc = objs[o].doc
              /\ objs[o].kind = "data" => freed[o] = objs[o]
        BY FreedObjects
      <3>4. /\ IsObject(dead) /\ dead.kind = objs[doc].kind
            /\ dead.doc = objs[doc].doc /\ dead.live = FALSE
        BY <3>1, <3>3, DeadObject
      <3> HIDE DEF freed, dead
      <3>5. /\ DOMAIN objs' = 1 .. Len(objs)
            /\ objs'[doc] = dead
            /\ \A o \in 1 .. Len(objs) : o # doc => objs'[o] = freed[o]
            /\ objs' = [o \in 1 .. Len(objs) |-> objs'[o]]
        BY <3>1, <3>2
      <3>6. Frees({doc})
        BY <3>1, <3>3, <3>4, <3>5, SequenceFrees
      <3>7. emptied' = emptied
        BY <1>4 DEF Haru!Free
      <3>8. table' = [table EXCEPT !["data"] = Without(table["data"], n)]
        BY <2>1, SameTables
      <3>9. QED
        BY <3>4, <3>5, <3>6, <3>7, <3>8 DEF HaruDeletes
    <2>3. QED
      BY <2>2 DEF HaruStep
  <1>5. CASE Haru!NewDoc
    <2>1. PICK doc : objs' = Haru!Freed(doc, {"encoder"})
      BY <1>5 DEF Haru!NewDoc
    <2>2. HaruEmpties
      BY <1>5, <2>1, FreedFrees DEF Haru!NewDoc, HaruEmpties
    <2>3. QED
      BY <2>2 DEF HaruStep
  <1>6. CASE Haru!FreeDoc
    <2>1. PICK n \in DOMAIN table["data"].names, kept \in {{"encoder"}, {}} :
            /\ objs' = Haru!Freed(table["data"].names[n], kept)
            /\ table' = [table EXCEPT !["data"] = Without(table["data"], n)]
            /\ emptied' = emptied \cup {table["data"].names[n]}
      BY <1>6, SameTables DEF Haru!FreeDoc, Haru!Named
    <2>2. Frees({})
      BY <2>1, FreedFrees
    <2>3. HaruDeletes(n)
      BY <2>1, <2>2 DEF HaruDeletes, Frees
    <2>4. QED
      BY <2>3 DEF HaruStep
  <1>7. CASE Haru!GetPageByIndex
    <2>1. CASE UNCHANGED <<table, objs>>
      BY <1>7, <2>1 DEF Haru!GetPageByIndex, HaruStep
    <2>2. CASE UNCHANGED objs /\ \E page \in 1 .. Len(objs) :
                 /\ objs[page].kind = "page"
                 /\ table' = [table EXCEPT !["page"] = Haru!Issue(@, page)]
      BY <1>1, <1>7, <2>2, HaruGive DEF Haru!GetPageByIndex
    <2>3. QED
      BY <1>7, <2>1, <2>2
      DEF Haru!GetPageByIndex, Haru!Contents, Haru!Return
  <1>8. CASE Haru!CreateOutline
    <2>1. PICK doc : Haru!GiveObject("outline", doc)
      BY <1>8 DEF Haru!CreateOutline
    <2>2. QED
      BY <1>1, <1>8, <2>1, HaruGiveObject DEF Haru!CreateOutline
  <1>9. CASE Haru!CreateDestination
    <2>1. CASE Haru!Return(Haru!NoText)
      BY <1>9, <2>1 DEF Haru!CreateDestination, Haru!Return, HaruStep
    <2>2. CASE \E doc : Haru!GiveObject("destination", doc)
      BY <1>1, <1>9, <2>2, HaruGiveObject DEF Haru!CreateDestination
    <2>3. QED
      BY <1>9, <2>1, <2>2 DEF Haru!CreateDestination
  <1>10. CASE Haru!CreateTextAnnot
    <2>1. CASE Haru!Return(Haru!NOK)
      BY <1>10, <2>1 DEF Haru!CreateTextAnnot, Haru!Return, HaruStep
    <2>2. CASE \E doc : Haru!GiveObject("annotation", doc)
      BY <1>1, <1>10, <2>2, HaruGiveObject DEF Haru!CreateTextAnnot
    <2>3. QED
      BY <1>10, <2>1, <2>2 DEF Haru!CreateTextAnnot
  <1>11. CASE \/ Haru!Refuse \/ Haru!CallStale \/ Haru!RefuseDocument
              \/ Haru!GetCurrentPage \/ Haru!GetCurrentPageOfNone
              \/ Haru!CreateOutlineOfStale \/ Haru!CreateOnStalePage
              \/ Haru!Crashed
    BY <1>11
    DEF HaruStep, Haru!Refuse, Haru!CallStale, Haru!RefuseDocument,
        Haru!GetCurrentPage, Haru!GetCurrentPageOfNone,
        Haru!CreateOutlineOfStale, Haru!CreateOnStalePage, Haru!Crashed,
        Haru!Return, Haru!Crash, Haru!vars
  <1>12. QED
    BY <1>2, <1>3, <1>4, <1>5, <1>6, <1>7, <1>8, <1>9, <1>10, <1>11
    DEF Haru!Next

HaruKeeps == \A k \in Haru!HandleKinds : Keeps(table[k], table'[k])

\* A table of the extension after one of its tables has changed.
LEMMA OtherTables ==
  ASSUME HaruTables, NEW kind \in Haru!HandleKinds, NEW t,
         table' = [table EXCEPT ![kind] = t]
  PROVE  /\ table' = [k \in Haru!HandleKinds |-> table'[k]]
         /\ table'[kind] = t
         /\ \A k \in Haru!HandleKinds : k # kind => table'[k] = table[k]
  BY DEF HaruTables

LEMMA HaruMakesInv ==
  ASSUME HaruObjects, HaruTables, HaruDocuments, NEW kind, NEW doc,
         HaruMakes(kind, doc)
  PROVE  HaruObjects' /\ HaruTables' /\ HaruDocuments' /\ HaruKeeps
  <1> DEFINE o == Len(objs) + 1
             x == [kind |-> kind, doc |-> doc, live |-> TRUE]
             t == Issue(table[kind], o)
  <1>1. /\ kind \in Haru!HandleKinds
        /\ kind = "data" => doc = o
        /\ objs' = Append(objs, x)
        /\ table' = [table EXCEPT ![kind] = t]
        /\ emptied' = emptied
    BY DEF HaruMakes
  <1>2. IsObject(x) /\ x.kind = kind /\ x.doc = doc
    BY DEF IsObject
  <1> HIDE DEF x, t
  <1>3. /\ IsSequence(objs') /\ Len(objs) \in Nat /\ Len(objs') = o
        /\ \A i \in 1 .. Len(objs) : objs'[i] = objs[i]
        /\ objs'[o] = x
    BY <1>1, AppendSequence DEF HaruObjects
  <1>4. HaruObjects'
    BY <1>1, <1>2, <1>3 DEF HaruObjects
  <1>5. /\ table' = [k \in Haru!HandleKinds |-> table'[k]]
        /\ table'[kind] = t
        /\ \A k \in Haru!HandleKinds : k # kind => table'[k] = table[k]
    BY <1>1, OtherTables
  <1>6. IsTable(table[kind]) /\ Adds(table[kind], t, o)
    BY <1>1, IssueAdds DEF HaruTables, t
  <1>7. IsTable(t) /\ Objects(t) \subseteq Objects(table[kind]) \cup {o}
    <2> HIDE DEF o
    <2>1. IsTable(t)
      BY <1>6 DEF Adds
    <2>2. QED
      BY <1>6, <2>1, AddingObjects
  <1>8. HaruTables'
    <2>1. \A k \in Haru!HandleKinds : IsTable(table'[k])
      BY <1>5, <1>7 DEF HaruTables
    <2>2. \A k \in Haru!HandleKinds : \A i \in Objects(table'[k]) :
            i \in 1 .. Len(objs') /\ objs'[i].kind = k
      BY <1>2, <1>3, <1>5, <1>7 DEF HaruTables
    <2>3. QED
      BY <1>5, <2>1, <2>2 DEF HaruTables
  <1>9. "data" \in Haru!HandleKinds /\ o \notin Objects(table["data"])
    BY <1>3 DEF HaruTables, Haru!HandleKinds
  <1>10. ASSUME kind = "data" PROVE HaruDocuments'
    <2>1. /\ Single(table'["data"])
          /\ Objects(table'["data"]) \subseteq Objects(table["data"]) \cup {o}
          /\ Objects(table["data"]) \cup Lost(table["data"].load) \cup {o}
               \subseteq Objects(table'["data"]) \cup Lost(table'["data"].load)
      <3>1. Single(t)
        BY <1>6, <1>9, <1>10, AddingSingle DEF HaruDocuments
      <3>2. /\ Objects(table["data"]) \subseteq Objects(t)
            /\ Objects(t) \subseteq Objects(table["data"]) \cup {o}
            /\ o \in Objects(t) \cup Lost(t.load)
            /\ Lost(table["data"].load) \subseteq Lost(t.load)
        BY <1>6, <1>10, AddingObjects DEF Adds
      <3>3. QED
        BY <1>5, <1>10, <3>1, <3>2
    <2>2. x.live = TRUE
      BY DEF x
    <2>3. \A i \in Objects(table["data"]) : objs'[i].live
      BY <1>3, <1>9 DEF HaruTables, HaruDocuments
    <2>4. \A i \in 1 .. Len(objs') :
            objs'[i].live /\ objs'[i].kind = "data" /\ i \notin emptied' =>
              i \in Objects(table'["data"]) \cup Lost(table'["data"].load)
      <3>1. TAKE i \in 1 .. Len(objs')
      <3>2. CASE i = o
        BY <2>1, <3>2
      <3>3. CASE i # o
        BY <1>1, <1>3, <2>1, <3>1, <3>3 DEF HaruDocuments
      <3>4. QED
        BY <3>2, <3>3
    <2>5. \A i \in Objects(table'["data"]) : objs'[i].live
      BY <1>3, <2>1, <2>2, <2>3
    <2>6. QED
      BY <2>1, <2>4, <2>5 DEF HaruDocuments
  <1>11. ASSUME kind # "data" PROVE HaruDocuments'
    <2>1. table'["data"] = table["data"]
      BY <1>5, <1>9, <1>11
    <2>2. \A i \in Objects(table["data"]) : objs'[i].live
      BY <1>3, <1>9 DEF HaruTables, HaruDocuments
    <2>3. \A i \in 1 .. Len(objs') :
            objs'[i].live /\ objs'[i].kind = "data" /\ i \notin emptied' =>
              i \in Objects(table["data"]) \cup Lost(table["data"].load)
      <3>1. TAKE i \in 1 .. Len(objs')
      <3>2. CASE i = o
        BY <1>2, <1>3, <1>11, <3>2
      <3>3. CASE i # o
        BY <1>1, <1>3, <3>1, <3>3 DEF HaruDocuments
      <3>4. QED
        BY <3>2, <3>3
    <2>4. Single(table["data"])
      BY DEF HaruDocuments
    <2>5. QED
      BY <2>1, <2>2, <2>3, <2>4 DEF HaruDocuments
  <1>12. HaruKeeps
    BY <1>1, <1>5, <1>6, AddingKeeps, NothingKeeps DEF HaruKeeps
  <1>13. QED
    BY <1>4, <1>8, <1>10, <1>11, <1>12

LEMMA HaruGivesInv ==
  ASSUME HaruObjects, HaruTables, HaruDocuments, NEW kind, NEW o,
         HaruGives(kind, o)
  PROVE  HaruObjects' /\ HaruTables' /\ HaruDocuments' /\ HaruKeeps
  <1> DEFINE t == Issue(table[kind], o)
  <1>1. /\ kind \in Haru!HandleKinds /\ kind # "data"
        /\ o \in 1 .. Len(objs) /\ objs[o].kind = kind
        /\ table' = [table EXCEPT ![kind] = t]
        /\ objs' = objs /\ emptied' = emptied
    BY DEF HaruGives
  <1> HIDE DEF t
  <1>2. /\ table' = [k \in Haru!HandleKinds |-> table'[k]]
        /\ table'[kind] = t
        /\ \A k \in Haru!HandleKinds : k # kind => table'[k] = table[k]
    BY <1>1, OtherTables
  <1>3. IsTable(table[kind]) /\ Adds(table[kind], t, o)
    BY <1>1, IssueAdds DEF HaruTables, t
  <1>4. IsTable(t) /\ Objects(t) \subseteq Objects(table[kind]) \cup {o}
    BY <1>3, AddingObjects DEF Adds
  <1>5. HaruTables'
    BY <1>1, <1>2, <1>4 DEF HaruTables
  <1>6. table'["data"] = table["data"]
    BY <1>1, <1>2 DEF Haru!HandleKinds
  <1>7. HaruObjects' /\ HaruDocuments'
    BY <1>1, <1>6 DEF HaruObjects, HaruDocuments
  <1>8. HaruKeeps
    BY <1>1, <1>2, <1>3, AddingKeeps, NothingKeeps DEF HaruKeeps
  <1>9. QED
    BY <1>5, <1>7, <1>8

\* What is freed stays what it was.
LEMMA FreesInv ==
  ASSUME HaruObjects, NEW ends, Frees(ends)
  PROVE  HaruObjects'
  BY DEF HaruObjects, Frees

LEMMA HaruEmptiesInv ==
  ASSUME HaruObjects, HaruTables, HaruDocuments, HaruEmpties
  PROVE  HaruObjects' /\ HaruTables' /\ HaruDocuments' /\ HaruKeeps
  <1>1. HaruObjects'
    BY FreesInv DEF HaruEmpties
  <1>2. /\ table' = table /\ emptied' = emptied
        /\ Len(objs') = Len(objs)
        /\ \A o \in 1 .. Len(objs) :
             /\ objs'[o].kind = objs[o].kind
             /\ objs[o].kind = "data" => objs'[o] = objs[o]
    BY DEF HaruEmpties, Frees
  <1>3. HaruTables' /\ HaruKeeps
    BY <1>2, NothingKeeps DEF HaruTables, HaruKeeps
  <1>4. "data" \in Haru!HandleKinds
    BY DEF Haru!HandleKinds
  <1>5. HaruDocuments'
    BY <1>2, <1>4 DEF HaruTables, HaruDocuments
  <1>6. QED
    BY <1>1, <1>3, <1>5

LEMMA HaruDeletesInv ==
  ASSUME HaruObjects, HaruTables, HaruDocuments, NEW n, HaruDeletes(n)
  PROVE  HaruObjects' /\ HaruTables' /\ HaruDocuments' /\ HaruKeeps
  <1> DEFINE doc == table["data"].names[n]
             t == Without(table["data"], n)
  <1>1. /\ n \in DOMAIN table["data"].names
        /\ table' = [table EXCEPT !["data"] = t]
        /\ Frees({doc})
        /\ emptied \subseteq emptied'
        /\ doc \in emptied' \/ objs'[doc].live = FALSE
    BY DEF HaruDeletes
  <1>2. "data" \in Haru!HandleKinds /\ IsTable(table["data"])
    BY DEF Haru!HandleKinds, HaruTables
  <1> HIDE DEF t
  <1>3. HaruObjects'
    BY <1>1, FreesInv
  <1>4. /\ Len(objs') = Len(objs)
        /\ \A o \in 1 .. Len(objs) :
             /\ objs'[o].kind = objs[o].kind
             /\ objs[o].kind = "data" /\ o # doc => objs'[o] = objs[o]
    BY <1>1 DEF Frees
  <1>5. /\ table' = [k \in Haru!HandleKinds |-> table'[k]]
        /\ table'["data"] = t
        /\ \A k \in Haru!HandleKinds : k # "data" => table'[k] = table[k]
    BY <1>1, <1>2, OtherTables
  <1>6. Deletes(table["data"], t, n)
    BY <1>2, WithoutDeletes DEF t
  <1>7. Single(t) /\ Objects(t) = Objects(table["data"]) \ {doc}
    BY <1>1, <1>2, <1>6, DeletingSingle DEF HaruDocuments
  <1>8. HaruTables'
    BY <1>2, <1>4, <1>5, <1>6, <1>7 DEF HaruTables, Deletes
  <1>9. HaruDocuments'
    <2>1. \A o \in Objects(t) : objs'[o].live
      BY <1>2, <1>4, <1>7 DEF HaruTables, HaruDocuments
    <2>2. \A o \in 1 .. Len(objs') :
            objs'[o].live /\ objs'[o].kind = "data" /\ o \notin emptied' =>
              o \in Objects(t) \cup Lost(t.load)
      BY <1>1, <1>4, <1>6, <1>7 DEF HaruDocuments, Deletes
    <2>3. QED
      BY <1>5, <1>7, <2>1, <2>2 DEF HaruDocuments
  <1>10. HaruKeeps
    BY <1>2, <1>5, <1>6, DeletingKeeps, NothingKeeps DEF HaruKeeps
  <1>11. QED
    BY <1>3, <1>8, <1>9, <1>10

\* A call that hands an object out returns the handle the object has then, unless
\* the table has lost it.
LEMMA HandedOut ==
  ASSUME HaruTables, NEW kind \in Haru!HandleKinds, NEW o,
         Haru!HandOut(kind, o), got' = o
  PROVE  Haru!ResultReachable'
  <1> DEFINE t == Issue(table[kind], o)
  <1>1. /\ table' = [table EXCEPT ![kind] = t]
        /\ ret' = <<kind, table[kind].hnum>>
    BY SameTables DEF Haru!HandOut, Haru!Handle
  <1>2. Adds(table[kind], t, o)
    BY IssueAdds DEF HaruTables
  <1> HIDE DEF t
  <1>3. table'[kind] = t
    BY <1>1, OtherTables
  <1>4. /\ ret'[1] = kind
        /\ IF ret'[2] \in DOMAIN table'[kind].names
           THEN table'[kind].names[ret'[2]] = o
           ELSE o \in Haru!Lost(table'[kind].load)
    BY <1>1, <1>2, <1>3, SameSizes DEF Adds
  <1>5. QED
    BY <1>4 DEF Haru!ResultReachable, Haru!Found, Haru!Named

\* What a call returns when it gets no object, when it hands one out, and when
\* it gets a page and returns a text, or when the process has crashed in it.
HaruResult ==
  \/ got' = NULL
  \/ \E kind \in Haru!HandleKinds : \E o : Haru!HandOut(kind, o) /\ got' = o
  \/ /\ objs'[got'].kind = "page"
     /\ ret' \in {Haru!NoText, Haru!SomeText}
  \/ UNCHANGED <<table, objs, got, ret>>

LEMMA HaruGiveResult ==
  ASSUME NEW kind \in Haru!HandleKinds, NEW doc, Haru!GiveObject(kind, doc)
  PROVE  HaruResult
  BY DEF Haru!GiveObject, Haru!Make, Haru!GetAgain, Haru!Return, HaruResult

LEMMA HaruResults == Haru!Next => HaruResult
  <1> SUFFICES ASSUME Haru!Next PROVE HaruResult
    OBVIOUS
  <1>1. /\ "data" \in Haru!HandleKinds /\ "outline" \in Haru!HandleKinds
        /\ "destination" \in Haru!HandleKinds
        /\ "annotation" \in Haru!HandleKinds
    BY DEF Haru!HandleKinds
  <1>2. CASE Haru!Call
    <2>1. PICK gives, doc : Haru!Give(gives, doc)
      BY <1>2 DEF Haru!Call
    <2>2. QED
      BY <2>1, HaruGiveResult DEF Haru!Give, Haru!Return, HaruResult
  <1>3. CASE Haru!New
    BY <1>1, <1>3 DEF Haru!New, Haru!Make, Haru!Return, HaruResult
  <1>4. CASE \/ Haru!CreateOutline \/ Haru!CreateDestination
             \/ Haru!CreateTextAnnot
    BY <1>1, <1>4, HaruGiveResult
    DEF Haru!CreateOutline, Haru!CreateDestination, Haru!CreateTextAnnot,
        Haru!Return, HaruResult
  <1>5. CASE Haru!GetPageByIndex
    BY <1>5
    DEF Haru!GetPageByIndex, Haru!Contents, Haru!Return, HaruResult
  <1>6. CASE Haru!GetCurrentPage
    BY <1>6 DEF Haru!GetCurrentPage, Haru!Contents, HaruResult
  <1>7. CASE \/ Haru!Refuse \/ Haru!RefuseDocument \/ Haru!Free
             \/ Haru!NewDoc \/ Haru!FreeDoc
    BY <1>7
    DEF Haru!Refuse, Haru!RefuseDocument, Haru!Free, Haru!NewDoc,
        Haru!FreeDoc, Haru!Return, HaruResult
  <1>8. CASE \/ Haru!CallStale \/ Haru!GetCurrentPageOfNone
             \/ Haru!CreateOutlineOfStale \/ Haru!CreateOnStalePage
             \/ Haru!Crashed
    BY <1>8
    DEF Haru!CallStale, Haru!GetCurrentPageOfNone, Haru!CreateOutlineOfStale,
        Haru!CreateOnStalePage, Haru!Crashed, Haru!Crash, Haru!vars,
        HaruResult
  <1>9. QED
    BY <1>2, <1>3, <1>4, <1>5, <1>6, <1>7, <1>8 DEF Haru!Next

\* A step of haru keeps the invariant.
LEMMA HaruNextInv ==
  ASSUME HaruInv, Haru!Next
  PROVE  HaruInv' /\ HaruKeeps
  <1>1. HaruObjects /\ HaruTables /\ HaruDocuments /\ Haru!ResultReachable
    BY DEF HaruInv
  <1>2. HaruObjects' /\ HaruTables' /\ HaruDocuments' /\ HaruKeeps
    <2>1. CASE UNCHANGED <<table, objs, emptied>>
      BY <1>1, <2>1, NothingKeeps
      DEF HaruObjects, HaruTables, HaruDocuments, HaruKeeps
    <2>2. CASE \E kind, doc : HaruMakes(kind, doc)
      BY <1>1, <2>2, HaruMakesInv
    <2>3. CASE \E kind, o : HaruGives(kind, o)
      BY <1>1, <2>3, HaruGivesInv
    <2>4. CASE HaruEmpties
      BY <1>1, <2>4, HaruEmptiesInv
    <2>5. CASE \E n : HaruDeletes(n)
      BY <1>1, <2>5, HaruDeletesInv
    <2>6. QED
      BY <1>1, <2>1, <2>2, <2>3, <2>4, <2>5, HaruSteps DEF HaruStep
  <1>3. Haru!ResultReachable'
    <2>1. CASE got' = NULL
      BY <2>1 DEF Haru!ResultReachable
    <2>2. CASE \E kind \in Haru!HandleKinds : \E o :
                 Haru!HandOut(kind, o) /\ got' = o
      BY <1>1, <2>2, HandedOut
    <2>3. CASE /\ objs'[got'].kind = "page"
               /\ ret' \in {Haru!NoText, Haru!SomeText}
      BY <2>3 DEF Haru!ResultReachable, Haru!NoText, Haru!SomeText
    <2>4. CASE UNCHANGED <<table, objs, got, ret>>
      BY <1>1, <2>4
      DEF Haru!ResultReachable, Haru!Found, Haru!Named, Haru!Lost,
          Haru!NoText, Haru!SomeText
    <2>5. QED
      BY <2>1, <2>2, <2>3, <2>4, HaruResults DEF HaruResult
  <1>4. QED
    BY <1>2, <1>3 DEF HaruInv

-----------------------------------------------------------------------------
(* The three extensions.                                                   *)

IInv == HaruInv /\ GdInv /\ PgInv

\* What a step does to the tables.
StepKeeps == HaruKeeps /\ GdKeeps /\ PgKeeps

\* The extensions that the program does not use stay as they are.
LEMMA HaruUnchanged ==
  ASSUME HaruInv, UNCHANGED haruVars
  PROVE  HaruInv' /\ HaruKeeps
  <1>1. /\ table' = table /\ objs' = objs /\ emptied' = emptied
        /\ got' = got /\ ret' = ret
    BY DEF haruVars
  <1>2. HaruInv'
    <2>1. HaruObjects' /\ HaruTables' /\ HaruDocuments'
      BY <1>1 DEF HaruInv, HaruObjects, HaruTables, HaruDocuments
    <2>2. Haru!ResultReachable'
      BY <1>1
      DEF HaruInv, Haru!ResultReachable, Haru!Found, Haru!Named, Haru!Lost,
          Haru!NoText, Haru!SomeText
    <2>3. QED
      BY <2>1, <2>2 DEF HaruInv
  <1>3. HaruKeeps
    BY <1>1, NothingKeeps DEF HaruKeeps
  <1>4. QED
    BY <1>2, <1>3

LEMMA GdUnchanged ==
  ASSUME GdInv, UNCHANGED gdVars
  PROVE  GdInv' /\ GdKeeps
  <1>1. imgs' = imgs /\ live' = live
    BY DEF gdVars
  <1>2. GdInv'
    <2>1. IsTable(imgs') /\ Numbered(imgs')
      BY <1>1 DEF GdInv
    <2>2. Gd!ImagesNamed'
      BY <1>1, SameTables DEF GdInv, Gd!ImagesNamed
    <2>3. QED
      BY <2>1, <2>2 DEF GdInv, IsTable, Numbered
  <1>3. GdKeeps
    BY <1>1, NothingKeeps DEF GdKeeps
  <1>4. QED
    BY <1>2, <1>3

LEMMA PgUnchanged ==
  ASSUME PgInv, UNCHANGED pgVars
  PROVE  PgInv' /\ PgKeeps
  <1>1. /\ conns' = conns /\ results' = results /\ links' = links
        /\ tuples' = tuples /\ contents' = contents /\ prepnum' = prepnum
        /\ prepared' = prepared /\ row' = row
    BY DEF pgVars
  <1>2. PgConnsInv' /\ PgResultsInv'
    BY <1>1, PgConns, PgResults
    DEF PgInv, PgLinkStep, PgResultStep
  <1>3. PgNamesInv'
    BY <1>1 DEF PgInv, PgNamesInv, Pg!NamesUnique
  <1>4. Pg!RowsAgree'
    BY <1>1 DEF PgInv, Pg!RowsAgree, Pg!IsNull, Pg!GetValue, Pg!FieldsByName
  <1>5. PgKeeps
    BY <1>1, NothingKeeps DEF PgKeeps
  <1>6. QED
    BY <1>2, <1>3, <1>4, <1>5 DEF PgInv

LEMMA NextInv ==
  ASSUME IInv, [MCNext]_vars
  PROVE  IInv' /\ StepKeeps
  <1>1. HaruInv /\ GdInv /\ PgInv
    BY DEF IInv
  <1>2. \/ Haru!Next /\ UNCHANGED <<gdVars, pgVars>>
        \/ Gd!GdNext /\ UNCHANGED <<haruVars, pgVars>>
        \/ Pg!PgNext /\ UNCHANGED <<haruVars, gdVars>>
        \/ UNCHANGED <<haruVars, gdVars, pgVars>>
    BY DEF MCNext, vars
  <1>3. HaruInv' /\ HaruKeeps
    BY <1>1, <1>2, HaruNextInv, HaruUnchanged
  <1>4. GdInv' /\ GdKeeps
    <2>1. CASE Gd!GdNext
      BY <1>1, <2>1, GdTable DEF GdInv
    <2>2. QED
      BY <1>1, <1>2, <2>1, GdUnchanged
  <1>5. PgInv' /\ PgKeeps
    BY <1>1, <1>2, PgNextInv, PgUnchanged
  <1>6. QED
    BY <1>3, <1>4, <1>5 DEF IInv, StepKeeps

\* In every state a program with one of the three extensions can bring about the
\* tables of haru/pdf.c, gd/gd.c and pgsql/pgsql.c satisfy the invariant.
THEOREM Invariance == MCSpec => []IInv
  <1>1. MCInit => IInv
    BY HaruInitInv, GdInitInv, PgInitInv DEF MCInit, IInv
  <1>2. IInv /\ [MCNext]_vars => IInv'
    BY NextInv
  <1>3. QED
    BY <1>1, <1>2, PTL DEF MCSpec

\* Documents, images, connections and results that are there have a handle, and
\* handles name nothing else, whatever was freed in which order by pdf.c, gd.c
\* and pgsql.c: but for at most one object per size its table has outgrown.
THEOREM ObjectsAlwaysNamed == MCSpec => []ObjectsNamed
  <1>1. GdInv => Gd!ImagesNamed
    BY DEF GdInv
  <1>2. PgInv => Pg!LinksNamed
    BY SameTables DEF PgInv, PgConnsInv, PgResultsInv, Pg!LinksNamed
  <1>3. IInv => ObjectsNamed
    BY <1>1, <1>2, HaruNames DEF IInv, ObjectsNamed
  <1>4. QED
    BY <1>3, Invariance, PTL

\* A program can name with what a function of pdf.c returned the object it got,
\* but for the two functions that return a page as a text and for a handle that
\* strhash_get has lost, of which a table has at most one per size it outgrew.
THEOREM ResultsReachable == MCSpec => []ResultReachable
  <1>1. IInv => ResultReachable
    BY DEF IInv, HaruInv, ResultReachable
  <1>2. QED
    BY <1>1, Invariance, PTL

\* prep_name of pgsql.c never gives a name to two statements, on any number of
\* connections.
THEOREM StatementsNamedApart == MCSpec => []NamesUnique
  <1>1. IInv => NamesUnique
    BY DEF IInv, PgInv, PgNamesInv, NamesUnique
  <1>2. QED
    BY <1>1, Invariance, PTL

\* getrow, getrowbyname, getvalue, getisnull and fieldsbyname of pgsql.c tell the
\* same of a row.
THEOREM RowsAlwaysAgree == MCSpec => []RowsAgree
  <1>1. IInv => RowsAgree
    BY DEF IInv, PgInv, RowsAgree
  <1>2. QED
    BY <1>1, Invariance, PTL

\* No handle of the three extensions ever comes to name another object, or any
\* object again once it was deleted.
THEOREM MeaningKept == MCSpec => HandlesKeepMeaning
  <1>1. StepKeeps =>
          /\ Haru!KeepsMeaning
          /\ Pg!Keeps(imgs, imgs')
          /\ Pg!Keeps(conns, conns') /\ Pg!Keeps(results, results')
    BY SameTables
    DEF StepKeeps, HaruKeeps, GdKeeps, PgKeeps, Haru!KeepsMeaning
  <1>2. IInv /\ [MCNext]_vars =>
          [/\ Haru!KeepsMeaning
           /\ Pg!Keeps(imgs, imgs')
           /\ Pg!Keeps(conns, conns') /\ Pg!Keeps(results, results')]_vars
    BY <1>1, NextInv
  <1>3. QED
    BY <1>2, Invariance, PTL DEF MCSpec, HandlesKeepMeaning

=============================================================================
