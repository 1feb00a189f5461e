---------------------------- MODULE HandleTable -----------------------------
(***************************************************************************)
(* The table of handles that haru/pdf.c, gd/gd.c and pgsql/pgsql.c each    *)
(* keep of the objects of their library: a string hash from a name with a  *)
(* number in it, which is a counter that never goes back, to a pointer.  A *)
(* handle is its number here.  The hash itself is the module StrHash, of   *)
(* which TableLoad has what matters here: an object whose handle makes the *)
(* table grow never gets into it, and no handle ever finds that object.    *)
(***************************************************************************)
EXTENDS TableLoad

EmptyTable == [names |-> <<>>, hnum |-> 0, load |-> NewLoad]

\* names with an entry more, or another object in it.
Entered(names, n, object) ==
  [m \in DOMAIN names \cup {n} |-> IF m = n THEN object ELSE names[m]]

\* Mutant of Issue: the number is that of the entries in the table.
IssueBySize(table, object) ==
  LET n == CHOOSE k \in 0 .. table.hnum :
             /\ k \notin DOMAIN table.names
             /\ \A j \in 0 .. table.hnum :
                  j \notin DOMAIN table.names => k <= j
  IN [names |-> IF Grows(table.load) THEN table.names
                ELSE Entered(table.names, n, object),
      hnum |-> table.hnum + 1,
      load |-> Inserted(table.load, object)]

\* An object gets the next number, which no handle has had: strhash_get always
\* inserts.
Issue(table, object) ==
  [names |-> IF Grows(table.load) THEN table.names
             ELSE Entered(table.names, table.hnum, object),
   hnum |-> table.hnum + 1,
   load |-> Inserted(table.load, object)]

\* find_handle: no string, or none of this table, is no object.
Found(table, n) == n \in DOMAIN table.names

\* Mutant of Without: the entry stays.
WithoutNone(table, n) == table

\* strhash_delete of a handle the table has.
Without(table, n) ==
  [names |-> [m \in DOMAIN table.names \ {n} |-> table.names[m]],
   hnum |-> table.hnum,
   load |-> Released(table.load)]

\* The numbers of handles the program can have, and one more that it made up.
Numbers(table) == 0 .. table.hnum

\* The handles are those of the objects, but for at most one object per size the
\* table has outgrown, whose handle it lost.
NamesAll(table, objects) ==
  LET named == {table.names[n] : n \in DOMAIN table.names} IN
  /\ named \subseteq objects
  /\ objects \ named \subseteq Lost(table.load)
  /\ DOMAIN table.load.lost \subseteq Outgrown(table.load.size)

\* A handle names one object, or none any more, whatever happens later.
Keeps(old, new) ==
  \A n \in 0 .. old.hnum - 1 :
    /\ Found(new, n) => Found(old, n) /\ new.names[n] = old.names[n]

=============================================================================
