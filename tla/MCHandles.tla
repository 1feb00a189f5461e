----------------------------- MODULE MCHandles ------------------------------
(***************************************************************************)
(* A program that uses one of the three extensions whose objects have      *)
(* handles.  Each has the variables of its module; those of the others     *)
(* stay as they are.                                                       *)
(***************************************************************************)
EXTENDS TableLoad

CONSTANTS MaxObjects, MaxHandles, MaxImages, MaxConns, MaxResults, MaxNames,
          MaxArrays, NULL

VARIABLES
  lib,
  table, objs, emptied, got, ret, fault,
  imgs, live, shown,
  conns, results, links, tuples, contents, prepnum, prepared, arrays, row,
  answer

Haru == INSTANCE HaruDocs
Gd == INSTANCE GdImages
Pg == INSTANCE PgsqlHandles

haruVars == <<table, objs, emptied, got, ret, fault>>
gdVars == <<imgs, live, shown>>
pgVars == <<conns, results, links, tuples, contents, prepnum, prepared,
            arrays, row, answer>>
vars == <<lib, haruVars, gdVars, pgVars>>

MCInit ==
  /\ lib \in {"haru", "gd", "pgsql"}
  /\ Haru!Init /\ Gd!GdInit /\ Pg!PgInit

MCNext ==
  \/ lib = "haru" /\ Haru!Next /\ UNCHANGED <<lib, gdVars, pgVars>>
  \/ lib = "gd" /\ Gd!GdNext /\ UNCHANGED <<lib, haruVars, pgVars>>
  \/ lib = "pgsql" /\ Pg!PgNext /\ UNCHANGED <<lib, haruVars, gdVars>>

MCSpec == MCInit /\ [][MCNext]_vars

\* In each of the three extensions what the library has for the program, and
\* only that, has a handle: documents, images, connections and results.
ObjectsNamed == Haru!DocumentsNamed /\ Gd!ImagesNamed /\ Pg!LinksNamed

\* What a function of haru/pdf.c returns names what it got for the program.
ResultReachable == Haru!ResultReachable

\* Statement names of pgsql/pgsql.c are unique in the session.
NamesUnique == Pg!NamesUnique

\* The functions of pgsql/pgsql.c that go by the name of a field agree.
RowsAgree == Pg!RowsAgree

\* Parameter arrays of pgsql/pgsql.c are freed in the call that made them.
ParametersFreed == [][Pg!ParametersFreed]_vars

\* A handle keeps its meaning: it never comes to name another object.
HandlesKeepMeaning ==
  [][/\ Haru!KeepsMeaning
     /\ Pg!Keeps(imgs, imgs')
     /\ Pg!Keeps(conns, conns') /\ Pg!Keeps(results, results')]_vars

=============================================================================
