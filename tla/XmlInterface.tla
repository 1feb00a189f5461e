---------------------------- MODULE XmlInterface ----------------------------
(***************************************************************************)
(* The input parser of xml/xml_interface.c, which turns the tokens of the  *)
(* pull parser into awk variables.  A variable has the generation of the   *)
(* record that set it, so that only those the last record set are made     *)
(* null; XMLPATH is known by the file, by the address of its state, and    *)
(* the version of that file's path.  Files are read in any mixture, and a  *)
(* file may get the address of one that was closed.                        *)
(***************************************************************************)
EXTENDS Naturals, Sequences, FiniteSetsExt, SequencesExt

CONSTANTS
  Addresses,   \* where a struct xml_state can be allocated
  Names,       \* names of elements
  MaxGen,      \* the largest generation counter, then 0 again: UINT_MAX
  MaxDepth,    \* bound: open elements of a file
  MaxVers,     \* bound: versions of a file's path
  NULL

VARIABLES
  xml,       \* struct xml_state at each address, or NULL
  node,      \* generation and value of each variable but XMLPATH
  curgen,
  path,      \* XMLPATH_node, its value and xmlpath_file
  xmlattr,   \* XMLATTR: the names in it
  last       \* the last record, NULL when the program has assigned since

xmlVars == <<xml, node, curgen, path, xmlattr, last>>

-----------------------------------------------------------------------------
(* The variables of each kind of token.                                    *)

Variable ==
  [START_ELEMENT |-> "XMLSTARTELEM", END_ELEMENT |-> "XMLENDELEM",
   CHARDATA |-> "XMLCHARDATA", START_CDATA |-> "XMLSTARTCDATA",
   END_CDATA |-> "XMLENDCDATA", PROC_INST |-> "XMLPROCINST",
   COMMENT |-> "XMLCOMMENT", DECL |-> "XMLDECLARATION",
   START_DOCT |-> "XMLSTARTDOCT", END_DOCT |-> "XMLENDDOCT",
   UNPARSED |-> "XMLUNPARSED", END_DOCUMENT |-> "XMLENDDOCUMENT"]

Kinds == DOMAIN Variable

Named == {"START_ELEMENT", "END_ELEMENT", "PROC_INST", "START_DOCT"}

\* Kinds with entries in XMLATTR.
WithAttributes == {"START_ELEMENT", "DECL", "START_DOCT"}

ReadWrite == {"XMLEVENT", "XMLNAME"}

Scalars ==
  {Variable[k] : k \in Kinds} \cup ReadWrite
    \cup {"XMLERROR", "XMLROW", "XMLCOL", "XMLLEN", "XMLDEPTH"}

-----------------------------------------------------------------------------
(* Files.                                                                  *)

\* xml_load_vars.
XmlInit ==
  /\ xml = [a \in Addresses |-> NULL]
  /\ node = [v \in Scalars |-> [gen |-> 1, value |-> NULL]]
  /\ curgen = 1
  /\ path = [file |-> NULL, gen |-> 1, value |-> <<>>]
  /\ xmlattr = {}
  /\ last = NULL

OpenXml ==
  /\ \E a \in Addresses :
       /\ xml[a] = NULL
       /\ xml' = [xml EXCEPT ![a] = [depth |-> 0, path |-> <<>>,
                                     pathvers |-> 1, nest |-> <<>>,
                                     status |-> "ok"]]
  /\ UNCHANGED <<node, curgen, path, xmlattr, last>>

CloseXml ==
  /\ \E a \in Addresses : xml[a] # NULL /\ xml' = [xml EXCEPT ![a] = NULL]
  /\ UNCHANGED <<node, curgen, path, xmlattr, last>>

\* The program may assign to XMLEVENT and XMLNAME, and to no other.
Assign ==
  /\ last # NULL
  /\ \E v \in ReadWrite : node' = [node EXCEPT ![v].value = "assigned"]
  /\ last' = NULL
  /\ UNCHANGED <<xml, curgen, path, xmlattr>>

-----------------------------------------------------------------------------
(* Records.                                                                *)

\* The tokens the puller can deliver: elements nest.
Tokens(state) ==
  [kind : {"START_ELEMENT"}, name : Names, attrs : {{}, {"x"}}]
    \cup [kind : {"END_ELEMENT"}, attrs : {{}},
          name : IF state.nest = <<>> THEN {} ELSE {Last(state.nest)}]
    \cup [kind : {"PROC_INST"}, name : {"target"}, attrs : {{}}]
    \cup [kind : {"START_DOCT"}, name : {"doctype"}, attrs : {{}, {"SYSTEM"}}]
    \cup [kind : {"DECL"}, name : {NULL}, attrs : {{"VERSION"}}]
    \cup [kind : Kinds \ (Named \cup {"DECL"}), name : {NULL}, attrs : {{}}]

\* Mutant of NextGen: the counter takes the value that stands for null.
NextGenPlain == (curgen + 1) % (MaxGen + 1)

NextGen ==
  IF (curgen + 1) % (MaxGen + 1) = 0 THEN 1 ELSE (curgen + 1) % (MaxGen + 1)

\* append_xmlpath and chop_xmlpath, with the depth.
Entered(state, name) ==
  [state EXCEPT !.depth = @ + 1, !.path = Append(@, name), !.pathvers = @ + 1,
                !.nest = Append(@, name)]

Left(state) ==
  [state EXCEPT !.depth = @ - 1, !.path = Front(@), !.pathvers = @ + 1,
                !.nest = Front(@)]

\* The state of the file after a token.
After(state, t) ==
  CASE t.kind = "START_ELEMENT" -> Entered(state, t.name)
    [] t.kind = "END_ELEMENT" -> Left(state)
    [] OTHER -> state

\* RESET_XMLPATH, before the path is chopped and after it was appended to.
PathOf(a, state) == [file |-> a, gen |-> state.pathvers, value |-> state.path]

PathBefore(a, state) ==
  IF path.file # a \/ path.gen # state.pathvers THEN PathOf(a, state) ELSE path

\* The variables a token sets.
SetBy(kind) ==
  {"XMLROW", "XMLCOL", "XMLLEN", "XMLDEPTH", "XMLEVENT", Variable[kind]}
    \cup (IF kind \in Named THEN {"XMLNAME"} ELSE {})

SetByError == {"XMLERROR", "XMLROW", "XMLCOL", "XMLLEN", "XMLDEPTH"}

Value(v, t, depth) ==
  CASE v = "XMLDEPTH" -> depth
    [] v = "XMLEVENT" -> t.kind
    [] v # "XMLDEPTH" /\ t.kind \in Named /\ v \in {"XMLNAME", Variable[t.kind]} ->
         t.name
    [] OTHER -> "set"

\* resetXMLvars_after: null unless of this record, or null already.
Reset(v) ==
  /\ node[v].gen # NextGen
  /\ v \in ReadWrite \/ node[v].gen # 0

Updated(values) ==
  [v \in Scalars |->
     IF v \in DOMAIN values THEN [gen |-> NextGen, value |-> values[v]]
     ELSE IF Reset(v) THEN [gen |-> 0, value |-> NULL] ELSE node[v]]

\* xml_get_record with a token.
Record ==
  /\ \E a \in {b \in Addresses : xml[b] # NULL} : \E t \in Tokens(xml[a]) :
       LET after == After(xml[a], t)
           deep == Max({xml[a].depth, after.depth})
       IN
         /\ xml[a].status = "ok"
         /\ Len(after.nest) <= MaxDepth /\ after.pathvers <= MaxVers
         /\ xml' = [xml EXCEPT ![a] = after]
         /\ node' = Updated([v \in SetBy(t.kind) |-> Value(v, t, deep)])
         /\ path' = IF t.kind = "START_ELEMENT" THEN PathOf(a, after)
                    ELSE PathBefore(a, xml[a])
         /\ xmlattr' = t.attrs
         /\ last' = [kind |-> t.kind, name |-> t.name, attrs |-> t.attrs,
                     nest |-> IF t.kind = "START_ELEMENT" THEN after.nest
                              ELSE xml[a].nest]
  /\ curgen' = NextGen

\* xml_get_record with none: the end of the file, or an error that is reported
\* again as often as the program reads on.
NoRecord ==
  /\ \E a \in {b \in Addresses : xml[b] # NULL} :
     \E status \in IF xml[a].status # "ok" THEN {xml[a].status}
                   ELSE IF xml[a].nest = <<>> THEN {"error", "eof"} ELSE {"error"} :
       /\ xml' = [xml EXCEPT ![a].status = status]
       /\ node' = Updated(
            [v \in IF status = "error" THEN SetByError ELSE {} |->
               IF v = "XMLDEPTH" THEN xml[a].depth ELSE "set"])
       /\ path' = PathBefore(a, xml[a])
       /\ last' = [kind |-> status, name |-> NULL, attrs |-> {},
                   nest |-> xml[a].nest]
  /\ xmlattr' = {}
  /\ curgen' = NextGen

XmlNext == OpenXml \/ CloseXml \/ Assign \/ Record \/ NoRecord

-----------------------------------------------------------------------------
(* Properties.                                                             *)

Set == {v \in Scalars : node[v].value # NULL}

\* After each record the XML variables are those of its token and no others, even
\* if the program has assigned to them, files are read in turn, a file has the
\* address of one that was closed, or the generation counter has wrapped around.
VariablesOfToken ==
  last # NULL =>
    /\ Set = CASE last.kind \in Kinds -> SetBy(last.kind)
               [] last.kind = "error" -> SetByError
               [] OTHER -> {}
    /\ path.value = last.nest
    /\ "XMLDEPTH" \in Set => node["XMLDEPTH"].value = Len(last.nest)
    /\ "XMLEVENT" \in Set => node["XMLEVENT"].value = last.kind
    /\ "XMLNAME" \in Set => node["XMLNAME"].value = last.name
    /\ xmlattr = last.attrs

=============================================================================
