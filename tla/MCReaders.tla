----------------------------- MODULE MCReaders ------------------------------
(***************************************************************************)
(* A program that reads with one of the extensions reclen, csv, json and   *)
(* xml, or the pull parser below xml.  Each has the variables of its       *)
(* module; those of the others stay as they are.                           *)
(***************************************************************************)
EXTENDS TextReaders

CONSTANTS FileNames, Lengths, FileSize, MaxOpens, Addresses, Names, MaxGen,
          MaxDepth, MaxVers, Keys, MaxEvents

\* Lengths are numbers, and the generation counter has room for more than one
\* record.
ASSUME LengthsAssumption == Lengths \subseteq Nat /\ FileSize \in Nat
ASSUME GenerationsAssumption == MaxGen \in Nat /\ MaxGen > 1

\* The first file has any text of three characters, or one or two records that
\* the awk library wrote with one of three line ends; the second is in two lines.
Fields == {<<>>, <<"x">>, <<QUOTE>>, <<DELIM>>, <<LF>>, <<CR>>}
Rows == {<<f>> : f \in Fields} \cup (Fields \X Fields)
Texts == UNION {[1 .. n -> Char] : n \in 0 .. 3}
First ==
  [text : Texts, records : {NULL}]
    \cup {Written(<<r>>, ors) : r \in Rows, ors \in LineEnds}
    \cup {Written(<<r, <<<<"x">>, <<>>>>>>, ors) : r \in Rows, ors \in LineEnds}
Second == [text |-> <<"x", CR, "x">>, records |-> NULL]
MCDocuments == {<<d, Second>> : d \in First}

\* Streams of one document, of two, and of a document and something broken.
Start == <<"s1", "s2">>
End == <<"e1", "e2">>
Roots == {Start \o End, Start \o <<"t">> \o End, Start \o <<"n", "t">> \o End,
          <<"x">> \o Start \o End, Start \o Start \o <<"t">> \o End \o End}
Singles == {r \o space : r \in Roots, space \in {<<>>, <<"n">>}}
             \cup {<<"n">> \o Start \o End}
Broken == {Start, Start \o <<"t">>, End, <<"t">>}
MCStreams ==
  {[bytes |-> d, docs |-> 1, good |-> TRUE] : d \in Singles}
    \cup {[bytes |-> d \o e, docs |-> 2, good |-> TRUE] : d \in Singles, e \in Singles}
    \cup {[bytes |-> d \o b, docs |-> 2, good |-> FALSE] : d \in Singles, b \in Broken}

VARIABLES
  lib,
  reclen, files, list, buf, record, sharing, broken,
  xml, node, curgen, path, xmlattr, last,
  heap, handler, doc, open, parsing, events

R == INSTANCE Reclen
X == INSTANCE XmlInterface
J == INSTANCE JsonArrays

\* What is null is no value of a variable.
ASSUME NamesAssumption ==
  NULL \notin Names \cup X!Kinds \cup {"set", "target", "doctype", "assigned"}

reclenVars == <<reclen, files, list, buf, record, sharing, broken>>
xmlVars == <<xml, node, curgen, path, xmlattr, last>>
jsonVars == <<heap, handler, doc, open, parsing, events>>
vars == <<lib, reclenVars, csvVars, pullerVars, xmlVars, jsonVars>>

MCInit ==
  /\ lib \in {"reclen", "csv", "puller", "xml", "json"}
  /\ R!ReclenInit /\ (lib # "reclen" => reclen = 0)
  /\ CsvInit /\ (lib # "csv" => docs[1].text = <<>>)
  /\ P!PullerInit /\ (lib # "puller" => ~multi /\ stream.bytes = Start \o End)
  /\ X!XmlInit /\ J!JsonInit

MCNext ==
  \/ /\ lib = "reclen" /\ R!ReclenNext
     /\ UNCHANGED <<lib, csvVars, pullerVars, xmlVars, jsonVars>>
  \/ /\ lib = "csv" /\ CsvNext
     /\ UNCHANGED <<lib, reclenVars, pullerVars, xmlVars, jsonVars>>
  \/ /\ lib = "puller" /\ P!PullerNext
     /\ UNCHANGED <<lib, reclenVars, csvVars, xmlVars, jsonVars>>
  \/ /\ lib = "xml" /\ X!XmlNext
     /\ UNCHANGED <<lib, reclenVars, csvVars, pullerVars, jsonVars>>
  \/ /\ lib = "json" /\ J!JsonNext
     /\ UNCHANGED <<lib, reclenVars, csvVars, pullerVars, xmlVars>>

MCSpec == MCInit /\ [][MCNext]_vars

\* The buffer that the files of reclen/reclen.c share lives as long as one of them
\* uses it, a record fits in it, and the list has the files that are being read.
FilesListed == R!BufferShared /\ R!ListExact

\* csv/csv_input.c loses no character of a file, agrees with csvsplit and
\* csvconvert on its records, and reads what the awk library wrote.
ReadAsWritten == CsvRecords

\* json/json.cpp makes the arrays of the text, also of what is complete in one
\* that is not, and reads what it wrote.
TreeOfDocument == J!TreeOfDocument

\* The tokens of xml/xml_puller.c cover its documents, whatever blocks they come
\* in, in order and each with its place.
TokensOfDocuments == P!TokensOfDocuments

\* The variables of xml/xml_interface.c are those of the last record only.
VariablesOfToken == X!VariablesOfToken

=============================================================================
