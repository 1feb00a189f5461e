----------------------------- MODULE CsvWriter ------------------------------
(***************************************************************************)
(* The functions of csv/awklib/csv/csv.awk that write records.             *)
(***************************************************************************)
EXTENDS CsvParser

csvquote(str) ==
  IF {DELIM, QUOTE, LF} \cap ToSet(str) = {} THEN str
  ELSE <<QUOTE>>
         \o FlattenSeq([i \in 1 .. Len(str) |->
                          IF str[i] = QUOTE THEN <<QUOTE, QUOTE>> ELSE <<str[i]>>])
         \o <<QUOTE>>

csvcompose(af) == Joined([i \in 1 .. Len(af) |-> csvquote(af[i])], DELIM)

\* The line ends a program may print.
LineEnds == {<<LF>>, <<CR, LF>>, <<CR>>}

\* csvprint for each of the records, with a line end of the program's choice.
Written(records, ors) ==
  [text |-> FlattenSeq([i \in 1 .. Len(records) |-> csvcompose(records[i]) \o ors]),
   records |-> records]

=============================================================================
