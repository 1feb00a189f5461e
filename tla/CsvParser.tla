----------------------------- MODULE CsvParser ------------------------------
(***************************************************************************)
(* The parser of csv/csv_parser.c, which the reader of csv/csv_input.c and *)
(* the functions csvconvert and csvsplit share.  Its callbacks build the   *)
(* fields, which each of the three puts together in its own way.  Of the   *)
(* characters it tells apart the delimiter, the quote and the line feed.   *)
(***************************************************************************)
EXTENDS Naturals, Sequences, SequencesExt

CONSTANT
  Letters   \* the characters it does not tell apart

DELIM == "comma"
QUOTE == "quote"
LF == "lf"
CR == "cr"

Char == {DELIM, QUOTE, LF, CR} \cup Letters

Before == [state |-> "BEFORE_FIELD", fields |-> <<>>, errors |-> 0,
           stopped |-> FALSE]

To(p, state) == [p EXCEPT !.state = state]

BeginField(p) == [p EXCEPT !.fields = Append(@, <<>>)]

Put(p, c) == [p EXCEPT !.fields[Len(p.fields)] = Append(@, c)]

Error(p) == [p EXCEPT !.errors = @ + 1]

\* A line feed outside of quotes ends the record.
Stop(p) == [p EXCEPT !.stopped = TRUE]

Field(p, c) ==
  CASE c = DELIM -> To(BeginField(p), "AFTER_DELIM")
    [] c = LF -> Stop(p)
    [] c = QUOTE -> To(BeginField(p), "IN_QUOTED_FIELD")
    [] OTHER -> To(Put(BeginField(p), c), "IN_UNQUOTED_FIELD")

Quoted(p, c) ==
  IF c = QUOTE THEN To(p, "AFTER_QUOTE") ELSE Put(p, c)

AfterQuote(p, c) ==
  CASE c = QUOTE -> To(Put(p, c), "IN_QUOTED_FIELD")
    [] c = DELIM -> To(p, "AFTER_DELIM")
    [] c = LF -> Stop(To(p, "AFTER_FIELD"))
    [] OTHER -> To(Put(Put(Error(p), QUOTE), c), "IN_UNQUOTED_FIELD")

Unquoted(p, c) ==
  CASE c = DELIM -> To(p, "AFTER_DELIM")
    [] c = LF -> Stop(To(p, "AFTER_FIELD"))
    [] c = QUOTE -> Put(Error(p), c)
    [] OTHER -> Put(p, c)

\* The next character, unless the record has ended.
Step(p, c) ==
  IF p.stopped THEN p
  ELSE
    CASE p.state \in {"BEFORE_FIELD", "AFTER_DELIM"} -> Field(p, c)
      [] p.state = "IN_QUOTED_FIELD" -> Quoted(p, c)
      [] p.state = "AFTER_QUOTE" -> AfterQuote(p, c)
      [] p.state = "IN_UNQUOTED_FIELD" -> Unquoted(p, c)
      [] OTHER -> p

\* The end of the record, or of the input.
Finish(p) ==
  CASE p.state = "IN_QUOTED_FIELD" -> Error(p)
    [] p.state = "AFTER_DELIM" -> BeginField(p)
    [] OTHER -> p

\* The parser that is in p, after the characters of s.
After(p, s) ==
  LET after[i \in 0 .. Len(s)] ==
        IF i = 0 THEN p ELSE Step(after[i - 1], s[i])
  IN after[Len(s)]

Parsed(s) == Finish(After(Before, s))

\* csvsplit: the fields, as the elements of an array.
Split(s) == Parsed(s).fields

\* csvconvert: the fields with a separator between them.
Joined(fields, sep) ==
  LET joined[i \in 0 .. Len(fields)] ==
        IF i = 0 THEN <<>>
        ELSE (IF i > 1 THEN Append(joined[i - 1], sep) ELSE <<>>) \o fields[i]
  IN joined[Len(fields)]

Convert(s, sep) == Joined(Split(s), sep)

=============================================================================
