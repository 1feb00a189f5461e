----------------------------- MODULE CsvReader ------------------------------
(***************************************************************************)
(* The input parser of csv/csv.c and csv/csv_input.c.  It reads the file   *)
(* character by character for the parser, and ends a record at the first   *)
(* line end it does not take for quoted.  Several files may be open, and   *)
(* read in turn; what a file has between its records is copied into static *)
(* variables for each record, and back.                                    *)
(***************************************************************************)
EXTENDS CsvWriter

CONSTANTS
  Csvs,       \* file numbers
  Documents,  \* the files, by number: text, and NULL or the records written
  MaxAssigns, \* bound: assignments to CSVFS
  NULL

VARIABLES
  docs,      \* for each file number a document
  readers,   \* for each the reader: position, pending character, separator
  got,       \* for each the records returned
  afterCr,   \* the static variable after_cr: NULL or a character
  csvfs,     \* CSVFS
  assigns    \* assignments to CSVFS so far

csvVars == <<docs, readers, got, afterCr, csvfs, assigns>>

SEP == "csvfs"
NUL == "nul"

\* CSVFS is a separator, or empty, when put_string writes a null character.
Separators == {<<SEP>>, <<>>}

CsvInit ==
  /\ docs \in Documents
  /\ readers = [f \in Csvs |-> [state |-> "closed", pos |-> 0, after |-> NULL,
                                fs |-> <<>>, freed |-> FALSE]]
  /\ got = [f \in Csvs |-> <<>>]
  /\ afterCr = NULL
  /\ csvfs = <<SEP>>
  /\ assigns = 0

\* take_control_of: csv_reader_init.  The reader points to the value of CSVFS.
OpenCsv ==
  /\ \E f \in Csvs :
       /\ readers[f].state = "closed"
       /\ readers' = [readers EXCEPT ![f].state = "open", ![f].fs = csvfs]
  /\ UNCHANGED <<docs, got, afterCr, csvfs, assigns>>

\* The program assigns CSVFS: gawk frees the value the readers point to.
AssignCsvfs ==
  /\ assigns < MaxAssigns
  /\ csvfs' \in Separators
  /\ assigns' = assigns + 1
  /\ readers' = [f \in Csvs |-> [readers[f] EXCEPT
                   !.freed = @ \/ readers[f].state # "closed"]]
  /\ UNCHANGED <<docs, got, afterCr>>

-----------------------------------------------------------------------------
(* Reading a record.  r has the parser, the position in the file, the      *)
(* pending character, what was read for the record and its terminator.     *)

Begun ==
  [parser |-> Before, pos |-> 0, after |-> NULL, inside |-> FALSE,
   input |-> <<>>, rt |-> <<>>, ended |-> FALSE]

\* A carriage return ends a record, with the line feed after it or without.
AfterReturn(text, r) ==
  LET next == r.pos + 1 IN
  IF next > Len(text) THEN [r EXCEPT !.rt = <<CR>>, !.ended = TRUE]
  ELSE IF text[next] = LF
       THEN [r EXCEPT !.rt = <<CR, LF>>, !.pos = next, !.ended = TRUE]
       ELSE [r EXCEPT !.rt = <<CR>>, !.pos = next, !.after = text[next],
                      !.ended = TRUE]

\* The character c goes to the parser, which may find that the record ends.
Fed(r, c) ==
  LET p == Step(r.parser, c) IN
  [r EXCEPT !.parser = p, !.ended = p.stopped, !.input = Append(@, c),
            !.inside = IF c = QUOTE THEN ~@ ELSE @]

\* next_char.
Advanced(text, r) ==
  LET c == IF r.after # NULL THEN r.after ELSE text[r.pos + 1]
      read == IF r.after # NULL THEN [r EXCEPT !.after = NULL]
              ELSE [r EXCEPT !.pos = @ + 1]
  IN IF ~r.inside /\ c = CR THEN AfterReturn(text, read)
     ELSE IF ~r.inside /\ c = LF THEN [read EXCEPT !.rt = <<LF>>, !.ended = TRUE]
     ELSE Fed(read, c)

\* csv_parse: until the end of the record or of the file.
AtEnd(text, r) == r.after = NULL /\ r.pos = Len(text)

Continued(text, r) ==
  IF r.ended \/ AtEnd(text, r) THEN r ELSE Advanced(text, r)

RecordRead(text, start) ==
  LET read[i \in 0 .. Len(text) + 1] ==
        IF i = 0 THEN start ELSE Continued(text, read[i - 1])
      last == read[Len(text) + 1]
  IN [last EXCEPT !.parser = Finish(@)]

\* Mutant of Loaded: the character stays that of the last file read.
LoadedNot(reader) == afterCr

\* csv_read begins with the character the reader has pending.
Loaded(reader) == reader.after

\* begin_field skips as many characters as CSVFS has, whatever was written.
Widths(fields, skip) ==
  [i \in 1 .. Len(fields) |->
     [skip |-> IF i > 1 THEN skip ELSE 0, len |-> Len(fields[i])]]

\* The fields that gawk cuts from a record by their widths.
Cut(record, widths) ==
  LET end[i \in 0 .. Len(widths)] ==
        IF i = 0 THEN 0 ELSE end[i - 1] + widths[i].skip + widths[i].len
  IN [i \in 1 .. Len(widths) |->
        SubSeq(record, end[i] - widths[i].len + 1, end[i])]

\* What awk gets: $0, its fields, CSVRECORD and RT.
Result(r, reader, written) ==
  LET record == Joined(r.parser.fields, written) IN
  [record |-> record,
   fields |-> Cut(record, Widths(r.parser.fields, Len(reader.fs))),
   csv |-> r.input, rt |-> r.rt,
   exact |-> ~reader.freed /\ reader.fs # <<>>]

\* The separator that is written: after the value was freed, whatever is there.
WrittenFor(reader) ==
  IF reader.freed THEN {SEP, NUL} ELSE {IF reader.fs = <<>> THEN NUL ELSE SEP}

\* A record that is empty is returned as the end of the file, like no record.
ReadCsv ==
  /\ \E f \in Csvs :
       LET start == [Begun EXCEPT !.pos = readers[f].pos,
                                  !.after = Loaded(readers[f])]
           r == RecordRead(docs[f].text, start)
       IN
         /\ readers[f].state = "open"
         /\ afterCr' = r.after
         /\ \E written \in WrittenFor(readers[f]) :
              LET result == Result(r, readers[f], written) IN
                IF result.record = <<>>
                THEN readers' = [readers EXCEPT ![f].state = "ended",
                                                ![f].pos = r.pos,
                                                ![f].after = r.after]
                     /\ UNCHANGED got
                ELSE readers' = [readers EXCEPT ![f].pos = r.pos,
                                                ![f].after = r.after]
                     /\ got' = [got EXCEPT ![f] = Append(@, result)]
  /\ UNCHANGED <<docs, csvfs, assigns>>

CloseCsv ==
  /\ \E f \in Csvs :
       /\ readers[f].state \in {"open", "ended"}
       /\ readers' = [readers EXCEPT ![f].state = "gone"]
  /\ UNCHANGED <<docs, got, afterCr, csvfs, assigns>>

CsvNext == OpenCsv \/ AssignCsvfs \/ ReadCsv \/ CloseCsv

CsvSpec == CsvInit /\ [][CsvNext]_csvVars

\* A document is a text, or the text that the records it has are written as.
DocumentsWritten ==
  /\ NULL \notin Char
  /\ \A d \in Documents : \A f \in Csvs :
       /\ d[f].text \in Seq(Char)
       /\ d[f].records # NULL =>
            /\ d[f].records \in Seq(Seq(Seq(Char)))
            /\ \E ors \in LineEnds : d[f].text = Written(d[f].records, ors).text

-----------------------------------------------------------------------------
(* Properties.                                                             *)

\* What the records of an open file were made from, with their terminators, is
\* the file up to where it is read: no character is lost, also where the reader
\* changes between files with a character pending.
InputKept ==
  \A f \in Csvs : readers[f].state = "open" =>
    FlattenSeq([i \in 1 .. Len(got[f]) |-> got[f][i].csv \o got[f][i].rt])
      = SubSeq(docs[f].text, 1,
               readers[f].pos - IF readers[f].after = NULL THEN 0 ELSE 1)

\* The three users of the parser agree: the fields of a record are those that
\* csvsplit finds in CSVRECORD, and $0 is what csvconvert makes of it, unless
\* CSVFS is empty or was assigned while the file was open.
ReadersAgree ==
  \A f \in Csvs : \A i \in 1 .. Len(got[f]) : got[f][i].exact =>
    /\ got[f][i].fields = Split(got[f][i].csv)
    /\ got[f][i].record = Convert(got[f][i].csv, SEP)

\* No carriage return, which csvquote does not quote, and no blank line.
Readable(record) ==
  /\ csvcompose(record) # <<>> /\ record # <<<<>>>>
  /\ \A i \in 1 .. Len(record) : CR \notin ToSet(record[i])

\* What the awk library wrote is read back, record by record and field by field.
WrittenIsRead ==
  \A f \in Csvs :
    docs[f].records # NULL /\ (\A i \in 1 .. Len(docs[f].records) :
                                 Readable(docs[f].records[i])) =>
      /\ \A i \in 1 .. Len(got[f]) : got[f][i].exact =>
           got[f][i].fields = docs[f].records[i]
      /\ readers[f].state = "ended" => Len(got[f]) = Len(docs[f].records)

CsvRecords == InputKept /\ ReadersAgree /\ WrittenIsRead

=============================================================================
