----------------------------- MODULE XmlPuller ------------------------------
(***************************************************************************)
(* The pull parser of xml/xml_puller.c.  It reads blocks of the file for   *)
(* expat, whose callbacks queue tokens, and delivers them one by one.  In  *)
(* a file of several documents the parser fails where the next one begins; *)
(* a new parser is then given the bytes from there, which are kept in the  *)
(* buffer.  Bytes are known by their place in the stream: the buffer and   *)
(* the tokens hold places.                                                 *)
(***************************************************************************)
EXTENDS Integers, Sequences, FiniteSetsExt, SequencesExt

CONSTANTS
  Streams,    \* the files: bytes, number of documents, and if well-formed
  ReadSize,   \* buffer_length of XML_PullerCreate
  Slack,      \* what the buffer grows by beyond what is needed: 128
  NULL

VARIABLES
  stream,   \* the file
  multi,    \* END_DOCUMENT is enabled
  at,       \* the next byte of the file
  input,    \* INPUT: the buffer and the offsets in it
  puller,   \* status, the queue of tokens, pending text, depth and position
  expat,    \* the parser of the document
  pc,       \* "next" between blocks, "parse" when one has been read
  tokens,   \* the tokens delivered
  failed    \* a read, a conversion or an allocation has failed

pullerVars == <<stream, multi, at, input, puller, expat, pc, tokens, failed>>

-----------------------------------------------------------------------------
(* Expat.  Tags are two bytes, s1 s2 and e1 e2; t is text, n a line end, x *)
(* a declaration of an encoding only the unknown-encoding handler knows.   *)

NewParser(handler) ==
  [rest |-> <<>>, offset |-> 0, row |-> 1, col |-> 0, depth |-> 0,
   root |-> FALSE, handler |-> handler, status |-> "ok", events |-> <<>>]

Byte(p) == stream.bytes[p.rest[1]]

Size(p) == IF Byte(p) \in {"s1", "e1"} THEN 2 ELSE 1

Event(p, kind) ==
  [kind |-> kind, from |-> p.rest[1], to |-> p.rest[1] + Size(p),
   row |-> p.row, col |-> p.col]

Kind(p) ==
  CASE Byte(p) = "s1" /\ (p.depth > 0 \/ ~p.root) -> "START_ELEMENT"
    [] Byte(p) = "e1" /\ p.depth > 0 -> "END_ELEMENT"
    [] Byte(p) \in {"t", "n"} /\ p.depth > 0 -> "CHARDATA"
    [] Byte(p) = "n" /\ p.depth = 0 -> "UNPARSED"
    [] Byte(p) = "x" /\ p.offset = 0 -> "DECL"
    [] OTHER -> "none"

Consumed(p) ==
  [p EXCEPT
     !.events = Append(@, Event(p, Kind(p))),
     !.rest = SubSeq(@, Size(p) + 1, Len(@)),
     !.offset = @ + Size(p),
     !.row = IF Byte(p) = "n" THEN @ + 1 ELSE @,
     !.col = IF Byte(p) = "n" THEN 0 ELSE @ + Size(p),
     !.depth = CASE Kind(p) = "START_ELEMENT" -> @ + 1
                 [] Kind(p) = "END_ELEMENT" -> @ - 1
                 [] OTHER -> @,
     !.root = @ \/ Kind(p) = "START_ELEMENT",
     !.status = IF Kind(p) = "DECL" /\ ~p.handler THEN "error" ELSE @]

\* The next token, if it is complete.  On an error rest begins with it.
Token(p) ==
  IF p.status = "error" \/ p.rest = <<>> \/ Len(p.rest) < Size(p) THEN p
  ELSE IF Kind(p) = "none" THEN [p EXCEPT !.status = "error"]
  ELSE Consumed(p)

\* As many of the bytes as make whole tokens, up to an error.
Parsed(p, bytes) ==
  LET rest == p.rest \o bytes
      parsed[i \in 0 .. Len(rest)] ==
        IF i = 0 THEN [p EXCEPT !.rest = rest, !.events = <<>>]
        ELSE Token(parsed[i - 1])
  IN parsed[Len(rest)]

\* The end of the input: the document must be complete.
Finishes(p) == p.rest = <<>> /\ p.root /\ p.depth = 0

-----------------------------------------------------------------------------
(* The callbacks.  failure is "flush" when pending text cannot be made a   *)
(* token, "token" when the token of the event itself cannot.               *)

\* set_row_col: the place in the file, counted from that of the document.
Placed(u, e) ==
  [e EXCEPT !.row = u.prev_row + e.row - 1,
            !.col = IF e.row = 1 THEN u.prev_col + e.col ELSE e.col + 1]

Flushed(u, failure) ==
  IF u.cdata = NULL THEN u
  ELSE IF u.status # "ok" \/ failure = "flush"
       THEN [u EXCEPT !.cdata = NULL, !.status = "error"]
       ELSE [u EXCEPT !.cdata = NULL, !.queue = Append(@, u.cdata)]

\* token_get and token_enqueue.
Enqueued(u, e, failure) ==
  LET v == Flushed(u, failure) IN
  IF v.status # "ok" THEN v
  ELSE IF failure = "token" THEN [v EXCEPT !.status = "error"]
  ELSE [v EXCEPT !.queue = Append(@, Placed(u, e))]

AddPending(u, e, failure) ==
  LET v == IF u.status = "ok" /\ u.cdata # NULL /\ u.cdata.kind # e.kind
           THEN Flushed(u, failure) ELSE u IN
  IF v.status # "ok" THEN v
  ELSE IF failure = "token" THEN [v EXCEPT !.cdata = NULL, !.status = "error"]
  ELSE IF v.cdata = NULL THEN [v EXCEPT !.cdata = Placed(u, e)]
  ELSE [v EXCEPT !.cdata.to = e.to]

StartElement(u) == [u EXCEPT !.depth = @ + 1, !.elements = @ + 1]
EndElement(u) == [u EXCEPT !.depth = @ - 1]

Handled(u, e, failure) ==
  CASE e.kind \in {"CHARDATA", "UNPARSED"} -> AddPending(u, e, failure)
    [] e.kind = "START_ELEMENT" -> Enqueued(StartElement(u), e, failure)
    [] e.kind = "END_ELEMENT" -> Enqueued(EndElement(u), e, failure)
    [] OTHER -> Enqueued(u, e, failure)

\* The callbacks for the events of a block, of which the one at k may fail.
AllHandled(u, events, k, failure) ==
  LET handled[i \in 0 .. Len(events)] ==
        IF i = 0 THEN u
        ELSE Handled(handled[i - 1], events[i], IF i = k THEN failure ELSE "none")
  IN handled[Len(events)]

EndDocument(u, p, failure) ==
  LET place == IF p.rest = <<>> THEN at ELSE p.rest[1] IN
  Enqueued(u, [kind |-> "END_DOCUMENT", from |-> place, to |-> place,
               row |-> p.row, col |-> p.col], failure)

\* XML_PullerSetError keeps the first error.
SetError(u) == [u EXCEPT !.status = "error"]

-----------------------------------------------------------------------------
(* XML_PullerCreate and XML_PullerNext.                                    *)

AnyToken ==
  [kind : {"START_ELEMENT", "END_ELEMENT", "CHARDATA", "UNPARSED", "DECL",
           "END_DOCUMENT"},
   from : Nat, to : Nat, row : Nat, col : Nat]

PullerInit ==
  /\ stream \in Streams
  /\ multi \in BOOLEAN
  /\ at = 1
  /\ input = [buf |-> [i \in 1 .. ReadSize |-> 0], doc_offset |-> 0,
              saved_start |-> 0, saved_bytes |-> 0, new_start |-> 0,
              new_bytes |-> 0]
  /\ puller = [fd |-> "open", status |-> "ok", queue |-> <<>>, cdata |-> NULL,
               depth |-> 0, elements |-> 0, prev_row |-> 1, prev_col |-> 1]
  /\ expat = NewParser(TRUE)
  /\ pc = "next"
  /\ tokens = <<>>
  /\ failed = FALSE

Deliver ==
  /\ pc = "next" /\ puller.queue # <<>>
  /\ tokens' = Append(tokens, Head(puller.queue))
  /\ puller' = [puller EXCEPT !.queue = Tail(@)]
  /\ UNCHANGED <<stream, multi, at, input, expat, pc, failed>>

\* The queue is empty, and the file is to be read.
Wanting ==
  pc = "next" /\ puller.queue = <<>> /\ puller.status = "ok" /\ puller.fd = "open"

Room == Min({ReadSize, Len(input.buf) - input.new_start})

\* read may return less than it could.
ReadBlock ==
  /\ Wanting
  /\ \E n \in 1 .. Min({Room, Len(stream.bytes) + 1 - at}) :
       /\ input' = [input EXCEPT
            !.buf = [i \in 1 .. Len(@) |->
                       IF i - input.new_start \in 1 .. n
                       THEN at + (i - input.new_start) - 1 ELSE @[i]],
            !.new_bytes = n]
       /\ at' = at + n
  /\ pc' = "parse"
  /\ UNCHANGED <<stream, multi, puller, expat, tokens, failed>>

ReadError ==
  /\ Wanting
  /\ puller' = [puller EXCEPT !.fd = "ended", !.status = "error"]
  /\ failed' = TRUE
  /\ UNCHANGED <<stream, multi, at, input, expat, pc, tokens>>

\* Pending text is flushed before the document ends.  Either may fail.
EndOfFile ==
  /\ Wanting
  /\ at <= Len(stream.bytes) => Room = 0
  /\ \E failure \in {"none", "flush", "token"} :
       LET u == [Flushed(puller, failure) EXCEPT !.fd = "ended"]
           v == IF Finishes(expat) /\ multi THEN EndDocument(u, expat, failure)
                ELSE u
       IN
         /\ failed' = (failed \/ v.status # "ok")
         /\ puller' = IF Finishes(expat) THEN v ELSE SetError(v)
  /\ UNCHANGED <<stream, multi, at, input, expat, pc, tokens>>

NewBytes == SubSeq(input.buf, input.new_start + 1,
                   input.new_start + input.new_bytes)

\* Parsed bytes go from the buffer, and the rest to its start, after which there
\* is room for a block.
Kept(in, last_ok) ==
  LET saved_bytes == in.saved_bytes + in.new_bytes - (last_ok - in.doc_offset)
      first == in.saved_start + (last_ok - in.doc_offset)
      size == IF Len(in.buf) < saved_bytes + ReadSize
              THEN Len(in.buf) + 2 * (saved_bytes + ReadSize - Len(in.buf)) + Slack
              ELSE Len(in.buf)
  IN [buf |-> [i \in 1 .. size |->
                 IF i <= saved_bytes THEN in.buf[first + i] ELSE 0],
      doc_offset |-> last_ok, saved_start |-> 0, saved_bytes |-> saved_bytes,
      new_start |-> saved_bytes, new_bytes |-> 0]

\* Without several documents nothing is kept.
Dropped(in) ==
  [in EXCEPT !.doc_offset = @ + in.saved_bytes + in.new_bytes,
             !.saved_start = 0, !.saved_bytes = 0, !.new_start = 0,
             !.new_bytes = 0]

InRange(offset) ==
  /\ offset >= input.doc_offset
  /\ offset <= input.doc_offset + input.saved_bytes + input.new_bytes

\* The parser has taken the block; after a failure the buffer stays as it is.
Continue(p, u) ==
  /\ pc' = "next"
  /\ expat' = [p EXCEPT !.events = <<>>]
  /\ IF u.status # "ok" THEN puller' = u /\ failed' = TRUE /\ UNCHANGED input
     ELSE IF ~multi
       THEN puller' = u /\ input' = Dropped(input) /\ UNCHANGED failed
     ELSE IF ~InRange(p.offset)
       THEN puller' = SetError(u) /\ UNCHANGED <<input, failed>>
     ELSE LET kept == Kept(input, p.offset) IN
       \/ puller' = u /\ input' = kept /\ UNCHANGED failed
       \/ /\ Len(kept.buf) > Len(input.buf)    \* it cannot be enlarged
          /\ puller' = SetError(u) /\ failed' = TRUE
          /\ input' = [kept EXCEPT !.buf = SubSeq(@, 1, Len(input.buf))]

\* Mutant of Restarted: the bytes kept from earlier blocks are not counted.
RestartedShort(in, errloc) ==
  LET start == in.saved_start + (errloc - in.doc_offset) IN
  [in EXCEPT !.new_start = start,
             !.new_bytes = @ - (errloc - in.doc_offset),
             !.saved_start = start, !.saved_bytes = 0, !.doc_offset = 0]

\* All bytes from the error on are new to the next document.
Restarted(in, errloc) ==
  LET start == in.saved_start + (errloc - in.doc_offset) IN
  [in EXCEPT !.new_start = start,
             !.new_bytes = @ + in.saved_bytes - (errloc - in.doc_offset),
             !.saved_start = start, !.saved_bytes = 0, !.doc_offset = 0]

\* The next parser has no handler for unknown encodings.  Without the memory for
\* its END_DOCUMENT the document ends all the same, and the next one is parsed
\* for nothing; without a parser it is not.
NextDocument(p, u, failure) ==
  LET last == Placed(u, [row |-> p.row, col |-> p.col])
      v == [EndDocument(u, p, failure) EXCEPT !.prev_row = last.row,
                                              !.prev_col = last.col]
  IN
    /\ input' = Restarted(input, p.offset)
    /\ expat' = NewParser(FALSE)
    /\ \/ /\ puller' = [v EXCEPT !.elements = 0]
          /\ failed' = (failed \/ v.status # "ok")
          /\ UNCHANGED pc
       \/ puller' = SetError(v) /\ failed' = TRUE /\ pc' = "next"

Fail(p, u, failure) ==
  LET v == Flushed(u, failure) IN
    /\ puller' = SetError(v)
    /\ failed' = (failed \/ v.status # "ok")
    /\ expat' = [p EXCEPT !.events = <<>>]
    /\ pc' = "next"
    /\ UNCHANGED input

\* The failure is in the callback for the event at k, or after all of them.
ParseBlock ==
  /\ pc = "parse"
  /\ LET p == Parsed(expat, NewBytes) IN
     \E k \in 0 .. Len(p.events), failure \in {"none", "flush", "token"} :
       LET u == AllHandled(puller, p.events, k, failure)
           last == IF k = 0 THEN failure ELSE "none"
           ends == multi /\ u.elements > 0 /\ u.depth = 0 /\ InRange(p.offset)
       IN CASE p.status = "ok" -> Continue(p, u)
            [] p.status = "error" /\ ends -> NextDocument(p, u, last)
            [] OTHER -> Fail(p, u, last)
  /\ UNCHANGED <<stream, multi, at, tokens>>

PullerNext == Deliver \/ ReadBlock \/ ReadError \/ EndOfFile \/ ParseBlock

-----------------------------------------------------------------------------
(* The streams.                                                            *)

Bytes == {"s1", "s2", "e1", "e2", "t", "n", "x"}

\* The elements that are open after i bytes.
Depth(bytes, i) ==
  Cardinality({j \in 1 .. i : bytes[j] = "s1"})
    - Cardinality({j \in 1 .. i : bytes[j] = "e1"})

\* The tags that begin a document.
Roots(bytes) ==
  {i \in 1 .. Len(bytes) : bytes[i] = "s1" /\ Depth(bytes, i - 1) = 0}

\* Documents one after the other: text only in elements, and all of them closed.
WellFormed(bytes) ==
  /\ Depth(bytes, Len(bytes)) = 0
  /\ \A i \in 1 .. Len(bytes) :
       /\ bytes[i] \in {"t", "e1"} => Depth(bytes, i - 1) > 0
       /\ bytes[i] \in {"s1", "e1"} => i < Len(bytes)
       /\ bytes[i] = "s2" => i > 1 /\ bytes[i - 1] = "s1"
       /\ bytes[i] = "e2" => i > 1 /\ bytes[i - 1] = "e1"

\* In every stream tags are whole, unless the end cuts one off.
StreamsSpelt ==
  \A s \in Streams :
    /\ s.bytes \in Seq(Bytes)
    /\ \A i \in 1 .. Len(s.bytes) - 1 :
         /\ s.bytes[i] = "s1" => s.bytes[i + 1] = "s2"
         /\ s.bytes[i] = "e1" => s.bytes[i + 1] = "e2"
    /\ s.good => /\ WellFormed(s.bytes)
                 /\ s.docs = Cardinality(Roots(s.bytes)) /\ s.docs > 0

-----------------------------------------------------------------------------
(* Properties.                                                             *)

Spelling(kind, bytes) ==
  CASE kind = "START_ELEMENT" -> bytes = <<"s1", "s2">>
    [] kind = "END_ELEMENT" -> bytes = <<"e1", "e2">>
    [] kind = "DECL" -> bytes = <<"x">>
    [] kind = "END_DOCUMENT" -> bytes = <<>>
    [] OTHER -> bytes # <<>> /\ ToSet(bytes) \subseteq {"t", "n"}

\* Row and column in the file of a byte.
Place(i) ==
  LET ends == {0} \cup {j \in 1 .. i - 1 : stream.bytes[j] = "n"} IN
  <<Cardinality(ends), i - Max(ends)>>

Reached(s) == IF s = <<>> THEN 1 ELSE s[Len(s)].to

\* However the file comes in blocks, its tokens cover it from its first byte on
\* with no byte lost, repeated or out of order, each has its place, and text is
\* never in two tokens where it can be in one.
TokensTile ==
  \A i \in 1 .. Len(tokens) :
    LET t == tokens[i] IN
      /\ t.from = Reached(SubSeq(tokens, 1, i - 1))
      /\ Spelling(t.kind, SubSeq(stream.bytes, t.from, t.to - 1))
      /\ <<t.row, t.col>> = Place(t.from)
      /\ t.kind \in {"CHARDATA", "UNPARSED"} /\ i > 1 => tokens[i - 1].kind # t.kind

\* Where there was no failure, well-formed documents are delivered to their end,
\* except when one after the first has an encoding expat does not know.
TokensComplete ==
  pc = "next" /\ puller.queue = <<>> /\ ~failed
    /\ (puller.status # "ok" \/ puller.fd = "ended")
    /\ stream.good /\ (multi \/ stream.docs = 1)
    /\ (\A i \in 2 .. Len(stream.bytes) : stream.bytes[i] # "x") =>
      /\ puller.status = "ok"
      /\ Reached(tokens) = Len(stream.bytes) + 1
      /\ multi => Cardinality({i \in 1 .. Len(tokens) :
                                 tokens[i].kind = "END_DOCUMENT"}) = stream.docs

TokensOfDocuments == TokensTile /\ TokensComplete

=============================================================================
