----------------------------- MODULE JsonArrays -----------------------------
(***************************************************************************)
(* json::from_json and json::to_json of json/json.cpp.  The reader calls   *)
(* the handler of json/awkjsonhandler.cpp for each part of the text; the   *)
(* handler keeps the array it fills, and on a stack those around it, whose *)
(* element an array becomes only when it is complete.                      *)
(***************************************************************************)
EXTENDS Naturals, Sequences, SequencesExt, FiniteSets, TLC

CONSTANTS
  Keys,        \* names in objects; some look like the indices of arrays
  MaxEvents    \* bound: parts of a text

VARIABLES
  heap,     \* awk arrays; the first is the one given to from_json
  handler,  \* the members of AwkJsonHandler
  doc,      \* what the text read so far says: pairs of a path and a value
  open,     \* the objects and arrays of the text that are open, each with what
            \* the text said before it
  parsing,  \* "idle", "parsing", "failed", "done" or "crashed"
  events    \* parts read so far

jsonVars == <<heap, handler, doc, open, parsing, events>>

-----------------------------------------------------------------------------
(* AwkJsonHandler.  s has the heap and the handler.                        *)

EmptyArray == [k \in {} |-> ""]

NoKey == ""

NewHandler ==
  [outArray |-> 1, key |-> NoKey, index |-> 0, processingArray |-> FALSE,
   level |-> 0, memberStack |-> <<>>]

SetElement(s, value) ==
  LET h == s.handler
      index == IF h.processingArray THEN ToString(h.index) ELSE h.key
  IN [heap |-> [s.heap EXCEPT ![h.outArray] = (index :> value) @@ @],
      handler |-> IF h.processingArray THEN [h EXCEPT !.index = @ + 1] ELSE h]

\* pushMembers and initMembers.
Pushed(h) ==
  [NewHandler EXCEPT !.level = h.level, !.memberStack = Append(h.memberStack, h)]

Popped(h) ==
  [Last(h.memberStack) EXCEPT !.level = h.level,
                              !.memberStack = Front(h.memberStack)]

\* Mutant of StartObject: an array is an element before it is complete.
StartObjectAttached(s) ==
  LET h == [s.handler EXCEPT !.level = @ + 1]
      new == Len(s.heap) + 1
  IN IF s.handler.level = 0 THEN [s EXCEPT !.handler = h]
     ELSE [heap |-> Append(SetElement(s, [type |-> "array", of |-> new]).heap,
                           EmptyArray),
           handler |-> [Pushed(h) EXCEPT !.outArray = new]]

StartObject(s) ==
  LET h == [s.handler EXCEPT !.level = @ + 1] IN
  IF s.handler.level = 0 THEN [s EXCEPT !.handler = h]
  ELSE [heap |-> Append(s.heap, EmptyArray),
        handler |-> [Pushed(h) EXCEPT !.outArray = Len(s.heap) + 1]]

EndObject(s) ==
  LET h == [s.handler EXCEPT !.level = @ - 1] IN
  IF h.level = 0 THEN [s EXCEPT !.handler = h]
  ELSE SetElement([s EXCEPT !.handler = Popped(h)],
                  [type |-> "array", of |-> s.handler.outArray])

StartArray(s) ==
  [StartObject(s) EXCEPT !.handler.processingArray = TRUE, !.handler.index = 1]

EndArray(s) ==
  LET t == EndObject(s) IN
  IF t.handler.level = 0
  THEN [t EXCEPT !.handler.processingArray = FALSE, !.handler.index = 1] ELSE t

\* A string that begins with @/ and ends with / is a regular expression; numbers
\* come as strings.
Scalars == [type : {"undefined", "bool", "strnum", "regex"}, of : {0}]

Handled(s, e) ==
  CASE e.part = "value" -> SetElement(s, e.value)
    [] e.part = "key" -> [s EXCEPT !.handler.key = e.key]
    [] e.part = "{" -> StartObject(s)
    [] e.part = "}" -> EndObject(s)
    [] e.part = "[" -> StartArray(s)
    [] e.part = "]" -> EndArray(s)

Part(part) == [part |-> part]

-----------------------------------------------------------------------------
(* The text, whose parts come in the order of its grammar.                 *)

JsonInit ==
  /\ heap = <<EmptyArray>>
  /\ handler = NewHandler
  /\ doc = {}
  /\ open = <<>>
  /\ parsing = "idle"
  /\ events = 0

\* from_json clears the array.
FromJson ==
  /\ parsing = "idle"
  /\ heap' = <<EmptyArray>>
  /\ handler' = NewHandler
  /\ parsing' = "parsing"
  /\ UNCHANGED <<doc, open, events>>

\* The path of the next value.
Path ==
  IF open = <<>> THEN <<>>
  ELSE Append(Last(open).path,
              IF Last(open).kind = "[" THEN ToString(Last(open).count + 1)
              ELSE Last(open).key)

\* A value is expected: at the start, in an array, and after a name.
ValueExpected ==
  IF open = <<>> THEN events = 0
  ELSE Last(open).kind = "{" => Last(open).key # NoKey

Counted == [Last(open) EXCEPT !.count = @ + 1, !.key = NoKey]

\* The last of several values of one name counts.
Said(value) ==
  {d \in doc : ~IsPrefix(Path, d.path)} \cup {[path |-> Path, value |-> value]}

Handle(e) ==
  /\ parsing = "parsing" /\ events < MaxEvents
  /\ LET s == Handled([heap |-> heap, handler |-> handler], e) IN
       heap' = s.heap /\ handler' = s.handler
  /\ events' = events + 1
  /\ UNCHANGED parsing

Value ==
  /\ ValueExpected /\ open # <<>>
  /\ \E v \in Scalars :
       /\ Handle([part |-> "value", value |-> v])
       /\ doc' = Said(v.type)
  /\ open' = Append(Front(open), Counted)

Key ==
  /\ open # <<>> /\ Last(open).kind = "{" /\ Last(open).key = NoKey
  /\ \E k \in Keys :
       /\ Handle([part |-> "key", key |-> k])
       /\ open' = [open EXCEPT ![Len(open)].key = k]
  /\ UNCHANGED doc

Start ==
  /\ ValueExpected
  /\ \E kind \in {"{", "["} :
       /\ Handle(Part(kind))
       /\ open' = Append(IF open = <<>> THEN open ELSE Append(Front(open), Counted),
                         [kind |-> kind, path |-> Path, count |-> 0, key |-> NoKey,
                          before |-> doc])
  /\ doc' = IF open = <<>> THEN doc ELSE Said("array")

End ==
  /\ open # <<>> /\ Last(open).key = NoKey
  /\ Handle(Part(IF Last(open).kind = "{" THEN "}" ELSE "]"))
  /\ open' = Front(open)
  /\ UNCHANGED doc

\* The reader finds an error in the text, or gawk refuses an element.
Fail ==
  /\ parsing = "parsing"
  /\ parsing' = "failed"
  /\ UNCHANGED <<heap, handler, doc, open, events>>

Succeed ==
  /\ parsing = "parsing" /\ open = <<>> /\ events > 0
  /\ parsing' = "done"
  /\ UNCHANGED <<heap, handler, doc, open, events>>

\* A text that is one value and no array: the value has no name, not even an
\* empty one.  The string @/ is taken for a regular expression of length -1.
Crash ==
  /\ parsing = "parsing" /\ ValueExpected
  /\ parsing' = "crashed"
  /\ UNCHANGED <<heap, handler, doc, open, events>>

JsonNext ==
  FromJson \/ Value \/ Key \/ Start \/ End \/ Fail \/ Succeed \/ Crash

-----------------------------------------------------------------------------
(* to_json.                                                                *)

\* write_array sorts by number, then looks for the indices 1, 2 and so on.
Linear(array) ==
  DOMAIN array = {ToString(i) : i \in 1 .. Cardinality(DOMAIN array)}

\* The parts written for an array of the heap h; subarrays are further on in it.
Parts(h, linear) ==
  LET parts[a \in 1 .. Len(h)] ==
        LET Of(v) == IF v.type = "array" THEN parts[v.of]
                     ELSE <<[part |-> "value", value |-> v]>>
            names == SetToSeq(DOMAIN h[a])
        IN IF linear /\ Linear(h[a])
           THEN <<Part("[")>>
                  \o FlattenSeq([i \in 1 .. Len(names) |-> Of(h[a][ToString(i)])])
                  \o <<Part("]")>>
           ELSE <<Part("{")>>
                  \o FlattenSeq([i \in 1 .. Len(names) |->
                       <<[part |-> "key", key |-> names[i]]>> \o Of(h[a][names[i]])])
                  \o <<Part("}")>>
  IN parts[1]

-----------------------------------------------------------------------------
(* Properties.                                                             *)

\* The elements of the first array of the heap h and of its subarrays.
Elements(h) ==
  LET elements[a \in 1 .. Len(h)] ==
        UNION {{[path |-> <<k>>, value |-> h[a][k].type]}
                 \cup (IF h[a][k].type # "array" THEN {}
                       ELSE {[e EXCEPT !.path = <<k>> \o @] :
                               e \in elements[h[a][k].of]}) : k \in DOMAIN h[a]}
  IN elements[1]

\* from_json makes the array the text says; when it fails, the array has the
\* elements that were complete and nothing of the one that was not: its name has
\* what an earlier element of that name, if there was one, left it.
ArrayOfText ==
  /\ parsing = "done" => Elements(heap) = doc
  /\ parsing = "failed" =>
       Elements(heap) = IF Len(open) > 1 THEN open[2].before ELSE doc

\* What to_json writes of it, with or without linear arrays, from_json reads back.
TextOfArray ==
  parsing = "done" => \A linear \in BOOLEAN :
    LET s == FoldLeft(Handled, [heap |-> <<EmptyArray>>, handler |-> NewHandler],
                      Parts(heap, linear))
    IN Elements(s.heap) = Elements(heap)

TreeOfDocument == ArrayOfText /\ TextOfArray

=============================================================================
