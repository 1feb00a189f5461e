---------------------------- MODULE PgsqlHandles ----------------------------
(***************************************************************************)
(* Connections, commands and results of pgsql/pgsql.c.  A command is sent  *)
(* and its results fetched one by one, or executed in one call; a result   *)
(* with tuples gets a handle and stays until pg_clear, even when its       *)
(* connection is gone, and all others are cleared at once.                 *)
(*                                                                         *)
(* libpq allows one command at a time on a connection.  What it does in a  *)
(* call is chosen freely among what it can do in the state of the          *)
(* connection.                                                             *)
(***************************************************************************)
EXTENDS HandleTable, FiniteSets, Sequences

CONSTANTS
  MaxConns,    \* bound: connections made
  MaxResults,  \* bound: results that get a handle
  MaxNames,    \* bound: names of prepared statements taken
  MaxArrays,   \* bound: arrays that stay allocated
  NULL

VARIABLES
  conns,     \* the table of connections
  results,   \* the table of results
  links,     \* connections of libpq: open or not, what is going on
  tuples,    \* results of libpq that are not cleared
  contents,  \* what is in the results that got a handle
  prepnum,   \* the counter of prep_name
  prepared,  \* pairs of connection and statement name the server may know
  arrays,    \* parameter arrays allocated and not freed
  row,       \* the row the last call stored in an array, or NULL
  answer     \* what the last call returned

pgVars == <<conns, results, links, tuples, contents, prepnum, prepared,
            arrays, row, answer>>

PgInit ==
  /\ conns = EmptyTable
  /\ results = EmptyTable
  /\ links = <<>>
  /\ tuples = {}
  /\ contents = <<>>
  /\ prepnum = 0
  /\ prepared = {}
  /\ arrays = 0
  /\ row = NULL
  /\ answer = "none"

\* The calls on the connection n of the table, as one of libpq.
Link(n) == conns.names[n]

Goes(c, state) == links' = [links EXCEPT ![c] = state]

-----------------------------------------------------------------------------
(* Connections.                                                            *)

\* A connection that cannot be made is finished before the call returns.
Connect ==
  /\ \/ /\ Len(links) < MaxConns
        /\ links' = Append(links, "idle")
        /\ conns' = Issue(conns, Len(links) + 1)
        /\ answer' = "handle"
     \/ answer' = "" /\ UNCHANGED <<links, conns>>
  /\ row' = NULL
  /\ UNCHANGED <<results, tuples, contents, prepnum, prepared, arrays>>

\* PQfinish runs as the handle is deleted.  The results stay.
Disconnect ==
  /\ \/ \E n \in DOMAIN conns.names :
          /\ Goes(Link(n), "closed")
          /\ prepared' = {p \in prepared : p[1] # Link(n)}
          /\ conns' = Without(conns, n)
          /\ answer' = "0"
     \/ answer' = "-1" /\ UNCHANGED <<links, prepared, conns>>
  /\ row' = NULL
  /\ UNCHANGED <<results, tuples, contents, prepnum, arrays>>

\* The server forgets the statements; the handle stays, of a bad connection too.
Reset ==
  /\ \E n \in DOMAIN conns.names :
       /\ \/ Goes(Link(n), "idle") /\ answer' = "0"
          \/ Goes(Link(n), "bad") /\ answer' = "-1"
       /\ prepared' = {p \in prepared : p[1] # Link(n)}
  /\ row' = NULL
  /\ UNCHANGED <<conns, results, tuples, contents, prepnum, arrays>>

\* errormessage, serverversion, clientencoding, setclientencoding, and every
\* function called with no connection or without an argument.
Ask ==
  /\ answer' \in {"", "-1", "0", "text", "number"}
  /\ row' = NULL
  /\ UNCHANGED <<conns, results, links, tuples, contents, prepnum, prepared,
                 arrays>>

-----------------------------------------------------------------------------
(* Parameters.  sendqueryparams, sendqueryprepared, execparams and          *)
(* execprepared allocate an array for them, and may end at some of their    *)
(* statements.                                                             *)

\* Mutant of Body: a failure of libpq is returned before the array is freed.
BodyFreeingLast ==
  <<"lookup", "params", "command", "libpq", "result", "free">>

\* The statements in order.  The call ends at "lookup" without a connection, at
\* "params" if their number is negative, at "command" without one, and else at
\* "result", whether libpq has failed or not.
Body == <<"lookup", "params", "command", "libpq", "free", "result">>

\* A statement has been executed when the call ends at another.
Done(statement, exit) ==
  \E i, j \in 1 .. Len(Body) :
    i < j /\ Body[i] = statement /\ Body[j] = exit

\* get_params: no array for no parameters or when none is passed.
Allocated == {0, 1}

\* What stays allocated of an array when the call ends.
Left(a, exit) == IF Done("params", exit) /\ ~Done("free", exit) THEN a ELSE 0

EndsAt(exit) ==
  /\ \E a \in Allocated : arrays' = arrays + Left(a, exit)
  /\ arrays' <= MaxArrays

\* The call ends before libpq is called.  "no command" is 0 or empty too.
EndEarly ==
  /\ \E exit \in {"lookup", "params", "command"} :
       /\ exit # "lookup" => conns.names # <<>>
       /\ EndsAt(exit)
       /\ \/ exit = "command" /\ answer' = "no command"
          \/ exit # "command" /\ answer' \in {"0", ""}
  /\ row' = NULL
  /\ UNCHANGED <<conns, results, links, tuples, contents, prepnum, prepared>>

-----------------------------------------------------------------------------
(* Commands.                                                               *)

\* libpq takes a command when nothing is going on, and not on a connection that
\* is bad.
Takes(c) == links[c] = "idle"

\* sendquery, sendqueryparams and sendqueryprepared.
Send ==
  /\ \E n \in DOMAIN conns.names :
       LET c == Link(n) IN
         \/ Takes(c) /\ Goes(c, "busy") /\ answer' = "1"
         \/ answer' = "0" /\ UNCHANGED links
  /\ EndsAt("result")
  /\ row' = NULL
  /\ UNCHANGED <<conns, results, tuples, contents, prepnum, prepared>>

\* Mutant of PrepName: each connection counts for itself.
PrepNameOfConnection(c) == Cardinality({p \in prepared : p[1] = c})

\* prep_name: one counter for all connections.
PrepName(c) == prepnum

\* sendprepare: the name is taken whether or not the command can be sent.
SendPrepare ==
  /\ prepnum < MaxNames
  /\ \E n \in DOMAIN conns.names :
       LET c == Link(n) IN
         \/ /\ Takes(c)
            /\ Goes(c, "busy")
            /\ prepared' = prepared \cup {<<c, PrepName(c)>>}
            /\ answer' = "name"
         \/ answer' = "" /\ UNCHANGED <<links, prepared>>
  /\ prepnum' = prepnum + 1
  /\ row' = NULL
  /\ UNCHANGED <<conns, results, tuples, contents, arrays>>

\* The name of a statement is returned once the server has accepted it.
Prepare ==
  /\ prepnum < MaxNames
  /\ \E n \in DOMAIN conns.names :
       LET c == Link(n) IN
         \/ /\ links[c] # "bad"
            /\ Goes(c, "idle")
            /\ prepared' = prepared \cup {<<c, PrepName(c)>>}
            /\ answer' = "name"
         \/ /\ Goes(c, IF links[c] = "bad" THEN "bad" ELSE "idle")
            /\ answer' = "" /\ UNCHANGED prepared
  /\ prepnum' = prepnum + 1
  /\ row' = NULL
  /\ UNCHANGED <<conns, results, tuples, contents, arrays>>

-----------------------------------------------------------------------------
(* Results.                                                                *)

\* The status of a result, and the state it leaves the connection in.
Outcomes ==
  {<<"tuples", "idle">>, <<"command", "idle">>, <<"error", "idle">>,
   <<"copy", "in">>, <<"copy", "out">>}

\* One row of two fields, which may have the same name.
Results ==
  [names : {<<"a", "b">>, <<"a", "a">>}, row : {"x", NULL} \X {"y", NULL}]

\* Mutant of Cleared: a result that starts a copy is not.
ClearedButCopy(status) == status \notin {"tuples", "copy"}

\* What process_result clears before it returns.
Cleared(status) == status # "tuples"

\* A result that no handle names.
NAMELESS == MaxResults

\* process_result: tuples get a handle, every other result is told in a text.
TuplesResult ==
  /\ results.hnum < MaxResults
  /\ results' = Issue(results, results.hnum)
  /\ tuples' = tuples \cup {results.hnum}
  /\ \E content \in Results : contents' = Append(contents, content)
  /\ answer' = "handle"

OtherResult(status) ==
  /\ tuples' = IF Cleared(status) THEN tuples ELSE tuples \cup {NAMELESS}
  /\ answer' = status
  /\ UNCHANGED <<results, contents>>

ProcessResult(status) ==
  \/ status = "tuples" /\ TuplesResult
  \/ status # "tuples" /\ OtherResult(status)

\* exec, execparams and execprepared.  What was going on is ended first, its
\* results lost.
Exec ==
  /\ \E n \in DOMAIN conns.names :
       LET c == Link(n) IN
         \/ /\ links[c] # "bad"
            /\ \E o \in Outcomes : Goes(c, o[2]) /\ ProcessResult(o[1])
         \/ /\ answer' = "error"
            /\ UNCHANGED <<results, links, tuples, contents>>
  /\ EndsAt("result")
  /\ row' = NULL
  /\ UNCHANGED <<conns, prepnum, prepared>>

\* A result of the command sent, or none: the command is done.  In a copy its
\* result comes again.
GetResult ==
  /\ \E n \in DOMAIN conns.names :
       LET c == Link(n) IN
         \/ links[c] = "busy" /\ \E o \in Outcomes :
              /\ Goes(c, IF o[2] = "idle" THEN "busy" ELSE o[2])
              /\ ProcessResult(o[1])
         \/ links[c] \in {"in", "out"} /\ OtherResult("copy")
              /\ UNCHANGED links
         \/ /\ links[c] \in {"busy", "idle", "bad"}
            /\ Goes(c, IF links[c] = "busy" THEN "idle" ELSE links[c])
            /\ answer' = ""
            /\ UNCHANGED <<results, tuples, contents>>
  /\ row' = NULL
  /\ UNCHANGED <<conns, prepnum, prepared, arrays>>

\* putcopydata, putcopyend and getcopydata: refused outside a copy; the end of
\* the data leaves the result of the command to be fetched.
Copy ==
  /\ \E n \in DOMAIN conns.names :
       LET c == Link(n) IN
         \/ links[c] = "in" /\ answer' = "1"
              /\ (UNCHANGED links \/ Goes(c, "busy"))
         \/ links[c] = "out" /\ answer' = "data" /\ UNCHANGED links
         \/ links[c] = "out" /\ answer' = "" /\ Goes(c, "busy")
         \/ answer' \in {"-1", ""} /\ UNCHANGED links
  /\ row' = NULL
  /\ UNCHANGED <<conns, results, tuples, contents, prepnum, prepared, arrays>>

\* PQclear runs as the handle is deleted.
Clear ==
  /\ \/ \E n \in DOMAIN results.names :
          /\ tuples' = tuples \ {results.names[n]}
          /\ results' = Without(results, n)
          /\ answer' = "0"
     \/ answer' = "-1" /\ UNCHANGED <<tuples, results>>
  /\ row' = NULL
  /\ UNCHANGED <<conns, links, contents, prepnum, prepared, arrays>>

Content(n) == contents[results.names[n] + 1]

\* fieldsbyname: the number of the last field with a name.
FieldsByName(r) ==
  [name \in {r.names[c] : c \in 1 .. 2} |-> IF r.names[2] = name THEN 2 ELSE 1]

\* Mutant of ByName: the first value of a name stays.
ByNameFirst(r) ==
  [name \in {r.names[c] : c \in {d \in 1 .. 2 : r.row[d] # NULL}} |->
     IF r.names[1] = name /\ r.row[1] # NULL THEN r.row[1] ELSE r.row[2]]

\* getrowbyname: the values that are not null go under the names of their
\* fields one after the other, so that the last one of a name stays.
ByName(r) ==
  [name \in {r.names[c] : c \in {d \in 1 .. 2 : r.row[d] # NULL}} |->
     IF r.names[2] = name /\ r.row[2] # NULL THEN r.row[2] ELSE r.row[1]]

\* getrow does the same with the numbers of the fields.
ByNumber(r) == [c \in {d \in 1 .. 2 : r.row[d] # NULL} |-> r.row[c]]

\* getisnull and getvalue of the i-th field; there is no other than 1 and 2.
IsNull(r, i) == r.row[i] = NULL
GetValue(r, i) == IF IsNull(r, i) THEN "" ELSE r.row[i]

\* ntuples, nfields, fields and fieldsbyname count; fname has a range of fields.
Describe ==
  /\ results.names # <<>>
  /\ answer' \in {"number", "text", ""}
  /\ row' = NULL
  /\ UNCHANGED <<conns, results, links, tuples, contents, prepnum, prepared,
                 arrays>>

\* getvalue and getisnull of a field there is, or of none.
ReadField ==
  /\ \E n \in DOMAIN results.names, i \in 1 .. 3 :
       IF i = 3 THEN answer' \in {"", "-1"}
       ELSE answer' \in
              {IF GetValue(Content(n), i) = "" THEN "" ELSE "text",
               IF IsNull(Content(n), i) THEN "1" ELSE "0"}
  /\ row' = NULL
  /\ UNCHANGED <<conns, results, links, tuples, contents, prepnum, prepared,
                 arrays>>

\* getrow and getrowbyname: the array is emptied first.
GetRow ==
  /\ \E n \in DOMAIN results.names :
       /\ row' \in {[by |-> "name", of |-> n, values |-> ByName(Content(n))],
                    [by |-> "number", of |-> n,
                     values |-> ByNumber(Content(n))]}
       /\ answer' = "count"
  /\ UNCHANGED <<conns, results, links, tuples, contents, prepnum, prepared,
                 arrays>>

PgNext ==
  \/ Connect \/ Disconnect \/ Reset \/ Ask \/ EndEarly
  \/ Send \/ SendPrepare \/ Prepare \/ Exec \/ GetResult \/ Copy
  \/ Clear \/ Describe \/ ReadField \/ GetRow

-----------------------------------------------------------------------------
(* Properties.                                                             *)

\* A connection that is open has a handle, and a handle a connection; a result
\* that is not cleared has a handle, also when its connection is gone, and no
\* handle names a cleared one.  The handles lost as their table outgrew a size
\* are excepted.
LinksNamed ==
  /\ NamesAll(conns, {c \in 1 .. Len(links) : links[c] # "closed"})
  /\ NamesAll(results, tuples)

\* An array of parameters outlives its call, by whichever way it ends, only if
\* the command was missing.
ParametersFreed == arrays' # arrays => answer' = "no command"

\* The name of a prepared statement is not known on another connection, where it
\* would run another statement.
NamesUnique == \A p, q \in prepared : p[2] = q[2] => p = q

\* What getrow and getrowbyname may leave in the array for a result of which r is
\* the content.
RowOf(r, by, values) ==
  IF by = "number"
  THEN values = [i \in {d \in 1 .. 2 : ~IsNull(r, d)} |-> GetValue(r, i)]
  ELSE \A name \in DOMAIN FieldsByName(r) :
         LET value == r.row[FieldsByName(r)[name]] IN
         IF value # NULL
         THEN name \in DOMAIN values /\ values[name] = value
         ELSE name \in DOMAIN values => r.names[1] = r.names[2]

\* getrow stores the fields that getisnull says have a value, with what getvalue
\* returns.  What getrowbyname stores under a name is the value of the field that
\* fieldsbyname has under it, and nothing is stored if that is null; only if two
\* fields have the name, and the last is null, it is the value of another.
RowsAgree ==
  row # NULL => RowOf(contents[row.of + 1], row.by, row.values)

=============================================================================
