----------------------------- MODULE RedisCalls -----------------------------
(***************************************************************************)
(* One call of a command function of redis/redis.c, from its arguments to  *)
(* the value awk gets: validate, build argv, rCommand, and for a call with *)
(* a connection handle processREPLY, which converts the reply.  The form   *)
(* of the call comes from RedisCommands; the blocks the call allocates are *)
(* counted in heap.                                                        *)
(*                                                                         *)
(* The reply is the one of the command, or QUEUED after MULTI, or an error *)
(* of the server, or none (the connection is lost).  If piped commands are *)
(* pending on the connection it is the reply to one of those (backlog).    *)
(***************************************************************************)
EXTENDS RedisCommands

CONSTANTS
  ArrayLengths, \* lengths of the arrays the program passes
  NULL

ASSUME CallsAssumption == ArrayLengths \subseteq Nat

VARIABLES
  call,   \* command, arguments, kind of handle, pending replies
  form,   \* NULL or the form of the call that validate accepted
  pc,     \* where the call is
  heap,   \* blocks allocated and not freed
  reply,  \* NULL or the reply read, by what it looks like
  ret     \* NULL or what the function returned

vars == <<call, form, pc, heap, reply, ret>>

-----------------------------------------------------------------------------
(* The replies of the server.  A flat array has elements of any scalar     *)
(* kind, a nested one has arrays among them; pairs is a flat array of even *)
(* length and pair the reply of SCAN, a cursor and an array, last if the   *)
(* cursor is zero.                                                         *)

ArrayReplies == {"empty", "flat", "nested", "pairs", "pair", "last"}

AnyReply == {"value", "text", "queued", "error", "lost"} \cup ArrayReplies

ASSUME NullAssumption == NULL \notin AnyReply

FlatCommands ==
  {"keys", "hkeys", "hvals", "smembers", "hgetall", "configGet", "lrange",
   "zrange", "zrevrange", "zrangeWithScores", "zrevrangeWithScores", "mget",
   "hmget", "sinter", "sdiff", "sunion", "sort", "sortLimit", "geohash",
   "georadius", "georadiusbymember", "zrangebylex", "zrangebyscore",
   "zrevrangebyscore", "blpop", "brpop", "subscribe", "psubscribe"}

NestedCommands ==
  {"exec", "geopos", "georadiusWD", "georadiusWC", "georadiusWDWC",
   "georadiusbymemberWD", "georadiusbymemberWC", "georadiusbymemberWDWC"}

\* What Redis answers to a command, which for some depends on its arguments.
Answers(cmd, f) ==
  CASE cmd \in FlatCommands \/ (cmd \in {"spop", "srandmember"} /\ f.nargs = 3)
       \/ f.sub \in {"exists", "channels"} -> {"flat", "empty"}
    [] f.sub = "numsub" -> {"pairs", "empty"}
    [] cmd \in {"scan", "sscan", "hscan", "zscan"} -> {"pair", "last"}
    [] cmd \in NestedCommands -> {"nested", "empty", "value"}
    [] cmd \in {"eval", "evalsha"} \/ (cmd = "slowlog" /\ f.nargs > 1) ->
         {"nested", "flat", "empty", "value"}
    [] cmd \in {"info", "clientList"} -> {"text"}
    [] OTHER -> {"value"}

-----------------------------------------------------------------------------
(* The arguments the program passes: those of some form, with at most one  *)
(* scalar and array interchanged, and every number of scalars.             *)

Value(type, length, other) ==
  CASE type \in {S, N} -> SCALAR [] type = A -> length [] OTHER -> other

Interchanged(v) == IF v = SCALAR THEN 1 ELSE SCALAR

ArgumentsOf(f) ==
  {[k \in 1 .. f.nargs |->
      LET v == Value(IF k <= Len(f.valid) THEN f.valid[k] ELSE "either",
                     l[k % 2], other)
      IN IF k = wrong THEN Interchanged(v) ELSE v] :
    l \in [{0, 1} -> ArrayLengths], other \in {SCALAR, 1},
    wrong \in 0 .. f.nargs}

Arguments(cmd) ==
  (UNION {ArgumentsOf(f) : f \in Forms(cmd, <<>>)})
  \cup {[k \in 1 .. n |-> SCALAR] : n \in 0 .. 8}

Init ==
  /\ \E cmd \in Commands, piped, backlog \in BOOLEAN :
       \E a \in Arguments(cmd) :
         call = [cmd |-> cmd, args |-> a, piped |-> piped, backlog |-> backlog]
  /\ form = NULL
  /\ pc = "validate"
  /\ heap = 0
  /\ reply = NULL
  /\ ret = NULL

Return(value) == ret' = value /\ pc' = "done"

-----------------------------------------------------------------------------
(* validate.                                                               *)

\* Mutant of Fits: numbers are not looked at.
FitsButNumbers(f, a) ==
  /\ Len(a) = f.nargs
  /\ \A k \in 1 .. Len(f.valid) :
       /\ f.valid[k] = S => a[k] = SCALAR
       /\ f.valid[k] = A => a[k] # SCALAR

\* A scalar can be had as a string and as a number, an array as neither.
Fits(f, a) ==
  /\ Len(a) = f.nargs
  /\ \A k \in 1 .. Len(f.valid) :
       /\ f.valid[k] \in {S, N} => a[k] = SCALAR
       /\ f.valid[k] = A => a[k] # SCALAR

\* Which of several forms it is depends on a subcommand or an option.
Accept ==
  /\ pc = "validate"
  /\ \E f \in Forms(call.cmd, call.args) :
       /\ Fits(f, call.args)
       /\ form' = f
  /\ pc' = "build"
  /\ UNCHANGED <<call, heap, reply, ret>>

\* The number of arguments or an argument is not accepted, or the subcommand is
\* none of those the function knows.
Reject ==
  /\ pc = "validate"
  /\ \A f \in Forms(call.cmd, call.args) : Fits(f, call.args) => f.sub # ""
  /\ Return("error")
  /\ UNCHANGED <<call, form, heap, reply>>

-----------------------------------------------------------------------------
(* The body of the function.                                               *)

Blocks(f) == IF f.cap = 0 THEN 0 ELSE 1 + Len(f.words)

\* argv: its block and one string for each word.
Build ==
  /\ pc = "build"
  /\ heap' = heap + Blocks(form) + form.lost
  /\ pc' = "issue"
  /\ UNCHANGED <<call, form, reply, ret>>

\* The commands whose last argument, if it is a string, is an AGGREGATE clause.
\* The function cuts awk's own string in two at its first space.
Cut(f) ==
  /\ call.cmd \in {"zinterstore", "zunionstore"}
  /\ f.nargs > 2 /\ call.args[f.nargs] = SCALAR

\* It does not look whether there is a space, and writes to a null pointer.
CutNowhere ==
  /\ pc = "build" /\ Cut(form)
  /\ Return("uncut")
  /\ UNCHANGED <<call, form, heap, reply>>

Crashes == {"crash", "noarray", "misread", "uncut"}

\* Mutant of Released: the block of argv is not freed.
ReleasedStrings(f, how) ==
  IF how = "all" /\ f.cap > 0 THEN Len(f.words) ELSE 0

\* What free_mem_str, or free alone, gives back.
Released(f, how) ==
  CASE f.cap = 0 \/ how = "none" -> 0
    [] how = "block" /\ f.cap # 0 -> 1
    [] OTHER -> Blocks(f)

IssuePiped ==
  /\ pc = "issue" /\ call.piped
  /\ heap' = heap - Released(form, form.piped)
  /\ Return(form.answer)
  /\ UNCHANGED <<call, form, reply>>

Issue ==
  /\ pc = "issue" /\ ~call.piped
  /\ pc' = "wait"
  /\ UNCHANGED <<call, form, heap, reply, ret>>

Receive ==
  /\ pc = "wait"
  /\ reply' \in IF call.backlog THEN AnyReply
                ELSE Answers(call.cmd, form) \cup {"queued", "error", "lost"}
  /\ heap' = IF reply' = "lost" THEN heap ELSE heap + 1
  /\ pc' = "convert"
  /\ UNCHANGED <<call, form, ret>>

\* theReply: everything but an array is a value.
TheReply(r) ==
  CASE r \in {"error", "lost"} -> "error"
    [] r \in ArrayReplies -> "null"
    [] OTHER -> "value"

\* Mutant of Stored: the pairs of NUMSUB are stepped through one by one, so
\* that the last one is read beyond the reply.
StoredByOne(conv, r) ==
  IF r = "empty" THEN IF conv = "tipoScan" THEN "misread" ELSE "zero"
  ELSE
    CASE conv = "theRest" -> IF r \in {"flat", "pairs"} THEN "one" ELSE "partial"
      [] conv = "theRest1" -> "misread"
      [] conv = "tipoScan" -> (CASE r = "pair" -> "one" [] r = "last" -> "zero"
                                 [] OTHER -> "misread")
      [] OTHER -> "one"

\* What theReplyArray, theReplyArrayK1 and theReplyArrayS return for an array.
\* Inner arrays are skipped by the first, and read where there are none, or
\* beyond the elements, by the last; theRest1 takes the elements two at a time.
Stored(conv, r) ==
  IF r = "empty" THEN IF conv = "tipoScan" THEN "misread" ELSE "zero"
  ELSE
    CASE conv = "theRest" -> IF r \in {"flat", "pairs"} THEN "one" ELSE "partial"
      [] conv = "theRest1" -> IF r = "pairs" THEN "one" ELSE "misread"
      [] conv = "tipoScan" -> (CASE r = "pair" -> "one" [] r = "last" -> "zero"
                                 [] OTHER -> "misread")
      [] OTHER -> "one"

TextConverters == {"tipoInfo", "tipoClient"}

\* Mutant of Converted: an error is a value like others.
ConvertedBlindly(f, r) ==
  IF f.conv = "none" THEN (IF r = "error" THEN "value" ELSE TheReply(r))
  ELSE IF r = "lost" THEN "crash"
  ELSE IF f.conv \in TextConverters THEN "one"
  ELSE IF r \in ArrayReplies THEN Stored(f.conv, r)
  ELSE TheReply(r)

\* processREPLY.  Without a converter a null reply is the error theReply found;
\* with one its type is read.  The text converters take the string of whatever
\* reply it is.
Converted(f, r) ==
  CASE f.conv = "none" -> TheReply(r)
    [] f.conv # "none" /\ r = "lost" -> "crash"
    [] f.conv \in TextConverters /\ r # "lost" ->
         IF r \in ArrayReplies THEN "zero"
         ELSE IF f.dest = 0 THEN "noarray" ELSE "one"
    [] OTHER ->
         IF r \notin ArrayReplies THEN TheReply(r)
         ELSE IF f.dest = 0 THEN "noarray" ELSE Stored(f.conv, r)

\* The text converters forget the copy of the reply that theReply has made.
Forgotten(f, r) ==
  IF f.conv \in TextConverters /\ r \in {"text", "value", "queued"}
  THEN 1 ELSE 0

Convert ==
  /\ pc = "convert"
  /\ LET value == Converted(form, reply) IN
       /\ Return(value)
       /\ heap' = IF value \in Crashes THEN heap
                  ELSE heap - Released(form, form.sync) + Forgotten(form, reply)
                       - (IF reply = "lost" THEN 0 ELSE 1)
  /\ UNCHANGED <<call, form, reply>>

Finished == pc = "done" /\ UNCHANGED vars

Next ==
  \/ Accept \/ Reject \/ Build \/ CutNowhere \/ IssuePiped \/ Issue \/ Receive
  \/ Convert \/ Finished

Spec == Init /\ [][Next]_vars

-----------------------------------------------------------------------------
(* Properties.                                                             *)

\* The commands whose argv is as long as the caller likes, in a block that is
\* not.
OpenEnded == {"pubsub", "sort", "sortStore", "sortLimit", "sortLimitStore"}

\* Every word of argv is written into the block allocated for it.  The timeout
\* of BRPOP and BLPOP with several keys is written one slot behind it, and more
\* than 25 words of PUBSUB NUMSUB and SORT leave the block of mem_cdo.
ArgvWithinBlock ==
  (form # NULL /\ form.cap > 0) =>
    \/ Len(form.words) <= form.cap
    \/ call.cmd \in {"brpop", "blpop"} /\ Len(form.words) = form.cap + 1
    \/ call.cmd \in OpenEnded /\ form.cap = ArgvSlots

\* The function reads an argument only as what validate has found it to be: a
\* string from a scalar, elements and the destination of a reply from an array.
\* set does not validate its options, pubsub takes either kind where it reads
\* one, and bitpos uses the strings of arguments it read as numbers.
ArgumentsFit ==
  (form # NULL /\ call.cmd \notin {"set", "pubsub", "bitpos"}) =>
    /\ \A i \in 1 .. Len(form.words) :
         LET k == form.words[i] IN
           /\ k > 0 => call.args[k] = SCALAR
           /\ k < 0 => call.args[-k] # SCALAR
    /\ form.dest > 0 => call.args[form.dest] # SCALAR
    /\ form.torn = {}

\* The functions that forget part of what they allocate.
Leaky ==
  {"hmset", "hmget", "geopos", "info", "clientList"}
  \cup {d[1] : d \in {e \in Dispatch : e[2] = "Sadd"}}
  \cup (IF call.piped THEN {"eval", "evalsha"} ELSE {})

\* When a function returns, all it allocated has been freed, whichever way the
\* call went.
NothingLeaked ==
  (pc = "done" /\ ret \notin Crashes /\ call.cmd \notin Leaky) => heap = 0

\* What the server answers to a command fits the converter its function has
\* chosen: nothing is read beyond the reply, no inner array is skipped, and an
\* array has a destination.  Only CLIENT LIST with a string has none.
RepliesStored ==
  (pc = "done" /\ ~call.backlog) =>
    /\ ret \notin {"misread", "partial"}
    /\ ret = "noarray" => (call.cmd = "clientList" /\ form.dest = 0)
    /\ ret = "crash" => reply = "lost"

\* An error of the server is returned as -1, except where the reply is taken
\* for text whatever it is.
ErrorsReported ==
  (pc = "done" /\ reply = "error" /\ form.conv \notin TextConverters) =>
    ret = "error"

\* A function returns a value unless it was asked for an array it has no room
\* for.  slowlog returns none for SLOWLOG GET without an array, and it and
\* srandmember return none from a pipeline.  zinterstore and zunionstore do not
\* return when they find no space in an AGGREGATE clause.
AlwaysAnswers ==
  (pc = "done" /\ ret \in {"null", "uncut"}) =>
    \/ /\ ret = "uncut" /\ call.cmd \in {"zinterstore", "zunionstore"}
       /\ Len(call.args) > 2 /\ call.args[Len(call.args)] = SCALAR
    \/ call.backlog /\ ~call.piped /\ form.conv = "none"
    \/ call.cmd = "srandmember" /\ call.piped
    \/ call.cmd = "slowlog" /\ (call.piped \/ form.nargs = 1)

=============================================================================
