--------------------------- MODULE RedisPipeline ----------------------------
(***************************************************************************)
(* The connections and pipelines of redis/redis.c.  The extension keeps    *)
(* two static arrays: c[TOPC], the hiredis context of each connection, and *)
(* pipel[TOPC][2], whether a pipeline exists for it and how many pipelined *)
(* commands wait for their reply.  The number i is the handle of the       *)
(* connection in slot i and i + INCRPIPE that of its pipeline.             *)
(*                                                                         *)
(* A context of hiredis (external) is the commands appended and not yet    *)
(* written (out), those the server has not handled (wire), and the replies *)
(* it sent (due), all first in, first out.  A function called with a       *)
(* connection handle appends its command and blocks until hiredis hands it *)
(* ONE reply, the oldest; called with a pipeline handle it only appends.   *)
(* awk is sequential: while a call blocks, only server and network move.   *)
(***************************************************************************)
EXTENDS Integers, Sequences, FiniteSets

CONSTANTS
  TOPC,        \* number of connection slots
  INCRPIPE,    \* distance from a connection handle to its pipeline handle
  Channels,    \* the channels of the server
  NULL,
  MaxCommands, \* bound: commands the program issues
  MaxOwed      \* bound: replies due on a context before another message

ASSUME RedisAssumption ==
  /\ TOPC \in Nat \ {0}
  /\ INCRPIPE \in Nat /\ INCRPIPE >= TOPC
  /\ MaxCommands \in Nat
  /\ MaxOwed \in Nat
  /\ IsFiniteSet(Channels)

Slots == 0 .. (TOPC - 1)

\* The numbers connect and pipeline return.
Handles == Slots \cup {i + INCRPIPE : i \in Slots}

VARIABLES
  c,        \* c[TOPC]: NULL or the context of the slot
  pipel,    \* pipel[TOPC][2]: exists and pending
  call,     \* NULL or the call that blocks in redisGetReply
  ret,      \* what the last call returned
  issued,   \* number of commands issued so far; they are numbered from 1
  crashed   \* the process dereferenced a null reply

vars == <<c, pipel, call, ret, issued, crashed>>

-----------------------------------------------------------------------------
(* Commands, replies and contexts.                                         *)

Commands == [cmd : Nat, op : {"value", "array", "subscribe", "unsubscribe"},
             channels : SUBSET Channels]

\* A reply is one value, one array, the confirmation of one channel, or a
\* published message, which belongs to no command.
Replies == [cmd : Nat, type : {"value", "array", "confirm", "message"}]

Contexts ==
  [out : Seq(Commands), wire : Seq(Commands), due : Seq(Replies),
   subs : SUBSET Channels, pubsub : BOOLEAN, reader : BOOLEAN,
   lost : BOOLEAN, inherited : Nat]

Calls ==
  [op : {"sync", "unsubscribe", "getMessage", "getReply", "getReplyMass"},
   slot : Slots, cmd : Nat, mode : {"value", "array"}]

\* A null pointer is neither a context nor a call.
ASSUME NullAssumption == NULL \notin Contexts \cup Calls

\* What a call returned: a reply, or a number the extension made up (cmd 0).
Outcomes ==
  Replies \cup [cmd : {0}, type : {"error", "ok", "discarded"}]

\* The call that returned last: none yet, a refused one, a pipelined command or
\* the function by name.
Results ==
  [op : {"load", "refuse", "connect", "disconnect", "pipeline", "piped", "sync",
         "unsubscribe", "getMessage", "getReply", "getReplyMass"},
   cmd : Nat, got : Outcomes]

\* A new context: nothing sent and nothing owed.  inherited notes what the
\* counter of the slot said when the context was put into it.
NewContext(i) ==
  [out |-> <<>>, wire |-> <<>>, due |-> <<>>, subs |-> {}, pubsub |-> FALSE,
   reader |-> FALSE, lost |-> FALSE, inherited |-> pipel[i].pending]

\* The channels an UNSUBSCRIBE names: all subscribed ones when it names none.
Unsubscribed(command, subs) ==
  IF command.channels = {} THEN subs ELSE command.channels

\* Redis confirms SUBSCRIBE and UNSUBSCRIBE once per channel, and at least once.
ReplyCount(command, subs) ==
  CASE command.op = "subscribe" -> Cardinality(command.channels)
    [] command.op = "unsubscribe" ->
         IF Unsubscribed(command, subs) = {} THEN 1
         ELSE Cardinality(Unsubscribed(command, subs))
    [] OTHER -> 1

Answer(command, subs) ==
  [j \in 1 .. ReplyCount(command, subs) |->
     [cmd |-> command.cmd,
      type |-> IF command.op \in {"value", "array"} THEN command.op
               ELSE "confirm"]]

SubsAfter(command, subs) ==
  CASE command.op = "subscribe" -> subs \cup command.channels
    [] command.op = "unsubscribe" -> subs \ Unsubscribed(command, subs)
    [] OTHER -> subs

Made(type) == [cmd |-> 0, type |-> type]

Init ==
  /\ c = [i \in Slots |-> NULL]
  /\ pipel = [i \in Slots |-> [exists |-> FALSE, pending |-> 0]]
  /\ call = NULL
  /\ ret = [op |-> "load", cmd |-> 0, got |-> Made("ok")]
  /\ issued = 0
  /\ crashed = FALSE

-----------------------------------------------------------------------------
(* The program calls a function.  Handles are resolved by validate_conn.   *)

Running == call = NULL /\ ~crashed

\* A pipeline handle is one only while the slot says that a pipeline exists.
IsPipe(h) == h >= INCRPIPE /\ pipel[h - INCRPIPE].exists

SlotOf(h) == IF IsPipe(h) THEN h - INCRPIPE ELSE h

ValidConn(h) == SlotOf(h) \in Slots /\ c[SlotOf(h)] # NULL

Return(op, cmd, got) == ret' = [op |-> op, cmd |-> cmd, got |-> got]

\* Any function refuses a handle validate_conn does not accept.
Refuse(h) ==
  /\ Running
  /\ ~ValidConn(h)
  /\ Return("refuse", 0, Made("error"))
  /\ UNCHANGED <<c, pipel, call, issued, crashed>>

\* connect takes the first free slot.  Its pipel entry is not touched.
Connect ==
  /\ Running
  /\ \E i \in Slots :
       /\ c[i] = NULL
       /\ \A j \in Slots : j < i => c[j] # NULL
       /\ \/ c' = [c EXCEPT ![i] = NewContext(i)] /\ Return("connect", 0, Made("ok"))
          \/ UNCHANGED c /\ Return("connect", 0, Made("error"))
  /\ UNCHANGED <<pipel, call, issued, crashed>>

ConnectFull ==
  /\ Running
  /\ \A i \in Slots : c[i] # NULL
  /\ Return("connect", 0, Made("error"))
  /\ UNCHANGED <<c, pipel, call, issued, crashed>>

\* disconnect frees the context.  Its pipel entry is not touched either.
Disconnect(h) ==
  /\ Running
  /\ h \in Slots /\ c[h] # NULL
  /\ c' = [c EXCEPT ![h] = NULL]
  /\ Return("disconnect", 0, Made("ok"))
  /\ UNCHANGED <<pipel, call, issued, crashed>>

\* pipeline is called with a connection handle.
Pipeline(h) ==
  /\ Running
  /\ h \in Slots /\ c[h] # NULL
  /\ IF pipel[h].exists
     THEN UNCHANGED pipel /\ Return("pipeline", 0, Made("error"))
     ELSE /\ pipel' = [pipel EXCEPT ![h].exists = TRUE]
          /\ Return("pipeline", 0, Made("ok"))
  /\ UNCHANGED <<c, call, issued, crashed>>

\* The command appended to the context of slot i.  pubsub notes that it
\* carried a SUBSCRIBE or UNSUBSCRIBE, which may be answered more than once.
Issue(i, op, channels) ==
  /\ issued < MaxCommands
  /\ issued' = issued + 1
  /\ c' = [c EXCEPT
       ![i].out = Append(@, [cmd |-> issued + 1, op |-> op,
                             channels |-> channels]),
       ![i].pubsub = @ \/ op \in {"subscribe", "unsubscribe"}]

\* rCommand with a pipeline handle: the command is buffered and 1 is returned.
PipedCommand(h, op, channels) ==
  /\ Running
  /\ ValidConn(h) /\ IsPipe(h)
  /\ Issue(SlotOf(h), op, channels)
  /\ pipel' = [pipel EXCEPT ![SlotOf(h)].pending = @ + 1]
  /\ Return("piped", issued + 1, Made("ok"))
  /\ UNCHANGED <<call, crashed>>

\* A call that blocks: op in redisGetReply for the slot.
Block(op, i, cmd, mode) ==
  call' = [op |-> op, slot |-> i, cmd |-> cmd, mode |-> mode]

\* rCommand with a connection handle.  mode is how processREPLY is called: with
\* the array argument of the function or without one.
SyncCommand(h, op, channels, mode) ==
  /\ Running
  /\ ValidConn(h) /\ ~IsPipe(h)
  /\ Issue(SlotOf(h), op, channels)
  /\ Block("sync", SlotOf(h), issued + 1, mode)
  /\ UNCHANGED <<pipel, ret, crashed>>

\* unsubscribe reads a reply and never looks at it.
Unsubscribe(h, channels) ==
  /\ Running
  /\ ValidConn(h) /\ ~IsPipe(h)
  /\ Issue(SlotOf(h), "unsubscribe", channels)
  /\ Block("unsubscribe", SlotOf(h), issued + 1, "value")
  /\ UNCHANGED <<pipel, ret, crashed>>

\* getMessage sends nothing and reads whatever reply is the oldest, which reader
\* notes: it may be one that pipel counts.
GetMessage(h) ==
  /\ Running
  /\ ValidConn(h) /\ ~IsPipe(h)
  /\ c' = [c EXCEPT ![SlotOf(h)].reader = TRUE]
  /\ Block("getMessage", SlotOf(h), 0, "array")
  /\ UNCHANGED <<pipel, ret, issued, crashed>>

\* getReply and getReplyMass want a pipeline with pending replies.
NothingPending(h) ==
  /\ Running
  /\ ValidConn(h)
  /\ ~IsPipe(h) \/ pipel[SlotOf(h)].pending = 0
  /\ Return("getReply", 0, Made("error"))
  /\ UNCHANGED <<c, pipel, call, issued, crashed>>

\* Mutant of GetReply: it does not look at the counter.
GetReplyUnchecked(h, mode) ==
  /\ Running
  /\ ValidConn(h) /\ IsPipe(h)
  /\ Block("getReply", SlotOf(h), 0, mode)
  /\ UNCHANGED <<c, pipel, ret, issued, crashed>>

GetReply(h, mode) ==
  /\ Running
  /\ ValidConn(h) /\ IsPipe(h) /\ pipel[SlotOf(h)].pending > 0
  /\ Block("getReply", SlotOf(h), 0, mode)
  /\ UNCHANGED <<c, pipel, ret, issued, crashed>>

GetReplyMass(h) ==
  /\ Running
  /\ ValidConn(h) /\ IsPipe(h) /\ pipel[SlotOf(h)].pending > 0
  /\ Block("getReplyMass", SlotOf(h), 0, "value")
  /\ UNCHANGED <<c, pipel, ret, issued, crashed>>

-----------------------------------------------------------------------------
(* The server and the network.                                             *)

Blocked(i) == call # NULL /\ ~crashed /\ call.slot = i

\* hiredis writes the whole output buffer when a blocked call needs a reply.
Flush(i) ==
  /\ Blocked(i)
  /\ ~c[i].lost
  /\ c[i].out # <<>>
  /\ c' = [c EXCEPT ![i].wire = @ \o c[i].out, ![i].out = <<>>]
  /\ UNCHANGED <<pipel, call, ret, issued, crashed>>

\* The server handles the next command of the connection and answers it.
Serve(i) ==
  /\ c[i] # NULL /\ ~c[i].lost
  /\ c[i].wire # <<>>
  /\ LET command == Head(c[i].wire) IN
       c' = [c EXCEPT ![i].wire = Tail(@),
                      ![i].due = @ \o Answer(command, c[i].subs),
                      ![i].subs = SubsAfter(command, c[i].subs)]
  /\ UNCHANGED <<pipel, call, ret, issued, crashed>>

\* Another client publishes to a channel of the connection.
Publish(i) ==
  /\ c[i] # NULL /\ ~c[i].lost
  /\ c[i].subs # {}
  /\ Len(c[i].due) < MaxOwed
  /\ c' = [c EXCEPT ![i].due = Append(@, [cmd |-> 0, type |-> "message"])]
  /\ UNCHANGED <<pipel, call, ret, issued, crashed>>

\* The connection breaks; some of the replies due may still be read.
Lose(i) ==
  /\ c[i] # NULL /\ ~c[i].lost
  /\ \E n \in 0 .. Len(c[i].due) :
       c' = [c EXCEPT ![i].lost = TRUE, ![i].wire = <<>>,
                      ![i].due = SubSeq(@, 1, n)]
  /\ UNCHANGED <<pipel, call, ret, issued, crashed>>

-----------------------------------------------------------------------------
(* The blocked call gets its reply, or learns that there will be none.     *)

\* The blocked call is op and the oldest reply of its context is there.
Readable(op) ==
  /\ call # NULL /\ ~crashed
  /\ call.op = op
  /\ c[call.slot].due # <<>>

Oldest == Head(c[call.slot].due)

TakeOldest == c' = [c EXCEPT ![call.slot].due = Tail(@)]

\* A synchronous command, and getMessage, return what they read.
ReturnReply(op) ==
  /\ Readable(op)
  /\ TakeOldest
  /\ call' = NULL
  /\ Return(op, call.cmd, Oldest)
  /\ UNCHANGED <<pipel, issued, crashed>>

ReturnUnsubscribe ==
  /\ Readable("unsubscribe")
  /\ TakeOldest
  /\ call' = NULL
  /\ Return("unsubscribe", call.cmd, Made("ok"))
  /\ UNCHANGED <<pipel, issued, crashed>>

\* Mutant of ReturnGetReply: a reply that is dropped stays counted.
ReturnGetReplyDropped ==
  /\ Readable("getReply")
  /\ TakeOldest
  /\ call' = NULL
  /\ IF call.mode = "value" /\ Oldest.type # "value"
     THEN UNCHANGED pipel /\ Return("getReply", 0, Made("discarded"))
     ELSE /\ pipel' = [pipel EXCEPT ![call.slot].pending = @ - 1]
          /\ Return("getReply", 0, Oldest)
  /\ UNCHANGED <<issued, crashed>>

\* getReply without an array argument drops a reply that is an array.
ReturnGetReply ==
  /\ Readable("getReply")
  /\ TakeOldest
  /\ pipel' = [pipel EXCEPT ![call.slot].pending = @ - 1]
  /\ call' = NULL
  /\ Return("getReply", 0,
            IF call.mode = "value" /\ Oldest.type # "value" THEN Made("discarded")
            ELSE Oldest)
  /\ UNCHANGED <<issued, crashed>>

\* Mutant of DrainOne: the loop waits for one reply too many.
DrainTooMany ==
  /\ Readable("getReplyMass")
  /\ TakeOldest
  /\ pipel' = [pipel EXCEPT ![call.slot].pending = @ - 1]
  /\ IF pipel[call.slot].pending > 0
     THEN UNCHANGED <<call, ret>>
     ELSE call' = NULL /\ Return("getReplyMass", 0, Made("ok"))
  /\ UNCHANGED <<issued, crashed>>

\* Mutant of DrainOne: the counter is cleared after the first reply.
DrainForgets ==
  /\ Readable("getReplyMass")
  /\ TakeOldest
  /\ pipel' = [pipel EXCEPT ![call.slot].pending = 0]
  /\ call' = NULL /\ Return("getReplyMass", 0, Made("ok"))
  /\ UNCHANGED <<issued, crashed>>

\* One turn of the loop of getReplyMass, which ends with the last pending one.
DrainOne ==
  /\ Readable("getReplyMass")
  /\ TakeOldest
  /\ pipel' = [pipel EXCEPT ![call.slot].pending = @ - 1]
  /\ IF pipel[call.slot].pending > 1
     THEN UNCHANGED <<call, ret>>
     ELSE call' = NULL /\ Return("getReplyMass", 0, Made("ok"))
  /\ UNCHANGED <<issued, crashed>>

\* redisGetReply fails: hiredis notes the error in the context.
Broken(ops) ==
  /\ call # NULL /\ ~crashed
  /\ call.op \in ops
  /\ c[call.slot].lost

\* No reply can be read from the context any more.
DropReplies == c' = [c EXCEPT ![call.slot].due = <<>>]

\* theReply finds the error; processREPLY without an array returns at once.
FailValue ==
  /\ Broken({"sync"}) /\ call.mode = "value"
  /\ DropReplies
  /\ call' = NULL
  /\ Return("sync", call.cmd, Made("error"))
  /\ UNCHANGED <<pipel, issued, crashed>>

\* processREPLY with an array goes on to read the type of the null reply.
FailArray ==
  /\ Broken({"sync"}) /\ call.mode = "array"
  /\ DropReplies
  /\ crashed' = TRUE
  /\ UNCHANGED <<pipel, call, ret, issued>>

\* unsubscribe returns 1 whatever happened.
FailUnsubscribe ==
  /\ Broken({"unsubscribe"})
  /\ DropReplies
  /\ call' = NULL
  /\ Return("unsubscribe", call.cmd, Made("ok"))
  /\ UNCHANGED <<pipel, issued, crashed>>

\* getReply, getReplyMass and getMessage empty the slot and leave pipel alone.
FailReader ==
  /\ Broken({"getReply", "getReplyMass", "getMessage"})
  /\ c' = [c EXCEPT ![call.slot] = NULL]
  /\ call' = NULL
  /\ Return(call.op, 0, Made("error"))
  /\ UNCHANGED <<pipel, issued, crashed>>

-----------------------------------------------------------------------------
NonEmpty == (SUBSET Channels) \ {{}}

Program ==
  \/ Connect \/ ConnectFull
  \/ \E h \in Handles :
       \/ Refuse(h) \/ Disconnect(h) \/ Pipeline(h)
       \/ GetMessage(h) \/ NothingPending(h) \/ GetReplyMass(h)
       \/ \E t \in {"value", "array"} :
            PipedCommand(h, t, {}) \/ SyncCommand(h, t, {}, t) \/ GetReply(h, t)
       \/ \E S \in NonEmpty :
            \/ PipedCommand(h, "subscribe", S)
            \/ SyncCommand(h, "subscribe", S, "array")
       \/ \E S \in SUBSET Channels :
            PipedCommand(h, "unsubscribe", S) \/ Unsubscribe(h, S)

Answered ==
  \/ ReturnReply("sync") \/ ReturnReply("getMessage") \/ ReturnUnsubscribe
  \/ ReturnGetReply \/ DrainOne
  \/ FailValue \/ FailArray \/ FailUnsubscribe \/ FailReader

Next ==
  \/ Program
  \/ Answered
  \/ \E i \in Slots : Flush(i) \/ Serve(i) \/ Publish(i) \/ Lose(i)

Spec == Init /\ [][Next]_vars

\* redisGetReply loops until it has a reply or an error, and the server
\* answers what it received.  Nothing makes the program call anything, the
\* connection break or another client publish.
FairSpec ==
  /\ Spec
  /\ WF_vars(Answered)
  /\ \A i \in Slots : WF_vars(Flush(i)) /\ WF_vars(Serve(i))

-----------------------------------------------------------------------------
TypeOK ==
  /\ c \in [Slots -> Contexts \cup {NULL}]
  /\ pipel \in [Slots -> [exists : BOOLEAN, pending : Nat]]
  /\ call \in Calls \cup {NULL}
  /\ ret \in Results
  /\ issued \in 0 .. MaxCommands
  /\ crashed \in BOOLEAN
  /\ call # NULL => c[call.slot] # NULL

\* A connection that did not break and on which getMessage read nothing.
Countable(i) == c[i] # NULL /\ ~c[i].reader /\ ~c[i].lost

\* One reply belongs to each of its commands.
Regular(i) == Countable(i) /\ ~c[i].pubsub

Waiting(i, ops) ==
  IF call # NULL /\ call.slot = i /\ call.op \in ops THEN 1 ELSE 0

\* The replies hiredis has yet to hand out, one per command still on its way.
Owed(i) == Len(c[i].out) + Len(c[i].wire) + Len(c[i].due)

\* The replies the extension counts on: those of pipel, less what pipel said
\* when the connection was made, and that of the command in progress.
Counted(i) ==
  pipel[i].pending - c[i].inherited + Waiting(i, {"sync", "unsubscribe"})

\* On a regular connection the count is exact: no mixture of pipelined and
\* synchronous calls, of getReply with and without an array and of getReplyMass
\* forgets a reply or counts one twice.
RepliesAccountedFor == \A i \in Slots : Regular(i) => Counted(i) = Owed(i)

\* With subscriptions, pipelined or not, there may be more replies than the
\* extension counts on but never fewer, which would leave getReply waiting.
EnoughReplies == \A i \in Slots : Countable(i) => Counted(i) <= Owed(i)

\* A synchronous command issued when no pipelined reply is pending returns its
\* own reply, as in the example of README.md that empties the pipeline with
\* getReply before it calls restore on the connection.
DrainedPipelineAnswersInTurn ==
  [][\A i \in Slots :
       /\ Waiting(i, {"sync"}) = 1 /\ call' = NULL
       /\ Regular(i) /\ pipel[i].pending = 0
       => ret'.got = [cmd |-> call.cmd, type |-> call.mode]]_vars

\* A call that blocks on a connection that getMessage never read, and whose
\* counter was zero when it was made, does not wait forever.
CallsReturn ==
  \A i \in Slots :
    (Blocked(i) /\ ~c[i].reader /\ c[i].inherited = 0) ~> ~Blocked(i)

-----------------------------------------------------------------------------
(* What the documentation says and the code does not do.                   *)

\* README.md on getReply: "-1 on error (if not exist results buffered)".  A call
\* of getReply or getReplyMass that is accepted has a result to wait for.
GetReplyHasReply ==
  \A i \in Slots :
    Regular(i) /\ Waiting(i, {"getReply", "getReplyMass"}) = 1
      => Owed(i) > 0
=============================================================================
