------------------------- MODULE RedisPipelineProofs -------------------------
(***************************************************************************)
(* Proofs about RedisPipeline, for any number of connections, channels and *)
(* commands.                                                               *)
(*                                                                         *)
(* The argument.  Each step touches the context of one slot, so the        *)
(* invariant is a predicate of a context x, of the counter p of its slot   *)
(* and of the call k that blocks on it, if one does (ContextInv).  What    *)
(* was appended and is not yet answered yields at least one reply each     *)
(* (Sound), exactly one on a connection without SUBSCRIBE and UNSUBSCRIBE; *)
(* the counter and the call therefore stay balanced with the replies still *)
(* to come (Balanced), from any counter the context may have inherited.    *)
(* The reply of a synchronous command is the last of them (LastAwaited),   *)
(* since nothing is sent while the call blocks.                            *)
(***************************************************************************)
EXTENDS RedisPipeline, SequenceTheorems, FiniteSetTheorems, TLAPS

Plain == [cmd : Nat, op : {"value", "array"}, channels : SUBSET Channels]

\* The commands the functions can send: no SUBSCRIBE is without a channel.
Sent ==
  [cmd : Nat, op : {"value", "array", "unsubscribe"}, channels : SUBSET Channels]
    \cup [cmd : Nat, op : {"subscribe"}, channels : NonEmpty]

Sound(x) ==
  /\ x \in Contexts
  /\ x.out \in Seq(Sent) /\ x.wire \in Seq(Sent)
  /\ ~x.pubsub => /\ x.subs = {}
                  /\ x.out \in Seq(Plain) /\ x.wire \in Seq(Plain)

\* The length and the last element of a sequence, as the steps use them.
Size(s) == Len(s)

Final(s) == s[Len(s)]

\* The replies hiredis has yet to hand out, one per command on its way.
Debt(x) == Size(x.out) + Size(x.wire) + Size(x.due)

Awaits(k) == IF k # NULL /\ k.op \in {"sync", "unsubscribe"} THEN 1 ELSE 0

Balanced(x, p, k) ==
  ~x.reader /\ ~x.lost =>
    /\ p - x.inherited + Awaits(k) <= Debt(x)
    /\ ~x.pubsub => p - x.inherited + Awaits(k) = Debt(x)

\* What a function that reads replies has checked or noted before it blocks.
Served(x, p, k) ==
  k # NULL => /\ k.op = "getMessage" => x.reader
              /\ k.op \in {"getReply", "getReplyMass"} => p > 0

LastIsCall(x, k) ==
  IF x.out # <<>>
  THEN Final(x.out).cmd = k.cmd /\ Final(x.out).op = k.mode
  ELSE IF x.wire # <<>>
       THEN Final(x.wire).cmd = k.cmd /\ Final(x.wire).op = k.mode
       ELSE x.due # <<>> =>
              Final(x.due) = [cmd |-> k.cmd, type |-> k.mode]

LastAwaited(x, k) ==
  k # NULL /\ k.op = "sync" /\ ~x.pubsub /\ ~x.reader /\ ~x.lost => LastIsCall(x, k)

ContextInv(x, p, k) ==
  Sound(x) /\ Balanced(x, p, k) /\ Served(x, p, k) /\ LastAwaited(x, k)

CallOf(i) == IF call # NULL /\ call.slot = i THEN call ELSE NULL

SlotInv(i) == c[i] # NULL => ContextInv(c[i], pipel[i].pending, CallOf(i))

IInv == TypeOK /\ \A i \in Slots : SlotInv(i)

-----------------------------------------------------------------------------
(* Sequences.                                                              *)

\* The last element of a sequence to which one is appended.
LEMMA AppendFacts ==
  ASSUME NEW S, NEW s \in Seq(S), NEW e \in S
  PROVE  /\ Append(s, e) \in Seq(S)
         /\ Append(s, e) # <<>>
         /\ Size(Append(s, e)) = Size(s) + 1
         /\ Final(Append(s, e)) = e
BY DEF Size, Final

\* The size of a sequence, and of the empty one.
LEMMA SizeFacts ==
  /\ Size(<<>>) = 0
  /\ \A S : \A s \in Seq(S) : Size(s) \in Nat /\ (s # <<>> => Size(s) >= 1)
BY DEF Size

\* The last element of a concatenation.
LEMMA ConcatFacts ==
  ASSUME NEW S, NEW s \in Seq(S), NEW t \in Seq(S), t # <<>>
  PROVE  /\ s \o t \in Seq(S)
         /\ s \o t # <<>>
         /\ Size(s \o t) = Size(s) + Size(t)
         /\ Final(s \o t) = Final(t)
<1>1. Len(t) \in Nat \ {0} /\ Len(s) \in Nat
  BY EmptySeq, LenProperties
<1>2. /\ s \o t \in Seq(S)
      /\ Len(s \o t) = Len(s) + Len(t)
      /\ \A i \in 1 .. Len(s) + Len(t) :
           (s \o t)[i] = IF i <= Len(s) THEN s[i] ELSE t[i - Len(s)]
  BY ConcatProperties
<1>3. s \o t # <<>>
  BY <1>1, <1>2, EmptySeq
<1>4. (s \o t)[Len(s) + Len(t)] = t[Len(s) + Len(t) - Len(s)]
  BY <1>1, <1>2
<1>5. Len(s) + Len(t) - Len(s) = Len(t)
  BY <1>1
<1>. QED
  BY <1>2, <1>3, <1>4, <1>5 DEF Size, Final

\* The tail keeps the last element, unless there was only that one.
LEMMA TailFacts ==
  ASSUME NEW S, NEW s \in Seq(S), s # <<>>
  PROVE  /\ Head(s) \in S
         /\ Tail(s) \in Seq(S)
         /\ Size(s) \in Nat \ {0}
         /\ Size(Tail(s)) = Size(s) - 1
         /\ Tail(s) # <<>> => Final(Tail(s)) = Final(s)
         /\ Tail(s) = <<>> => Head(s) = Final(s)
<1>1. /\ Head(s) \in S /\ Tail(s) \in Seq(S)
      /\ Len(Tail(s)) = Len(s) - 1
      /\ \A i \in 1 .. Len(Tail(s)) : Tail(s)[i] = s[i+1]
  BY HeadTailProperties
<1>2. Len(s) \in Nat \ {0}
  BY EmptySeq
<1>3. ASSUME Tail(s) # <<>> PROVE Tail(s)[Len(Tail(s))] = s[Len(s)]
  <2>1. Len(Tail(s)) \in Nat \ {0}
    BY <1>1, <1>3, EmptySeq
  <2>2. Len(Tail(s)) + 1 = Len(s)
    BY <1>1, <1>2
  <2>. QED
    BY <1>1, <2>1, <2>2
<1>4. Tail(s) = <<>> => Head(s) = s[Len(s)]
  <2>0. Len(<<>>) = 0
    BY EmptySeq
  <2>1. Tail(s) = <<>> => Len(Tail(s)) = 0
    BY <2>0, Zenon
  <2>2. Tail(s) = <<>> => Len(s) = 1
    BY <1>1, <1>2, <2>1
  <2>3. Head(s) = s[1]
    OBVIOUS
  <2>. QED
    BY <2>2, <2>3
<1>. QED
  BY <1>1, <1>2, <1>3, <1>4 DEF Size, Final

\* The commands without a subscription are among those that can be sent, and
\* these are commands.
LEMMA SentFacts ==
  /\ Plain \subseteq Sent /\ Sent \subseteq Commands
  /\ Seq(Plain) \subseteq Seq(Sent) /\ Seq(Sent) \subseteq Seq(Commands)
<1>1. Plain \subseteq Sent /\ Sent \subseteq Commands
  BY DEF Plain, Sent, Commands, NonEmpty
<1>. QED
  BY <1>1, SeqMonotonic

-----------------------------------------------------------------------------
(* What happens to a context.                                              *)

\* y is x after a command was appended, getMessage was called, ...
Issued(x, y, e) ==
  y = [x EXCEPT !.out = Append(@, e),
                !.pubsub = @ \/ e.op \in {"subscribe", "unsubscribe"}]

Flushed(x, y) == y = [x EXCEPT !.wire = @ \o x.out, !.out = <<>>]

Answering(x, y) ==
  y = [x EXCEPT !.wire = Tail(@),
                !.due = @ \o Answer(Head(x.wire), x.subs),
                !.subs = SubsAfter(Head(x.wire), x.subs)]

Told(x, y) == y = [x EXCEPT !.due = Append(@, [cmd |-> 0, type |-> "message"])]

Losing(x, y) ==
  \E n \in 0 .. Len(x.due) :
    y = [x EXCEPT !.lost = TRUE, !.wire = <<>>, !.due = SubSeq(@, 1, n)]

Taken(x, y) == x.due # <<>> /\ y = [x EXCEPT !.due = Tail(@)]

Dropped(x, y) == y = [x EXCEPT !.due = <<>>]

\* A new context is balanced with whatever its counter says.
LEMMA NewKeeps ==
  ASSUME NEW p \in Nat, NEW x,
         x = [out |-> <<>>, wire |-> <<>>, due |-> <<>>, subs |-> {},
              pubsub |-> FALSE, reader |-> FALSE, lost |-> FALSE, inherited |-> p]
  PROVE  ContextInv(x, p, NULL)
<1>1. x \in Contexts
  BY DEF Contexts
<1>2. Sound(x)
  BY <1>1 DEF Sound
<1>3. Debt(x) = 0
  BY SizeFacts DEF Debt
<1>. QED
  BY <1>2, <1>3 DEF ContextInv, Balanced, Served, LastAwaited, Awaits

\* A command is sent: pipelined, counted by the slot, or awaited by the call.
LEMMA IssueKeeps ==
  ASSUME NEW x, NEW p \in Nat, ContextInv(x, p, NULL),
         NEW e \in Sent,
         NEW y, Issued(x, y, e),
         NEW q, NEW k \in Calls \cup {NULL},
         \/ q = p + 1 /\ k = NULL
         \/ /\ q = p /\ k \in Calls /\ k.op \in {"sync", "unsubscribe"}
            /\ k.op = "sync" => k.cmd = e.cmd /\ (k.mode = e.op \/ e.op = "subscribe")
            /\ k.op = "unsubscribe" => e.op = "unsubscribe"
  PROVE  ContextInv(y, q, k)
<1>1. Sound(x) /\ Balanced(x, p, NULL) /\ x \in Contexts
  BY DEF ContextInv, Sound
<1>2. /\ y.out = Append(x.out, e)
      /\ y.pubsub = (x.pubsub \/ e.op \in {"subscribe", "unsubscribe"})
      /\ y.wire = x.wire /\ y.due = x.due /\ y.subs = x.subs
      /\ y.reader = x.reader /\ y.lost = x.lost /\ y.inherited = x.inherited
  BY <1>1 DEF Contexts, Issued
<1>3. e \in Commands
  BY SentFacts
<1>4. y.out \in Seq(Sent) /\ y.out \in Seq(Commands)
  BY <1>1, <1>2, SentFacts DEF Sound
<1>5. y \in Contexts
  BY <1>1, <1>4 DEF Contexts, Issued
<1>6. ~y.pubsub => ~x.pubsub /\ e \in Plain
  BY <1>2 DEF Sent, Plain
<1>7. Sound(y)
  <2>1. ~y.pubsub => x.out \in Seq(Plain) /\ x.wire \in Seq(Plain) /\ x.subs = {}
    BY <1>1, <1>6 DEF Sound
  <2>2. ~y.pubsub => y.out \in Seq(Plain)
    BY <1>2, <1>6, <2>1, AppendFacts
  <2>3. y.wire \in Seq(Sent)
    BY <1>1, <1>2 DEF Sound
  <2>. QED
    BY <1>2, <1>4, <1>5, <2>1, <2>2, <2>3 DEF Sound
<1>8. Debt(y) = Debt(x) + 1 /\ Debt(x) \in Nat
  <2>1. /\ Size(x.out) \in Nat /\ Size(x.wire) \in Nat /\ Size(x.due) \in Nat
    BY <1>1, SizeFacts DEF Sound, Contexts
  <2>2. Size(y.out) = Size(x.out) + 1
    BY <1>1, <1>2, AppendFacts DEF Sound
  <2>3. Size(y.wire) = Size(x.wire) /\ Size(y.due) = Size(x.due)
    BY <1>2
  <2>. QED
    BY <2>1, <2>2, <2>3 DEF Debt
<1>9. q + Awaits(k) = p + Awaits(NULL) + 1 /\ q \in Nat /\ Awaits(k) \in {0, 1}
  BY NullAssumption DEF Awaits
<1>10. x.inherited \in Nat
  BY <1>1 DEF Contexts
<1>11. Balanced(y, q, k)
  <2>. SUFFICES ASSUME ~y.reader, ~y.lost
                PROVE  /\ q - y.inherited + Awaits(k) <= Debt(y)
                       /\ ~y.pubsub => q - y.inherited + Awaits(k) = Debt(y)
    BY DEF Balanced
  <2>1. /\ p - x.inherited + Awaits(NULL) <= Debt(x)
        /\ ~x.pubsub => p - x.inherited + Awaits(NULL) = Debt(x)
    BY <1>1, <1>2 DEF Balanced
  <2>2. Awaits(NULL) = 0
    BY DEF Awaits
  <2>3. p \in Nat /\ q + Awaits(k) = p + 1 /\ Awaits(k) \in {0, 1}
    BY <1>9, <2>2
  <2>4. y.inherited = x.inherited
        /\ (~y.pubsub => ~x.pubsub)
    BY <1>2, <1>6
  <2>. QED
    BY <1>8, <1>9, <1>10, <2>1, <2>2, <2>3, <2>4
<1>12. LastAwaited(y, k)
  <2>1. y.out # <<>> /\ Final(y.out) = e
    BY <1>1, <1>2, AppendFacts DEF Sound
  <2>. QED
    BY <1>2, <2>1, NullAssumption DEF LastAwaited, LastIsCall
<1>13. Served(y, q, k)
  BY DEF Served
<1>. QED
  BY <1>7, <1>11, <1>12, <1>13 DEF ContextInv

\* A call blocks that sends nothing: it has checked the counter, or is noted.
LEMMA BlockKeeps ==
  ASSUME NEW x, NEW p \in Nat, ContextInv(x, p, NULL),
         NEW y, NEW k \in Calls,
         \/ y = x /\ p > 0 /\ k.op \in {"getReply", "getReplyMass"}
         \/ y = [x EXCEPT !.reader = TRUE] /\ k.op = "getMessage"
  PROVE  ContextInv(y, p, k)
<1>1. Sound(x) /\ Balanced(x, p, NULL) /\ x \in Contexts
  BY DEF ContextInv, Sound
<1>2. /\ y.out = x.out /\ y.wire = x.wire /\ y.due = x.due /\ y.subs = x.subs
      /\ y.pubsub = x.pubsub /\ y.lost = x.lost /\ y.inherited = x.inherited
      /\ y.reader = x.reader \/ y.reader
      /\ k.op = "getMessage" => y.reader
      /\ y \in Contexts
  BY <1>1 DEF Contexts
<1>3. Sound(y)
  BY <1>1, <1>2 DEF Sound
<1>4. Debt(y) = Debt(x) /\ Awaits(k) = Awaits(NULL)
  BY <1>2 DEF Debt, Awaits
<1>5. Balanced(y, p, k)
  BY <1>1, <1>2, <1>4 DEF Balanced
<1>. QED
  BY <1>2, <1>3, <1>5 DEF ContextInv, Served, LastAwaited

\* hiredis writes what was appended.
LEMMA FlushKeeps ==
  ASSUME NEW x, NEW p \in Nat, NEW k \in Calls, ContextInv(x, p, k), x.out # <<>>,
         NEW y, Flushed(x, y)
  PROVE  ContextInv(y, p, k)
<1>1. Sound(x) /\ x \in Contexts
  BY DEF ContextInv, Sound
<1>2. /\ y.out = <<>> /\ y.wire = x.wire \o x.out
      /\ y.due = x.due /\ y.subs = x.subs /\ y.pubsub = x.pubsub
      /\ y.reader = x.reader /\ y.lost = x.lost /\ y.inherited = x.inherited
  BY <1>1 DEF Contexts, Flushed
<1>3. /\ y.wire \in Seq(Sent) /\ y.wire # <<>>
      /\ Size(y.wire) = Size(x.wire) + Size(x.out)
      /\ Final(y.wire) = Final(x.out)
      /\ Size(x.out) \in Nat /\ Size(x.wire) \in Nat
  <2>1. x.out \in Seq(Sent) /\ x.wire \in Seq(Sent)
    BY <1>1 DEF Sound
  <2>2. Size(x.out) \in Nat /\ Size(x.wire) \in Nat
    BY <2>1, SizeFacts
  <2>3. /\ x.wire \o x.out \in Seq(Sent) /\ x.wire \o x.out # <<>>
        /\ Size(x.wire \o x.out) = Size(x.wire) + Size(x.out)
        /\ Final(x.wire \o x.out) = Final(x.out)
    BY <2>1, ConcatFacts
  <2>. QED
    BY <1>2, <2>2, <2>3
<1>4. ~x.pubsub => y.wire \in Seq(Plain)
  BY <1>1, <1>2, ConcatFacts DEF Sound
<1>5. y \in Contexts
  <2>1. y.wire \in Seq(Commands) /\ y.out \in Seq(Commands)
    BY <1>2, <1>3, SentFacts, EmptySeq
  <2>. QED
    BY <1>1, <2>1 DEF Contexts, Flushed
<1>6. Sound(y)
  BY <1>1, <1>2, <1>3, <1>4, <1>5, EmptySeq DEF Sound
<1>7. Debt(y) = Debt(x)
  <2>1. Size(y.out) = 0
    BY <1>2, SizeFacts
  <2>2. Size(x.due) \in Nat
    BY <1>1, SizeFacts DEF Contexts
  <2>3. Size(y.due) = Size(x.due)
    BY <1>2
  <2>4. Size(y.wire) = Size(x.wire) + Size(x.out)
    BY <1>3
  <2>5. Size(x.out) \in Nat /\ Size(x.wire) \in Nat
    BY <1>3
  <2>. QED
    BY <2>1, <2>2, <2>3, <2>4, <2>5 DEF Debt
<1>8. Balanced(y, p, k) /\ Served(y, p, k)
  BY <1>2, <1>7 DEF ContextInv, Balanced, Served
<1>9. LastAwaited(y, k)
  BY <1>2, <1>3 DEF ContextInv, LastAwaited, LastIsCall
<1>. QED
  BY <1>6, <1>8, <1>9 DEF ContextInv

\* A command is answered with at least one reply, one of its own on a connection
\* without subscriptions.
LEMMA AnswerFacts ==
  ASSUME NEW e \in Sent, NEW S \in SUBSET Channels
  PROVE  /\ ReplyCount(e, S) \in Nat /\ ReplyCount(e, S) >= 1
         /\ Answer(e, S) \in Seq(Replies)
         /\ Size(Answer(e, S)) = ReplyCount(e, S)
         /\ SubsAfter(e, S) \in SUBSET Channels
         /\ e \in Plain => /\ ReplyCount(e, S) = 1
                           /\ Answer(e, S)[1] = [cmd |-> e.cmd, type |-> e.op]
                           /\ SubsAfter(e, S) = S
<1>1. e.channels \in SUBSET Channels /\ e.cmd \in Nat
  BY DEF Sent, NonEmpty
<1>2. \A T \in SUBSET Channels :
        /\ Cardinality(T) \in Nat
        /\ T # {} => Cardinality(T) >= 1
  <2>. SUFFICES ASSUME NEW T \in SUBSET Channels
                PROVE  /\ Cardinality(T) \in Nat
                       /\ T # {} => Cardinality(T) >= 1
    OBVIOUS
  <2>1. IsFiniteSet(T)
    BY RedisAssumption, FS_Subset
  <2>2. Cardinality(T) \in Nat
    BY <2>1, FS_CardinalityType
  <2>3. T # {} => Cardinality(T) # 0
    BY <2>1, FS_EmptySet
  <2>. QED
    BY <2>2, <2>3
<1>3. Unsubscribed(e, S) \in SUBSET Channels
  BY <1>1 DEF Unsubscribed
<1>4. ReplyCount(e, S) \in Nat /\ ReplyCount(e, S) >= 1
  <2>1. CASE e.op = "subscribe"
    <3>1. e \in [cmd : Nat, op : {"subscribe"}, channels : NonEmpty]
      BY <2>1 DEF Sent
    <3>2. e.channels # {}
      BY <3>1 DEF NonEmpty
    <3>. QED
      BY <1>1, <1>2, <2>1, <3>2 DEF ReplyCount
  <2>2. CASE e.op = "unsubscribe"
    BY <1>2, <1>3, <2>2 DEF ReplyCount
  <2>3. CASE e.op \notin {"subscribe", "unsubscribe"}
    BY <2>3 DEF ReplyCount
  <2>. QED
    BY <2>1, <2>2, <2>3
<1>5. Answer(e, S) \in [1 .. ReplyCount(e, S) -> Replies]
  BY <1>1 DEF Answer, Replies
<1>6. Answer(e, S) \in Seq(Replies)
  BY <1>4, <1>5, SeqDef
<1>7. Size(Answer(e, S)) = ReplyCount(e, S)
  BY <1>4, <1>5, <1>6 DEF Size
<1>8. SubsAfter(e, S) \in SUBSET Channels
  BY <1>1, <1>3 DEF SubsAfter
<1>9. ASSUME e \in Plain
      PROVE  /\ ReplyCount(e, S) = 1
             /\ Answer(e, S)[1] = [cmd |-> e.cmd, type |-> e.op]
             /\ SubsAfter(e, S) = S
  <2>1. e.op \in {"value", "array"}
    BY <1>9 DEF Plain
  <2>2. ReplyCount(e, S) = 1 /\ SubsAfter(e, S) = S
    BY <2>1 DEF ReplyCount, SubsAfter
  <2>. QED
    BY <2>1, <2>2 DEF Answer
<1>. QED
  BY <1>4, <1>6, <1>7, <1>8, <1>9

\* The server answers the oldest command it has.
LEMMA ServeKeeps ==
  ASSUME NEW x, NEW p \in Nat, NEW k, ContextInv(x, p, k), x.wire # <<>>,
         k \in Calls \cup {NULL},
         NEW y, Answering(x, y)
  PROVE  ContextInv(y, p, k)
<1>. DEFINE e == Head(x.wire)
            a == Answer(e, x.subs)
<1>1. Sound(x) /\ x \in Contexts
  BY DEF ContextInv, Sound
<1>2. /\ y.out = x.out /\ y.wire = Tail(x.wire) /\ y.due = x.due \o a
      /\ y.subs = SubsAfter(e, x.subs) /\ y.pubsub = x.pubsub
      /\ y.reader = x.reader /\ y.lost = x.lost /\ y.inherited = x.inherited
  BY <1>1 DEF Contexts, Answering
<1>3. /\ e \in Sent /\ Tail(x.wire) \in Seq(Sent)
      /\ Size(x.wire) \in Nat \ {0}
      /\ Size(Tail(x.wire)) = Size(x.wire) - 1
      /\ Tail(x.wire) # <<>> =>
           Final(Tail(x.wire)) = Final(x.wire)
      /\ Tail(x.wire) = <<>> => e = Final(x.wire)
  BY <1>1, TailFacts DEF Sound
<1>4. ~x.pubsub => e \in Plain /\ Tail(x.wire) \in Seq(Plain)
  BY <1>1, TailFacts DEF Sound
<1>5. x.subs \in SUBSET Channels /\ x.due \in Seq(Replies) /\ x.inherited \in Nat
  BY <1>1 DEF Contexts
<1>6. /\ Size(a) \in Nat /\ Size(a) >= 1 /\ a \in Seq(Replies)
      /\ SubsAfter(e, x.subs) \in SUBSET Channels
      /\ ~x.pubsub => /\ Size(a) = 1 /\ a[1] = [cmd |-> e.cmd, type |-> e.op]
                      /\ SubsAfter(e, x.subs) = x.subs
  BY <1>3, <1>4, <1>5, AnswerFacts
<1>. HIDE DEF a, e
<1>7. a # <<>>
  BY <1>6, SizeFacts
<1>8. /\ y.due \in Seq(Replies) /\ y.due # <<>>
      /\ Size(y.due) = Size(x.due) + Size(a)
      /\ Final(y.due) = Final(a)
  <2>1. /\ x.due \o a \in Seq(Replies) /\ x.due \o a # <<>>
        /\ Size(x.due \o a) = Size(x.due) + Size(a)
        /\ Final(x.due \o a) = Final(a)
    BY <1>5, <1>6, <1>7, ConcatFacts
  <2>. QED
    BY <1>2, <2>1
<1>9. Sound(y)
  <2>1. y.wire \in Seq(Commands)
    BY <1>2, <1>3, SentFacts
  <2>2. y \in Contexts
    BY <1>1, <1>6, <1>8, <2>1, <1>2 DEF Contexts, Answering
  <2>. QED
    BY <1>1, <1>2, <1>3, <1>4, <1>6, <2>2 DEF Sound
<1>10. /\ Debt(y) \in Nat /\ Debt(x) \in Nat /\ Debt(y) = Debt(x) + Size(a) - 1
  <2>1. Size(x.out) \in Nat /\ Size(x.due) \in Nat
    BY <1>1, <1>5, SizeFacts DEF Sound
  <2>2. Size(y.out) = Size(x.out)
    BY <1>2
  <2>3. Size(y.wire) = Size(x.wire) - 1 /\ Size(x.wire) \in Nat \ {0}
    BY <1>2, <1>3
  <2>4. Size(y.due) = Size(x.due) + Size(a) /\ Size(a) \in Nat /\ Size(a) >= 1
    BY <1>6, <1>8
  <2>. QED
    <3>1. /\ Debt(x) = Size(x.out) + Size(x.wire) + Size(x.due)
          /\ Debt(y) = Size(y.out) + Size(y.wire) + Size(y.due)
      BY DEF Debt
    <3>. QED
      BY <2>1, <2>2, <2>3, <2>4, <3>1
<1>11. Balanced(y, p, k)
  <2>. SUFFICES ASSUME ~y.reader, ~y.lost
                PROVE  /\ p - y.inherited + Awaits(k) <= Debt(y)
                       /\ ~y.pubsub => p - y.inherited + Awaits(k) = Debt(y)
    BY DEF Balanced
  <2>1. /\ p - x.inherited + Awaits(k) <= Debt(x)
        /\ ~x.pubsub => p - x.inherited + Awaits(k) = Debt(x)
    BY <1>2 DEF ContextInv, Balanced
  <2>2. Awaits(k) \in {0, 1}
    BY DEF Awaits
  <2>3. y.inherited = x.inherited /\ x.inherited \in Nat /\ y.pubsub = x.pubsub
    BY <1>2, <1>5
  <2>4. /\ Size(a) \in Nat /\ Size(a) >= 1
        /\ ~x.pubsub => Size(a) = 1
    BY <1>6
  <2>. QED
    BY <1>10, <2>1, <2>2, <2>3, <2>4
<1>12. LastAwaited(y, k)
  <2>. SUFFICES ASSUME k # NULL, k.op = "sync", ~x.pubsub, ~x.reader, ~x.lost
                PROVE  LastIsCall(y, k)
    BY <1>2 DEF LastAwaited
  <2>1. LastIsCall(x, k)
    BY DEF ContextInv, LastAwaited
  <2>2. CASE x.out # <<>>
    BY <1>2, <2>1, <2>2 DEF LastIsCall
  <2>3. CASE x.out = <<>> /\ Tail(x.wire) # <<>>
    BY <1>2, <1>3, <2>1, <2>3 DEF LastIsCall
  <2>4. CASE x.out = <<>> /\ Tail(x.wire) = <<>>
    <3>1. e.cmd = k.cmd /\ e.op = k.mode
      BY <1>3, <2>1, <2>4 DEF LastIsCall
    <3>2. Size(a) = 1 /\ a[1] = [cmd |-> e.cmd, type |-> e.op]
      BY <1>6
    <3>3. Final(a) = a[1]
      BY <3>2 DEF Final, Size
    <3>4. Final(y.due) = [cmd |-> k.cmd, type |-> k.mode]
      BY <1>8, <3>1, <3>2, <3>3
    <3>. QED
      BY <1>2, <2>4, <3>4 DEF LastIsCall
  <2>. QED
    BY <2>2, <2>3, <2>4
<1>13. Served(y, p, k)
  BY <1>2 DEF ContextInv, Served
<1>. QED
  BY <1>9, <1>11, <1>12, <1>13 DEF ContextInv

\* A message arrives that nobody asked for.
LEMMA PublishKeeps ==
  ASSUME NEW x, NEW p \in Nat, NEW k, ContextInv(x, p, k), x.subs # {},
         NEW y, Told(x, y)
  PROVE  ContextInv(y, p, k)
<1>. DEFINE m == [cmd |-> 0, type |-> "message"]
<1>1. Sound(x) /\ x \in Contexts /\ x.pubsub
  BY DEF ContextInv, Sound, Contexts
<1>2. /\ y.out = x.out /\ y.wire = x.wire /\ y.due = Append(x.due, m)
      /\ y.subs = x.subs /\ y.pubsub = x.pubsub
      /\ y.reader = x.reader /\ y.lost = x.lost /\ y.inherited = x.inherited
  BY <1>1 DEF Contexts, Told
<1>3. x.due \in Seq(Replies) /\ m \in Replies /\ x.inherited \in Nat
  BY <1>1 DEF Contexts, Replies
<1>4. y.due \in Seq(Replies) /\ Size(y.due) = Size(x.due) + 1
  BY <1>2, <1>3, AppendFacts
<1>5. y \in Contexts
  BY <1>1, <1>2, <1>4 DEF Contexts, Told
<1>6. Sound(y)
  BY <1>1, <1>2, <1>5 DEF Sound
<1>7. Debt(y) = Debt(x) + 1 /\ Debt(x) \in Nat
  <2>1. Size(x.out) \in Nat /\ Size(x.wire) \in Nat /\ Size(x.due) \in Nat
    BY <1>1, <1>3, SizeFacts DEF Sound
  <2>2. Size(y.out) = Size(x.out) /\ Size(y.wire) = Size(x.wire)
    BY <1>2
  <2>. QED
    BY <1>4, <2>1, <2>2 DEF Debt
<1>8. Balanced(y, p, k)
  <2>. SUFFICES ASSUME ~y.reader, ~y.lost
                PROVE  p - y.inherited + Awaits(k) <= Debt(y)
    BY <1>1, <1>2 DEF Balanced
  <2>1. p - x.inherited + Awaits(k) <= Debt(x)
    BY <1>2 DEF ContextInv, Balanced
  <2>2. Awaits(k) \in {0, 1}
    BY DEF Awaits
  <2>3. y.inherited = x.inherited
    BY <1>2
  <2>. QED
    BY <1>3, <1>7, <2>1, <2>2, <2>3
<1>9. Served(y, p, k) /\ LastAwaited(y, k)
  BY <1>1, <1>2 DEF ContextInv, Served, LastAwaited
<1>. QED
  BY <1>6, <1>8, <1>9 DEF ContextInv

\* A broken connection owes nothing any more.
LEMMA LoseKeeps ==
  ASSUME NEW x, NEW p \in Nat, NEW k, ContextInv(x, p, k), NEW y,
         Losing(x, y) \/ (x.lost /\ Dropped(x, y)),
         NEW m \in {k, NULL}
  PROVE  ContextInv(y, p, m)
<1>1. Sound(x) /\ x \in Contexts /\ x.due \in Seq(Replies)
  BY DEF ContextInv, Sound, Contexts
<1>2. /\ y.out = x.out /\ y.lost /\ y.wire \in {x.wire, <<>>}
      /\ y.subs = x.subs /\ y.pubsub = x.pubsub /\ y.reader = x.reader
      /\ y \in Contexts
  <2>1. CASE Dropped(x, y) /\ x.lost
    <3>1. <<>> \in Seq(Replies)
      BY EmptySeq
    <3>. QED
      BY <1>1, <2>1, <3>1 DEF Contexts, Dropped
  <2>2. CASE Losing(x, y)
    <3>1. PICK n \in 0 .. Len(x.due) :
            y = [x EXCEPT !.lost = TRUE, !.wire = <<>>, !.due = SubSeq(@, 1, n)]
      BY <2>2 DEF Losing
    <3>2. \A i \in 1 .. n : x.due[i] \in Replies
      <4>1. Len(x.due) \in Nat /\ n \in Nat /\ n <= Len(x.due)
        BY <1>1, LenProperties
      <4>. QED
        BY <1>1, <4>1, ElementOfSeq
    <3>3. SubSeq(x.due, 1, n) \in Seq(Replies)
      BY <1>1, <3>2, SubSeqProperties
    <3>4. <<>> \in Seq(Commands)
      BY EmptySeq
    <3>. QED
      BY <1>1, <3>1, <3>3, <3>4 DEF Contexts
  <2>. QED
    BY <2>1, <2>2
<1>3. Sound(y)
  BY <1>1, <1>2, EmptySeq DEF Sound
<1>4. Balanced(y, p, m) /\ LastAwaited(y, m)
  BY <1>2 DEF Balanced, LastAwaited
<1>5. Served(y, p, m)
  BY <1>2 DEF ContextInv, Served
<1>. QED
  BY <1>3, <1>4, <1>5 DEF ContextInv

\* The oldest reply is handed out: to the call that awaits it, or to one that the
\* counter is for, or to getMessage.
LEMMA TakeKeeps ==
  ASSUME NEW x, NEW p \in Nat, NEW k \in Calls, ContextInv(x, p, k),
         NEW y, Taken(x, y), NEW q, NEW m,
         \/ k.op \in {"sync", "unsubscribe", "getMessage"} /\ q = p /\ m = NULL
         \/ k.op \in {"getReply", "getReplyMass"} /\ q = p - 1 /\ m = NULL
         \/ k.op = "getReplyMass" /\ q = p - 1 /\ p > 1 /\ m = k
  PROVE  q \in Nat /\ ContextInv(y, q, m)
<1>1. Sound(x) /\ x \in Contexts /\ x.due \in Seq(Replies) /\ x.inherited \in Nat
  BY DEF ContextInv, Sound, Contexts
<1>2. /\ y.out = x.out /\ y.wire = x.wire /\ y.due = Tail(x.due)
      /\ y.subs = x.subs /\ y.pubsub = x.pubsub
      /\ y.reader = x.reader /\ y.lost = x.lost /\ y.inherited = x.inherited
  BY <1>1 DEF Contexts, Taken
<1>3. /\ y.due \in Seq(Replies) /\ Size(y.due) = Size(x.due) - 1
      /\ Size(x.due) \in Nat \ {0}
  <2>1. x.due # <<>>
    BY DEF Taken
  <2>. QED
    BY <1>1, <1>2, <2>1, TailFacts
<1>4. y \in Contexts
  BY <1>1, <1>2, <1>3 DEF Contexts, Taken
<1>5. Sound(y)
  BY <1>1, <1>2, <1>4 DEF Sound
<1>6. k # NULL
  BY NullAssumption
<1>7. q \in Nat /\ Served(y, q, m)
  <2>1. /\ k.op \in {"getReply", "getReplyMass"} => p > 0
        /\ k.op = "getMessage" => x.reader
    BY <1>6 DEF ContextInv, Served
  <2>. QED
    BY <1>2, <2>1 DEF Served
<1>8. Debt(y) = Debt(x) - 1 /\ Debt(x) \in Nat
  <2>1. Size(x.out) \in Nat /\ Size(x.wire) \in Nat
    BY <1>1, SizeFacts DEF Sound
  <2>2. Size(y.out) = Size(x.out) /\ Size(y.wire) = Size(x.wire)
    BY <1>2
  <2>. QED
    BY <1>3, <2>1, <2>2 DEF Debt
<1>9. Balanced(y, q, m)
  <2>. SUFFICES ASSUME ~y.reader, ~y.lost
                PROVE  /\ q - y.inherited + Awaits(m) <= Debt(y)
                       /\ ~y.pubsub => q - y.inherited + Awaits(m) = Debt(y)
    BY DEF Balanced
  <2>1. /\ p - x.inherited + Awaits(k) <= Debt(x)
        /\ ~x.pubsub => p - x.inherited + Awaits(k) = Debt(x)
    BY <1>2 DEF ContextInv, Balanced
  <2>2. k.op # "getMessage"
    BY <1>2, <1>6 DEF ContextInv, Served
  <2>3. q + Awaits(m) = p + Awaits(k) - 1 /\ Awaits(m) \in Nat /\ Awaits(k) \in Nat
    BY <1>6, <2>2 DEF Awaits
  <2>4. y.inherited = x.inherited /\ y.pubsub = x.pubsub
    BY <1>2
  <2>5. x.inherited \in Nat /\ q \in Nat
    BY <1>1, <1>7
  <2>6. p - x.inherited + Awaits(k) \in Int
    BY <2>3, <2>5
  <2>7. q - x.inherited + Awaits(m) = (p - x.inherited + Awaits(k)) - 1
    BY <2>3, <2>5
  <2>. QED
    BY <1>8, <2>1, <2>4, <2>6, <2>7
<1>10. LastAwaited(y, m)
  BY DEF LastAwaited
<1>. QED
  BY <1>5, <1>7, <1>9, <1>10 DEF ContextInv

-----------------------------------------------------------------------------
(* The steps.                                                              *)

Slot == [exists : BOOLEAN, pending : Nat]

\* A step that touches no context, no counter and no call.
LEMMA QuietStep ==
  ASSUME IInv, UNCHANGED <<c, call, issued, crashed>>,
         pipel' \in [Slots -> Slot],
         \A i \in Slots : pipel'[i].pending = pipel[i].pending,
         ret' \in Results
  PROVE  IInv'
<1>1. TypeOK'
  BY DEF IInv, TypeOK, Slot
<1>2. ASSUME NEW i \in Slots PROVE SlotInv(i)'
  <2>1. SlotInv(i) /\ CallOf(i)' = CallOf(i)
    BY DEF IInv, CallOf
  <2>. QED
    BY <2>1 DEF SlotInv
<1>. QED
  BY <1>1, <1>2 DEF IInv

\* A step that touches what belongs to one slot.
LEMMA SlotStep ==
  ASSUME IInv, NEW i \in Slots, NEW y \in Contexts \cup {NULL},
         c' = [c EXCEPT ![i] = y],
         pipel' \in [Slots -> Slot],
         \A j \in Slots \ {i} : pipel'[j] = pipel[j],
         call' \in Calls \cup {NULL},
         \A j \in Slots \ {i} : CallOf(j)' = CallOf(j),
         y # NULL => ContextInv(y, pipel'[i].pending, CallOf(i)'),
         y = NULL => CallOf(i)' = NULL,
         ret' \in Results, issued' \in 0 .. MaxCommands, crashed' \in BOOLEAN
  PROVE  IInv'
<1>1. /\ c \in [Slots -> Contexts \cup {NULL}]
      /\ c' \in [Slots -> Contexts \cup {NULL}]
      /\ c'[i] = y
      /\ \A j \in Slots \ {i} : c'[j] = c[j]
  BY DEF IInv, TypeOK
<1>2. call' # NULL => c'[call'.slot] # NULL
  <2>. SUFFICES ASSUME call' # NULL PROVE c'[call'.slot] # NULL
    OBVIOUS
  <2>1. PICK s \in Slots : s = call'.slot
    BY DEF Calls
  <2>2. CASE s = i
    <3>1. CallOf(i)' = call'
      BY <2>1, <2>2 DEF CallOf
    <3>. QED
      BY <1>1, <2>1, <2>2, <3>1
  <2>3. CASE s # i
    <3>1. CallOf(s)' = call'
      BY <2>1 DEF CallOf
    <3>2. CallOf(s) = call'
      BY <2>3, <3>1
    <3>3. call # NULL /\ call.slot = s
      BY <3>2 DEF CallOf
    <3>4. c[s] # NULL
      BY <3>3 DEF IInv, TypeOK
    <3>. QED
      BY <1>1, <2>1, <2>3, <3>4
  <2>. QED
    BY <2>2, <2>3
<1>3. TypeOK'
  BY <1>1, <1>2 DEF TypeOK, Slot
<1>4. ASSUME NEW j \in Slots PROVE SlotInv(j)'
  <2>1. CASE j = i
    BY <1>1, <2>1 DEF SlotInv
  <2>2. CASE j # i
    <3>1. SlotInv(j)
      BY DEF IInv
    <3>. QED
      BY <1>1, <2>2, <3>1 DEF SlotInv
  <2>. QED
    BY <2>1, <2>2
<1>. QED
  BY <1>3, <1>4 DEF IInv

\* What the invariant says of the slot a step is about.
LEMMA InvFacts ==
  ASSUME IInv
  PROVE  /\ c \in [Slots -> Contexts \cup {NULL}]
         /\ pipel \in [Slots -> Slot]
         /\ call \in Calls \cup {NULL}
         /\ ret \in Results /\ issued \in Nat /\ issued \in 0 .. MaxCommands
         /\ crashed \in BOOLEAN
         /\ call # NULL => call.slot \in Slots /\ c[call.slot] # NULL
                          /\ CallOf(call.slot) = call
         /\ \A i \in Slots : c[i] # NULL =>
              /\ c[i] \in Contexts
              /\ ContextInv(c[i], pipel[i].pending, CallOf(i))
         /\ \A i \in Slots : pipel[i].pending \in Nat
BY DEF IInv, TypeOK, Slot, SlotInv, CallOf, Calls

\* The numbers the extension makes up are outcomes.
LEMMA MadeFacts == \A t \in {"error", "ok", "discarded"} : Made(t) \in Outcomes
BY DEF Made, Outcomes

\* The initial states satisfy the invariant.
LEMMA InitInv == Init => IInv
<1>. SUFFICES ASSUME Init PROVE IInv
  OBVIOUS
<1>1. ret \in Results
  BY MadeFacts DEF Init, Results
<1>2. 0 \in 0 .. MaxCommands
  BY RedisAssumption
<1>3. TypeOK
  BY <1>1, <1>2 DEF Init, TypeOK
<1>. QED
  BY <1>3 DEF Init, IInv, SlotInv

\* A context is made or freed.
LEMMA ConnectionSteps ==
  ASSUME IInv
  PROVE  /\ Connect => IInv'
         /\ ConnectFull => IInv'
         /\ \A h \in Handles : Refuse(h) \/ NothingPending(h) => IInv'
         /\ \A h \in Handles : Disconnect(h) => IInv'
         /\ \A h \in Handles : Pipeline(h) => IInv'
<1>1. ASSUME Connect PROVE IInv'
  <2>1. PICK i \in Slots :
          /\ c[i] = NULL
          /\ \/ c' = [c EXCEPT ![i] = NewContext(i)] /\ Return("connect", 0, Made("ok"))
             \/ UNCHANGED c /\ Return("connect", 0, Made("error"))
    BY <1>1 DEF Connect
  <2>2. call = NULL /\ UNCHANGED <<pipel, call, issued, crashed>>
    BY <1>1 DEF Connect, Running
  <2>3. ret' \in Results
    BY <2>1, MadeFacts DEF Return, Results
  <2>4. CASE c' = [c EXCEPT ![i] = NewContext(i)]
    <3>1. ContextInv(NewContext(i), pipel[i].pending, NULL)
      BY InvFacts, NewKeeps DEF NewContext
    <3>2. NewContext(i) \in Contexts
      BY <3>1 DEF ContextInv, Sound
    <3>3. \A j \in Slots : CallOf(j)' = NULL /\ CallOf(j) = NULL
      BY <2>2 DEF CallOf
    <3>. QED
      BY <2>2, <2>3, <2>4, <3>1, <3>2, <3>3, SlotStep, InvFacts
  <2>5. CASE UNCHANGED c
    BY <2>2, <2>3, <2>5, QuietStep, InvFacts
  <2>. QED
    BY <2>1, <2>4, <2>5
<1>2. ASSUME ConnectFull PROVE IInv'
  <2>1. ret' \in Results
    BY <1>2, MadeFacts DEF Return, Results, ConnectFull
  <2>. QED
    BY <1>2, <2>1, QuietStep, InvFacts DEF ConnectFull
<1>3. ASSUME NEW h \in Handles, Refuse(h) \/ NothingPending(h) PROVE IInv'
  <2>1. ret' \in Results
    BY <1>3, MadeFacts DEF Return, Results, Refuse, NothingPending
  <2>. QED
    BY <1>3, <2>1, QuietStep, InvFacts DEF Refuse, NothingPending
<1>4. ASSUME NEW h \in Handles, Disconnect(h) PROVE IInv'
  <2>1. ret' \in Results
    BY <1>4, MadeFacts DEF Return, Results, Disconnect
  <2>2. /\ h \in Slots /\ call = NULL /\ c' = [c EXCEPT ![h] = NULL]
        /\ UNCHANGED <<pipel, call, issued, crashed>>
    BY <1>4 DEF Disconnect, Running
  <2>3. \A j \in Slots : CallOf(j)' = NULL /\ CallOf(j) = NULL
    BY <2>2 DEF CallOf
  <2>. QED
    BY <2>1, <2>2, <2>3, SlotStep, InvFacts
<1>5. ASSUME NEW h \in Handles, Pipeline(h) PROVE IInv'
  <2>1. ret' \in Results
    BY <1>5, MadeFacts DEF Return, Results, Pipeline
  <2>2. /\ pipel' \in [Slots -> Slot]
        /\ \A i \in Slots : pipel'[i].pending = pipel[i].pending
    <3>1. pipel' = [i \in Slots |-> IF i = h /\ ~pipel[h].exists
                                    THEN [pipel[h] EXCEPT !.exists = TRUE]
                                    ELSE pipel[i]]
      BY <1>5, InvFacts DEF Pipeline, Slot
    <3>2. /\ [pipel[h] EXCEPT !.exists = TRUE] \in Slot
          /\ [pipel[h] EXCEPT !.exists = TRUE].pending = pipel[h].pending
      <4>1. pipel[h] \in Slot
        BY <1>5, InvFacts DEF Pipeline
      <4>. QED
        BY <4>1 DEF Slot
    <3>. QED
      BY <3>1, <3>2, InvFacts
  <2>. QED
    BY <1>5, <2>1, <2>2, QuietStep DEF Pipeline
<1>. QED
  BY <1>1, <1>2, <1>3, <1>4, <1>5

\* A command appended to a context.
LEMMA IssueStep ==
  ASSUME IInv, call = NULL, NEW i \in Slots, c[i] # NULL,
         NEW op, NEW S, [cmd |-> issued + 1, op |-> op, channels |-> S] \in Sent,
         Issue(i, op, S), NEW q \in Nat, NEW k \in Calls \cup {NULL},
         \/ q = pipel[i].pending + 1 /\ k = NULL
         \/ /\ q = pipel[i].pending /\ k \in Calls /\ k.op \in {"sync", "unsubscribe"}
            /\ k.op = "sync" =>
                 k.cmd = issued + 1 /\ (k.mode = op \/ op = "subscribe")
            /\ k.op = "unsubscribe" => op = "unsubscribe"
  PROVE  /\ issued' \in 0 .. MaxCommands
         /\ \E y \in Contexts : c' = [c EXCEPT ![i] = y] /\ ContextInv(y, q, k)
<1>. DEFINE e == [cmd |-> issued + 1, op |-> op, channels |-> S]
            y == [c[i] EXCEPT !.out = Append(@, e),
                              !.pubsub = @ \/ op \in {"subscribe", "unsubscribe"}]
<1>1. issued' \in 0 .. MaxCommands
  BY InvFacts, RedisAssumption DEF Issue
<1>2. c[i] \in Contexts /\ ContextInv(c[i], pipel[i].pending, NULL)
  BY InvFacts DEF CallOf
<1>3. e.op = op /\ e.cmd = issued + 1
  OBVIOUS
<1>4. Issued(c[i], y, e)
  BY <1>3 DEF Issued
<1>5. c' = [c EXCEPT ![i] = y]
  BY <1>2, InvFacts DEF Issue, Contexts
<1>. HIDE DEF y, e
<1>6. ContextInv(y, q, k)
  BY <1>2, <1>3, <1>4, IssueKeeps, InvFacts DEF e
<1>7. y \in Contexts
  BY <1>6 DEF ContextInv, Sound
<1>. QED
  BY <1>1, <1>5, <1>6, <1>7

\* The functions that send a command.
LEMMA CommandSteps ==
  ASSUME IInv, NEW h \in Handles, NEW op, NEW S \in SUBSET Channels,
         \/ op \in {"value", "array", "unsubscribe"}
         \/ op = "subscribe" /\ S \in NonEmpty
  PROVE  /\ PipedCommand(h, op, S) => IInv'
         /\ \A mode \in {"value", "array"} :
              /\ mode = op \/ op = "subscribe"
              /\ SyncCommand(h, op, S, mode)
              => IInv'
         /\ Unsubscribe(h, S) => IInv'
<1>1. /\ [cmd |-> issued + 1, op |-> op, channels |-> S] \in Sent
      /\ [cmd |-> issued + 1, op |-> "unsubscribe", channels |-> S] \in Sent
  BY InvFacts DEF Sent
<1>2. ASSUME PipedCommand(h, op, S) PROVE IInv'
  <2>0. PICK i \in Slots : i = SlotOf(h)
    BY <1>2 DEF PipedCommand, ValidConn
  <2>1. /\ i \in Slots /\ c[i] # NULL /\ call = NULL /\ Issue(i, op, S)
        /\ pipel' = [pipel EXCEPT ![i].pending = @ + 1]
        /\ UNCHANGED <<call, crashed>>
    BY <1>2, <2>0 DEF PipedCommand, ValidConn, Running
  <2>2. ret' \in Results
    BY <1>2, InvFacts, MadeFacts DEF PipedCommand, Return, Results
  <2>3. /\ pipel' \in [Slots -> Slot]
        /\ pipel'[i].pending = pipel[i].pending + 1
        /\ \A j \in Slots \ {i} : pipel'[j] = pipel[j]
    <3>1. [pipel[i] EXCEPT !.pending = @ + 1] \in Slot
      BY <2>1, InvFacts DEF Slot
    <3>2. pipel' = [j \in Slots |-> IF j = i THEN [pipel[i] EXCEPT !.pending = @ + 1]
                                    ELSE pipel[j]]
      BY <2>1, InvFacts DEF Slot
    <3>3. [pipel[i] EXCEPT !.pending = @ + 1].pending = pipel[i].pending + 1
      BY <2>1, InvFacts DEF Slot
    <3>. QED
      BY <2>1, <3>1, <3>2, <3>3, InvFacts
  <2>4. /\ issued' \in 0 .. MaxCommands
        /\ \E y \in Contexts : /\ c' = [c EXCEPT ![i] = y]
                               /\ ContextInv(y, pipel'[i].pending, NULL)
    <3>1. pipel'[i].pending \in Nat
      BY <2>1, <2>3, InvFacts
    <3>. QED
      BY <1>1, <2>1, <2>3, <3>1, IssueStep
  <2>5. \A j \in Slots : CallOf(j)' = NULL /\ CallOf(j) = NULL
    BY <2>1 DEF CallOf
  <2>6. call' \in Calls \cup {NULL} /\ crashed' \in BOOLEAN
    BY <2>1, InvFacts
  <2>7. PICK y \in Contexts : /\ c' = [c EXCEPT ![i] = y]
                             /\ ContextInv(y, pipel'[i].pending, NULL)
    BY <2>4
  <2>8. /\ \A j \in Slots \ {i} : CallOf(j)' = CallOf(j)
        /\ y # NULL /\ ContextInv(y, pipel'[i].pending, CallOf(i)')
    BY <2>1, <2>5, <2>7, NullAssumption
  <2>9. issued' \in 0 .. MaxCommands
    BY <2>4
  <2>. QED
    BY <2>1, <2>2, <2>3, <2>6, <2>7, <2>8, <2>9, SlotStep
<1>3. ASSUME NEW mode \in {"value", "array"}, NEW o \in {"sync", "unsubscribe"},
             NEW p, [cmd |-> issued + 1, op |-> p, channels |-> S] \in Sent,
             o = "sync" => mode = p \/ p = "subscribe",
             o = "unsubscribe" => p = "unsubscribe",
             Running, ValidConn(h), Issue(SlotOf(h), p, S),
             Block(o, SlotOf(h), issued + 1, mode),
             UNCHANGED <<pipel, ret, crashed>>
      PROVE  IInv'
  <2>0. PICK i \in Slots : i = SlotOf(h)
    BY <1>3 DEF ValidConn
  <2>. DEFINE k == [op |-> o, slot |-> i, cmd |-> issued + 1, mode |-> mode]
  <2>1. /\ i \in Slots /\ c[i] # NULL /\ call = NULL /\ Issue(i, p, S)
        /\ call' = k
    BY <1>3, <2>0 DEF ValidConn, Running, Block
  <2>2. k \in Calls /\ k # NULL
    BY <2>1, NullAssumption, InvFacts DEF Calls
  <2>3. k.op = o /\ k.cmd = issued + 1 /\ k.mode = mode /\ k.slot = i
    OBVIOUS
  <2>. HIDE DEF k
  <2>4. /\ issued' \in 0 .. MaxCommands
        /\ \E y \in Contexts : /\ c' = [c EXCEPT ![i] = y]
                               /\ ContextInv(y, pipel[i].pending, k)
    BY <1>3, <2>1, <2>2, <2>3, IssueStep, InvFacts
  <2>5. CallOf(i)' = k /\ \A j \in Slots \ {i} : CallOf(j)' = NULL /\ CallOf(j) = NULL
    BY <2>1, <2>2, <2>3 DEF CallOf
  <2>6. /\ ret' \in Results /\ crashed' \in BOOLEAN
        /\ pipel' = pipel /\ pipel \in [Slots -> Slot]
    BY <1>3, InvFacts
  <2>. QED
    BY <2>1, <2>2, <2>4, <2>5, <2>6, SlotStep, NullAssumption
<1>4. ASSUME NEW mode \in {"value", "array"}, mode = op \/ op = "subscribe",
             SyncCommand(h, op, S, mode)
      PROVE  IInv'
  BY <1>1, <1>3, <1>4 DEF SyncCommand
<1>5. ASSUME Unsubscribe(h, S) PROVE IInv'
  BY <1>1, <1>3, <1>5 DEF Unsubscribe
<1>. QED
  BY <1>2, <1>4, <1>5

\* The functions that send nothing and read replies.
LEMMA ReaderSteps ==
  ASSUME IInv, NEW h \in Handles
  PROVE  /\ GetMessage(h) => IInv'
         /\ \A mode \in {"value", "array"} : GetReply(h, mode) => IInv'
         /\ GetReplyMass(h) => IInv'
<1>1. ASSUME NEW mode \in {"value", "array"},
             NEW o \in {"getMessage", "getReply", "getReplyMass"}, NEW y,
             Running, ValidConn(h), Block(o, SlotOf(h), 0, mode),
             c' = [c EXCEPT ![SlotOf(h)] = y],
             \/ /\ y = c[SlotOf(h)] /\ pipel[SlotOf(h)].pending > 0
                /\ o \in {"getReply", "getReplyMass"}
             \/ y = [c[SlotOf(h)] EXCEPT !.reader = TRUE] /\ o = "getMessage",
             UNCHANGED <<pipel, ret, issued, crashed>>
      PROVE  IInv'
  <2>0. PICK i \in Slots : i = SlotOf(h)
    BY <1>1 DEF ValidConn
  <2>. DEFINE k == [op |-> o, slot |-> i, cmd |-> 0, mode |-> mode]
  <2>1. i \in Slots /\ c[i] # NULL /\ call = NULL /\ call' = k
    BY <1>1, <2>0 DEF ValidConn, Running, Block
  <2>2. k \in Calls /\ k # NULL
    BY <2>1, NullAssumption DEF Calls
  <2>3. k.op = o /\ k.slot = i
    OBVIOUS
  <2>4. \/ y = c[i] /\ pipel[i].pending > 0 /\ o \in {"getReply", "getReplyMass"}
        \/ y = [c[i] EXCEPT !.reader = TRUE] /\ o = "getMessage"
    BY <1>1, <2>0
  <2>5. c' = [c EXCEPT ![i] = y]
    BY <1>1, <2>0
  <2>. HIDE DEF k
  <2>6. c[i] \in Contexts /\ ContextInv(c[i], pipel[i].pending, NULL)
    BY <2>1, InvFacts DEF CallOf
  <2>7. ContextInv(y, pipel[i].pending, k)
    BY <2>1, <2>2, <2>3, <2>4, <2>6, BlockKeeps, InvFacts
  <2>8. y \in Contexts
    BY <2>7 DEF ContextInv, Sound
  <2>9. CallOf(i)' = k /\ \A j \in Slots \ {i} : CallOf(j)' = NULL /\ CallOf(j) = NULL
    BY <2>1, <2>2, <2>3 DEF CallOf
  <2>10. /\ ret' \in Results /\ crashed' \in BOOLEAN /\ issued' \in 0 .. MaxCommands
         /\ pipel' = pipel /\ pipel \in [Slots -> Slot]
    BY <1>1, InvFacts
  <2>. QED
    BY <2>1, <2>2, <2>5, <2>7, <2>8, <2>9, <2>10, SlotStep, NullAssumption
<1>2. ASSUME GetMessage(h) PROVE IInv'
  <2>1. SlotOf(h) \in Slots /\ c[SlotOf(h)] \in Contexts
    BY <1>2, InvFacts DEF GetMessage, ValidConn
  <2>2. c' = [c EXCEPT ![SlotOf(h)] = [c[SlotOf(h)] EXCEPT !.reader = TRUE]]
    BY <1>2 DEF GetMessage
  <2>. QED
    BY <1>1, <1>2, <2>2 DEF GetMessage
<1>3. ASSUME NEW mode \in {"value", "array"}, GetReply(h, mode) \/ GetReplyMass(h)
      PROVE  IInv'
  <2>1. c' = [c EXCEPT ![SlotOf(h)] = c[SlotOf(h)]]
    BY <1>3, InvFacts DEF GetReply, GetReplyMass, ValidConn
  <2>. QED
    BY <1>1, <1>3, <2>1 DEF GetReply, GetReplyMass
<1>. QED
  BY <1>2, <1>3

\* A step of server and network replaces the context of one slot.
LEMMA ContextStep ==
  ASSUME IInv, NEW i \in Slots, c[i] # NULL, NEW y, c' = [c EXCEPT ![i] = y],
         ContextInv(y, pipel[i].pending, CallOf(i)),
         UNCHANGED <<pipel, call, ret, issued, crashed>>
  PROVE  IInv'
<1>1. y \in Contexts
  BY DEF ContextInv, Sound
<1>2. /\ pipel' = pipel /\ pipel \in [Slots -> Slot] /\ call' \in Calls \cup {NULL}
      /\ ret' \in Results /\ issued' \in 0 .. MaxCommands /\ crashed' \in BOOLEAN
  BY InvFacts
<1>3. \A j \in Slots : CallOf(j)' = CallOf(j)
  BY DEF CallOf
<1>4. y # NULL
  BY <1>1, NullAssumption
<1>. QED
  BY <1>1, <1>2, <1>3, <1>4, SlotStep

\* What the server and the network do.
LEMMA NetworkSteps ==
  ASSUME IInv, NEW i \in Slots
  PROVE  /\ Flush(i) => IInv'
         /\ Serve(i) => IInv'
         /\ Publish(i) => IInv'
         /\ Lose(i) => IInv'
<1>0. c[i] # NULL => /\ c[i] \in Contexts /\ pipel[i].pending \in Nat
                     /\ ContextInv(c[i], pipel[i].pending, CallOf(i))
  BY InvFacts
<1>1. CallOf(i) \in Calls \cup {NULL}
  BY InvFacts DEF CallOf
<1>2. ASSUME Flush(i) PROVE IInv'
  <2>. DEFINE y == [c[i] EXCEPT !.wire = @ \o c[i].out, !.out = <<>>]
  <2>1. call # NULL /\ call.slot = i /\ UNCHANGED <<pipel, call, ret, issued, crashed>>
    BY <1>2 DEF Flush, Blocked
  <2>2. c[i] # NULL /\ CallOf(i) \in Calls
    BY <2>1, InvFacts DEF CallOf
  <2>3. c' = [c EXCEPT ![i] = y]
    BY <1>0, <1>2, <2>2, InvFacts DEF Flush, Contexts
  <2>4. c[i].out # <<>> /\ Flushed(c[i], y)
    BY <1>2 DEF Flush, Flushed
  <2>. HIDE DEF y
  <2>5. ContextInv(y, pipel[i].pending, CallOf(i))
    BY <1>0, <2>2, <2>4, FlushKeeps
  <2>. QED
    BY <2>1, <2>2, <2>3, <2>5, ContextStep
<1>3. ASSUME Serve(i) PROVE IInv'
  <2>. DEFINE y == [c[i] EXCEPT !.wire = Tail(@),
                                !.due = @ \o Answer(Head(c[i].wire), c[i].subs),
                                !.subs = SubsAfter(Head(c[i].wire), c[i].subs)]
  <2>1. c[i] # NULL /\ UNCHANGED <<pipel, call, ret, issued, crashed>>
    BY <1>3 DEF Serve
  <2>2. c' = [c EXCEPT ![i] = y]
    BY <1>0, <1>3, <2>1, InvFacts DEF Serve, Contexts
  <2>3. c[i].wire # <<>> /\ Answering(c[i], y)
    BY <1>3 DEF Serve, Answering
  <2>. HIDE DEF y
  <2>4. ContextInv(y, pipel[i].pending, CallOf(i))
    BY <1>0, <1>1, <2>1, <2>3, ServeKeeps
  <2>. QED
    BY <2>1, <2>2, <2>4, ContextStep
<1>4. ASSUME Publish(i) PROVE IInv'
  <2>. DEFINE y == [c[i] EXCEPT !.due = Append(@, [cmd |-> 0, type |-> "message"])]
  <2>1. c[i] # NULL /\ UNCHANGED <<pipel, call, ret, issued, crashed>>
    BY <1>4 DEF Publish
  <2>2. c' = [c EXCEPT ![i] = y]
    BY <1>4 DEF Publish
  <2>3. c[i].subs # {} /\ Told(c[i], y)
    BY <1>4 DEF Publish, Told
  <2>. HIDE DEF y
  <2>4. ContextInv(y, pipel[i].pending, CallOf(i))
    BY <1>0, <2>1, <2>3, PublishKeeps
  <2>. QED
    BY <2>1, <2>2, <2>4, ContextStep
<1>5. ASSUME Lose(i) PROVE IInv'
  <2>1. c[i] # NULL /\ UNCHANGED <<pipel, call, ret, issued, crashed>>
    BY <1>5 DEF Lose
  <2>2. PICK n \in 0 .. Len(c[i].due) :
          c' = [c EXCEPT ![i].lost = TRUE, ![i].wire = <<>>,
                         ![i].due = SubSeq(@, 1, n)]
    BY <1>5 DEF Lose
  <2>. DEFINE y == [c[i] EXCEPT !.lost = TRUE, !.wire = <<>>,
                                !.due = SubSeq(@, 1, n)]
  <2>3. c' = [c EXCEPT ![i] = y]
    BY <1>0, <2>1, <2>2, InvFacts DEF Contexts
  <2>4. Losing(c[i], y)
    BY DEF Losing
  <2>. HIDE DEF y
  <2>5. ContextInv(y, pipel[i].pending, CallOf(i))
    BY <1>0, <2>1, <2>4, LoseKeeps
  <2>. QED
    BY <2>1, <2>3, <2>5, ContextStep
<1>. QED
  BY <1>2, <1>3, <1>4, <1>5

\* The blocked call takes the oldest reply of its context.
LEMMA TakeStep ==
  ASSUME IInv, call # NULL, NEW i \in Slots, i = call.slot, c[i].due # <<>>, TakeOldest,
         NEW q, q \in Nat => pipel' \in [Slots -> Slot],
         pipel'[i].pending = q, \A j \in Slots \ {i} : pipel'[j] = pipel[j],
         \/ /\ call.op \in {"sync", "unsubscribe", "getMessage"}
            /\ q = pipel[i].pending /\ call' = NULL
         \/ /\ call.op \in {"getReply", "getReplyMass"}
            /\ q = pipel[i].pending - 1 /\ call' = NULL
         \/ /\ call.op = "getReplyMass"
            /\ q = pipel[i].pending - 1 /\ pipel[i].pending > 1 /\ call' = call,
         ret' \in Results, UNCHANGED <<issued, crashed>>
  PROVE  IInv'
<1>. DEFINE y == [c[i] EXCEPT !.due = Tail(@)]
<1>1. c[i] # NULL /\ CallOf(i) = call /\ call \in Calls
  BY InvFacts
<1>2. c' = [c EXCEPT ![i] = y]
  BY DEF TakeOldest
<1>3. Taken(c[i], y)
  BY DEF Taken
<1>. HIDE DEF y
<1>4. ContextInv(c[i], pipel[i].pending, call) /\ pipel[i].pending \in Nat
  BY <1>1, InvFacts
<1>5. call' \in {NULL, call}
  OBVIOUS
<1>6. q \in Nat /\ ContextInv(y, q, call')
  BY <1>1, <1>3, <1>4, TakeKeeps
<1>7. /\ CallOf(i)' = call'
      /\ \A j \in Slots \ {i} : CallOf(j)' = NULL /\ CallOf(j) = NULL
  BY <1>5 DEF CallOf
<1>8. y \in Contexts
  BY <1>6 DEF ContextInv, Sound
<1>9. /\ issued' \in 0 .. MaxCommands /\ crashed' \in BOOLEAN
      /\ call' \in Calls \cup {NULL}
  BY <1>1, <1>5, InvFacts
<1>. QED
  BY <1>2, <1>6, <1>7, <1>8, <1>9, SlotStep, NullAssumption

\* The replies the blocked call reads are replies, and so are outcomes.
LEMMA OldestFacts ==
  ASSUME IInv, call # NULL, c[call.slot].due # <<>>
  PROVE  /\ Oldest \in Outcomes
         /\ call.cmd \in Nat
<1>1. c[call.slot] \in Contexts
  BY InvFacts
<1>2. c[call.slot].due \in Seq(Replies)
  BY <1>1 DEF Contexts
<1>3. Oldest \in Replies
  BY <1>2, TailFacts DEF Oldest
<1>. QED
  BY <1>3, InvFacts DEF Outcomes, Calls

\* The blocked call reads a reply.
LEMMA ReplySteps ==
  ASSUME IInv
  PROVE  /\ ReturnReply("sync") \/ ReturnReply("getMessage") => IInv'
         /\ ReturnUnsubscribe => IInv'
         /\ ReturnGetReply => IInv'
         /\ DrainOne => IInv'
<1>1. ASSUME ReturnReply("sync") \/ ReturnReply("getMessage") PROVE IInv'
  <2>1. /\ call # NULL /\ c[call.slot].due # <<>> /\ TakeOldest
        /\ call.op \in {"sync", "unsubscribe", "getMessage"} /\ call' = NULL
        /\ UNCHANGED <<pipel, issued, crashed>>
    BY <1>1 DEF ReturnReply, Readable
  <2>2. ret' \in Results
    BY <1>1, <2>1, OldestFacts DEF ReturnReply, Return, Results
  <2>3. PICK i \in Slots : i = call.slot
    BY <2>1, InvFacts
  <2>. QED
    BY <2>1, <2>2, <2>3, TakeStep, InvFacts
<1>2. ASSUME ReturnUnsubscribe PROVE IInv'
  <2>1. /\ call # NULL /\ c[call.slot].due # <<>> /\ TakeOldest
        /\ call.op \in {"sync", "unsubscribe", "getMessage"} /\ call' = NULL
        /\ UNCHANGED <<pipel, issued, crashed>>
    BY <1>2 DEF ReturnUnsubscribe, Readable
  <2>2. ret' \in Results
    BY <1>2, <2>1, OldestFacts, MadeFacts DEF ReturnUnsubscribe, Return, Results
  <2>3. PICK i \in Slots : i = call.slot
    BY <2>1, InvFacts
  <2>. QED
    BY <2>1, <2>2, <2>3, TakeStep, InvFacts
<1>3. ASSUME ReturnGetReply \/ DrainOne PROVE IInv'
  <2>1. /\ call # NULL /\ c[call.slot].due # <<>> /\ TakeOldest
        /\ call.op \in {"getReply", "getReplyMass"}
        /\ pipel' = [pipel EXCEPT ![call.slot].pending = @ - 1]
        /\ UNCHANGED <<issued, crashed>>
        /\ call' = NULL \/ (call' = call /\ call.op = "getReplyMass"
                               /\ pipel[call.slot].pending > 1)
    BY <1>3 DEF ReturnGetReply, DrainOne, Readable
  <2>2. ret' \in Results
    <3>1. CASE ReturnGetReply
      BY <2>1, <3>1, OldestFacts, MadeFacts DEF ReturnGetReply, Return, Results
    <3>2. CASE DrainOne
      BY <3>2, InvFacts, MadeFacts DEF DrainOne, Return, Results
    <3>. QED
      BY <1>3, <3>1, <3>2
  <2>3. PICK i \in Slots : i = call.slot
    BY <2>1, InvFacts
  <2>. DEFINE q == pipel[i].pending - 1
              r == [pipel[i] EXCEPT !.pending = @ - 1]
  <2>4. r.pending = q /\ (q \in Nat => r \in Slot)
    BY InvFacts DEF Slot
  <2>5. pipel' = [j \in Slots |-> IF j = i THEN r ELSE pipel[j]]
    BY <2>1, <2>3, InvFacts DEF Slot
  <2>. HIDE DEF r
  <2>6. /\ q \in Nat => pipel' \in [Slots -> Slot]
        /\ pipel'[i].pending = q
        /\ \A j \in Slots \ {i} : pipel'[j] = pipel[j]
    BY <2>4, <2>5, InvFacts
  <2>. QED
    BY <2>1, <2>2, <2>3, <2>6, TakeStep
<1>. QED
  BY <1>1, <1>2, <1>3

\* The blocked call learns that there will be no reply.
LEMMA FailSteps ==
  ASSUME IInv
  PROVE  FailValue \/ FailArray \/ FailUnsubscribe \/ FailReader => IInv'
<1>1. ASSUME FailValue \/ FailArray \/ FailUnsubscribe PROVE IInv'
  <2>1. /\ call # NULL /\ c[call.slot].lost /\ DropReplies
        /\ call' \in {call, NULL} /\ UNCHANGED <<pipel, issued>>
    BY <1>1 DEF FailValue, FailArray, FailUnsubscribe, Broken
  <2>2. ret' \in Results /\ crashed' \in BOOLEAN
    <3>1. call.cmd \in Nat
      BY <2>1, InvFacts DEF Calls
    <3>2. CASE FailValue \/ FailUnsubscribe
      <4>1. crashed' = crashed
        BY <3>2 DEF FailValue, FailUnsubscribe
      <4>2. \E op \in {"sync", "unsubscribe"}, t \in {"error", "ok"} :
              ret' = [op |-> op, cmd |-> call.cmd, got |-> Made(t)]
        BY <3>2 DEF FailValue, FailUnsubscribe, Return
      <4>3. ret' \in Results
        BY <3>1, <4>2, MadeFacts DEF Results
      <4>. QED
        BY <4>1, <4>3, InvFacts
    <3>3. CASE FailArray
      BY <3>3, InvFacts DEF FailArray
    <3>. QED
      BY <1>1, <3>2, <3>3
  <2>3. PICK i \in Slots : i = call.slot
    BY <2>1, InvFacts
  <2>. DEFINE y == [c[i] EXCEPT !.due = <<>>]
  <2>4. c' = [c EXCEPT ![i] = y]
    BY <2>1, <2>3 DEF DropReplies
  <2>5. c[i].lost /\ Dropped(c[i], y)
    BY <2>1, <2>3 DEF Dropped
  <2>. HIDE DEF y
  <2>6. ContextInv(c[i], pipel[i].pending, call) /\ pipel[i].pending \in Nat
    BY <2>1, <2>3, InvFacts
  <2>7. ContextInv(y, pipel[i].pending, call')
    BY <2>1, <2>5, <2>6, LoseKeeps
  <2>8. y \in Contexts
    BY <2>7 DEF ContextInv, Sound
  <2>9. /\ CallOf(i)' = call'
        /\ \A j \in Slots \ {i} : CallOf(j)' = NULL /\ CallOf(j) = NULL
    BY <2>1, <2>3 DEF CallOf
  <2>10. /\ pipel' = pipel /\ pipel \in [Slots -> Slot] /\ call' \in Calls \cup {NULL}
         /\ issued' \in 0 .. MaxCommands
    BY <2>1, InvFacts
  <2>. QED
    BY <2>2, <2>4, <2>7, <2>8, <2>9, <2>10, SlotStep, NullAssumption
<1>2. ASSUME FailReader PROVE IInv'
  <2>1. /\ call # NULL /\ c' = [c EXCEPT ![call.slot] = NULL] /\ call' = NULL
        /\ call.op \in {"getReply", "getReplyMass", "getMessage"}
        /\ UNCHANGED <<pipel, issued, crashed>>
    BY <1>2 DEF FailReader, Broken
  <2>2. ret' \in Results
    BY <1>2, <2>1, MadeFacts DEF FailReader, Return, Results
  <2>3. PICK i \in Slots : i = call.slot
    BY <2>1, InvFacts
  <2>4. /\ \A j \in Slots : CallOf(j)' = NULL
        /\ \A j \in Slots \ {i} : CallOf(j) = NULL
    BY <2>1, <2>3 DEF CallOf
  <2>. QED
    BY <2>1, <2>2, <2>3, <2>4, SlotStep, InvFacts
<1>. QED
  BY <1>1, <1>2

\* Every step keeps the invariant.
LEMMA NextInv == IInv /\ [Next]_vars => IInv'
<1>. SUFFICES ASSUME IInv, [Next]_vars PROVE IInv'
  OBVIOUS
<1>1. CASE UNCHANGED vars
  <2>1. UNCHANGED <<c, pipel, call, ret, issued, crashed>>
    BY <1>1 DEF vars
  <2>. QED
    BY <2>1, QuietStep, InvFacts
<1>2. CASE Program
  <2>1. ASSUME NEW h \in Handles, NEW t \in {"value", "array"},
               PipedCommand(h, t, {}) \/ SyncCommand(h, t, {}, t) \/ GetReply(h, t)
        PROVE  IInv'
    BY <2>1, CommandSteps, ReaderSteps
  <2>2. ASSUME NEW h \in Handles, NEW S \in NonEmpty,
               \/ PipedCommand(h, "subscribe", S)
               \/ SyncCommand(h, "subscribe", S, "array")
        PROVE  IInv'
    <3>1. S \in SUBSET Channels
      BY DEF NonEmpty
    <3>. QED
      BY <2>2, <3>1, CommandSteps
  <2>3. ASSUME NEW h \in Handles, NEW S \in SUBSET Channels,
               PipedCommand(h, "unsubscribe", S) \/ Unsubscribe(h, S)
        PROVE  IInv'
    BY <2>3, CommandSteps
  <2>. QED
    BY <1>2, <2>1, <2>2, <2>3, ConnectionSteps, ReaderSteps DEF Program
<1>3. CASE Answered
  BY <1>3, ReplySteps, FailSteps DEF Answered
<1>4. CASE \E i \in Slots : Flush(i) \/ Serve(i) \/ Publish(i) \/ Lose(i)
  BY <1>4, NetworkSteps
<1>. QED
  BY <1>1, <1>2, <1>3, <1>4 DEF Next

\* The invariant holds in every reachable state.
THEOREM Invariance == Spec => []IInv
<1>. QED
  BY InitInv, NextInv, PTL DEF Spec

-----------------------------------------------------------------------------
(* What it says.                                                           *)

\* Contexts, counters, calls and what they return keep their shape, and the call
\* that blocks has a context to read from.
THEOREM TypeCorrect == Spec => []TypeOK
<1>1. IInv => TypeOK
  BY DEF IInv
<1>. QED
  BY <1>1, Invariance, PTL

\* The balance of a slot in the terms of the properties.
LEMMA BalanceOfSlot ==
  ASSUME IInv, NEW i \in Slots, Countable(i)
  PROVE  /\ Counted(i) <= Owed(i)
         /\ Regular(i) => Counted(i) = Owed(i)
<1>1. Balanced(c[i], pipel[i].pending, CallOf(i)) /\ ~c[i].reader /\ ~c[i].lost
  BY InvFacts DEF Countable, ContextInv
<1>2. Waiting(i, {"sync", "unsubscribe"}) = Awaits(CallOf(i))
  BY DEF Waiting, Awaits, CallOf
<1>3. Counted(i) = pipel[i].pending - c[i].inherited + Awaits(CallOf(i))
  BY <1>2 DEF Counted
<1>4. Owed(i) = Debt(c[i])
  BY DEF Owed, Debt, Size
<1>. QED
  BY <1>1, <1>3, <1>4 DEF Balanced, Regular

\* On a regular connection the count of the replies to come is exact, whatever
\* mixture of pipelined and synchronous commands the program issues on whatever
\* number of connections.
THEOREM RepliesCounted == Spec => []RepliesAccountedFor
<1>1. IInv => RepliesAccountedFor
  BY BalanceOfSlot DEF RepliesAccountedFor, Regular
<1>. QED
  BY <1>1, Invariance, PTL

\* With subscriptions there are never fewer replies than the counter says, for
\* any number of channels.
THEOREM RepliesSuffice == Spec => []EnoughReplies
<1>1. IInv => EnoughReplies
  BY BalanceOfSlot DEF EnoughReplies
<1>. QED
  BY <1>1, Invariance, PTL

\* Once no pipelined reply is pending, a synchronous command of a regular
\* connection returns its own reply: it is the only one left to read.
THEOREM DrainedInTurn == Spec => DrainedPipelineAnswersInTurn
<1>. DEFINE InTurn ==
       \A i \in Slots :
         /\ Waiting(i, {"sync"}) = 1 /\ call' = NULL
         /\ Regular(i) /\ pipel[i].pending = 0
         => ret'.got = [cmd |-> call.cmd, type |-> call.mode]
<1>1. IInv /\ [Next]_vars => [InTurn]_vars
  <2>. SUFFICES ASSUME IInv, Next, NEW i \in Slots,
                       Waiting(i, {"sync"}) = 1, call' = NULL,
                       Regular(i), pipel[i].pending = 0
                PROVE  ret'.got = [cmd |-> call.cmd, type |-> call.mode]
    OBVIOUS
  <2>1. call # NULL /\ call.slot = i /\ call.op = "sync" /\ call \in Calls
    BY InvFacts DEF Waiting
  <2>2. c[i] # NULL /\ ~c[i].reader /\ ~c[i].lost /\ ~c[i].pubsub /\ c[i] \in Contexts
    BY InvFacts DEF Regular, Countable
  <2>3. ReturnReply("sync")
    <3>1. ~Program
      BY <2>1 DEF Program, Connect, ConnectFull, Refuse, Disconnect, Pipeline,
        GetMessage, NothingPending, GetReplyMass, PipedCommand, SyncCommand,
        GetReply, Unsubscribe, Running
    <3>2. \A j \in Slots : ~(Flush(j) \/ Serve(j) \/ Publish(j) \/ Lose(j))
      BY <2>1 DEF Flush, Serve, Publish, Lose
    <3>3. Answered
      BY <3>1, <3>2 DEF Next
    <3>. QED
      BY <2>1, <2>2, <3>3 DEF Answered, ReturnReply, ReturnUnsubscribe, ReturnGetReply,
        DrainOne, FailValue, FailArray, FailUnsubscribe, FailReader, Readable, Broken
  <2>4. c[i].due # <<>> /\ ret' = [op |-> "sync", cmd |-> call.cmd, got |-> Head(c[i].due)]
    BY <2>1, <2>3 DEF ReturnReply, Readable, Return, Oldest
  <2>5. 0 - c[i].inherited + 1 = Debt(c[i]) /\ LastIsCall(c[i], call)
    <3>1. CallOf(i) = call /\ Awaits(CallOf(i)) = 1
      BY <2>1 DEF CallOf, Awaits
    <3>. QED
      BY <2>1, <2>2, <3>1, InvFacts DEF ContextInv, Balanced, LastAwaited
  <2>. DEFINE x == c[i]
  <2>6. /\ x.out \in Seq(Commands) /\ x.wire \in Seq(Commands)
        /\ x.due \in Seq(Replies) /\ x.inherited \in Nat
    BY <2>2 DEF Contexts
  <2>7. /\ Size(x.out) \in Nat /\ Size(x.wire) \in Nat /\ Size(x.due) \in Nat
        /\ Size(x.due) >= 1
        /\ x.out # <<>> => Size(x.out) >= 1
        /\ x.wire # <<>> => Size(x.wire) >= 1
    BY <2>4, <2>6, SizeFacts
  <2>8. x.out = <<>> /\ x.wire = <<>> /\ Size(x.due) = 1
    <3>1. 0 - x.inherited + 1 = Size(x.out) + Size(x.wire) + Size(x.due)
      BY <2>5 DEF Debt
    <3>2. Size(x.out) = 0 /\ Size(x.wire) = 0 /\ Size(x.due) = 1
      BY <2>6, <2>7, <3>1
    <3>. QED
      BY <2>7, <3>2
  <2>9. Final(x.due) = [cmd |-> call.cmd, type |-> call.mode]
    BY <2>4, <2>5, <2>8 DEF LastIsCall
  <2>10. Head(x.due) = Final(x.due)
    <3>1. Head(x.due) = x.due[1]
      BY <2>4, <2>6
    <3>. QED
      BY <2>8, <3>1 DEF Final, Size
  <2>. QED
    BY <2>4, <2>9, <2>10
<1>. QED
  BY <1>1, Invariance, PTL DEF Spec, DrainedPipelineAnswersInTurn

=============================================================================
