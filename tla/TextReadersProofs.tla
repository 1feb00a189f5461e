------------------------- MODULE TextReadersProofs --------------------------
(***************************************************************************)
(* What the parser, the reader and the writer of csv do with texts of any  *)
(* length, and the pull parser of xml with files in any blocks.  What is   *)
(* said of every text is proved by induction on it: the lengths for which  *)
(* it holds are a set of naturals with 0 in it, and with each number the   *)
(* next.                                                                   *)
(*                                                                         *)
(* The argument for the pull parser, PullerInv.  The buffer ends with the  *)
(* bytes before at, as long as there may be a use for them (BufferRight).  *)
(* The parser has the depth and the row and column of the byte it is at,   *)
(* behind a whole tag (ParserRight).  The tokens delivered and queued tile *)
(* the file up to there (Queued); nothing fails in the files that are well *)
(* formed (Promised), so they have as many ends as the file has documents. *)
(***************************************************************************)
EXTENDS TextReaders, Integers, FiniteSets, FiniteSetTheorems, SequenceTheorems,
        WellFoundedInduction, TLAPS

-----------------------------------------------------------------------------
(* Induction, and functions that are defined by recursion.                 *)

\* A set of naturals has a least one.
LEMMA LeastExists ==
  ASSUME NEW T \in SUBSET Nat, T # {}
  PROVE  \E n \in T : \A m \in T : n <= m
  <1> DEFINE R == OpToRel(<, Nat)
  <1>1. IsWellFoundedOn(R, Nat)
    BY NatLessThanWellFounded
  <1>2. PICK n \in T : \A m \in T : <<m, n>> \notin R
    <2> HIDE DEF R
    <2>1. QED
      BY <1>1, WFMin
  <1>3. \A m \in T : ~(m < n)
    BY <1>2 DEF OpToRel
  <1>4. QED
    BY <1>3

LEMMA NatByStep ==
  ASSUME NEW T \in SUBSET Nat, 0 \in T, \A n \in T : n + 1 \in T
  PROVE  T = Nat
  <1>1. SUFFICES ASSUME Nat \ T # {} PROVE FALSE
    OBVIOUS
  <1>2. PICK n \in Nat \ T : \A m \in Nat \ T : n <= m
    BY <1>1, LeastExists
  <1>3. n - 1 \in T
    BY <1>2
  <1>4. QED
    BY <1>2, <1>3

\* A set of sequences with the empty one, and with each one those that are one
\* element longer.
LEMMA SeqByStep ==
  ASSUME NEW S, NEW T \in SUBSET Seq(S), <<>> \in T,
         \A s \in T : \A x \in S : Append(s, x) \in T
  PROVE  T = Seq(S)
  <1> DEFINE L == {n \in Nat : \A s \in Seq(S) : Len(s) = n => s \in T}
  <1>1. 0 \in L
    <2>1. \A s \in Seq(S) : Len(s) = 0 => s = <<>>
      OBVIOUS
    <2>2. QED
      BY <2>1
  <1>2. ASSUME NEW n \in L PROVE n + 1 \in L
    <2>1. SUFFICES ASSUME NEW s \in Seq(S), Len(s) = n + 1 PROVE s \in T
      OBVIOUS
    <2>2. s # <<>>
      BY <2>1
    <2>3. PICK t \in Seq(S), x \in S : s = Append(t, x)
      BY <2>2, SequenceEmptyOrAppend
    <2>4. Len(t) = n
      BY <2>1, <2>3, AppendProperties
    <2>5. t \in T
      BY <2>4
    <2>6. QED
      BY <2>3, <2>5
  <1>3. L = Nat
    <2>1. L \in SUBSET Nat
      OBVIOUS
    <2> HIDE DEF L
    <2>2. QED
      BY <1>1, <1>2, <2>1, NatByStep
  <1>4. \A s \in Seq(S) : Len(s) \in L
    BY <1>3
  <1>5. QED
    BY <1>4

\* The functions that begin with b and make each value of the one before it.
Runs(N, X, b, F) ==
  {g \in [0 .. N -> X] : g[0] = b /\ \A i \in 1 .. N : g[i] = F[i][g[i - 1]]}

\* The values of a function that is defined by recursion exist.
LEMMA RecursionExists ==
  ASSUME NEW N \in Nat, NEW X, NEW b \in X, NEW F \in [1 .. N -> [X -> X]]
  PROVE  Runs(N, X, b, F) # {}
  <1> DEFINE Is(g, n) == /\ g[0] = b
                         /\ \A i \in 1 .. n : g[i] = F[i][g[i - 1]]
             T == {n \in Nat : n <= N => \E g \in [0 .. n -> X] : Is(g, n)}
  <1>1. 0 \in T
    <2>1. [i \in 0 .. 0 |-> b] \in [0 .. 0 -> X] /\ Is([i \in 0 .. 0 |-> b], 0)
      OBVIOUS
    <2>. QED
      BY <2>1
  <1>2. ASSUME NEW n \in T PROVE n + 1 \in T
    <2>1. SUFFICES ASSUME n + 1 <= N PROVE \E g \in [0 .. n + 1 -> X] : Is(g, n + 1)
      OBVIOUS
    <2>2. PICK g \in [0 .. n -> X] : Is(g, n)
      BY <2>1
    <2>3. F[n + 1] \in [X -> X] /\ n \in Nat
      BY <2>1
    <2> DEFINE h == [i \in 0 .. n + 1 |-> IF i = n + 1 THEN F[n + 1][g[n]] ELSE g[i]]
    <2>4. h \in [0 .. n + 1 -> X]
      BY <2>2, <2>3
    <2>5. \A i \in 0 .. n : h[i] = g[i]
      BY <2>3
    <2>6. h[n + 1] = F[n + 1][h[n]]
      BY <2>3
    <2> HIDE DEF h
    <2>7. Is(h, n + 1)
      <3>1. h[0] = b
        BY <2>2, <2>3, <2>5
      <3>2. ASSUME NEW i \in 1 .. n + 1 PROVE h[i] = F[i][h[i - 1]]
        <4>1. CASE i = n + 1
          BY <2>3, <2>6, <4>1
        <4>2. CASE i # n + 1
          <5>1. i \in 1 .. n /\ i \in 0 .. n /\ i - 1 \in 0 .. n
            BY <2>3, <4>2
          <5>. QED
            BY <2>2, <2>5, <5>1
        <4>. QED
          BY <4>1, <4>2
      <3>. QED
        BY <3>1, <3>2
    <2>. QED
      BY <2>4, <2>7
  <1> HIDE DEF T
  <1>3. T = Nat
    <2>1. T \in SUBSET Nat
      BY DEF T
    <2>. QED
      BY <1>1, <1>2, <2>1, NatByStep
  <1>4. N \in T
    BY <1>3
  <1>5. PICK g \in [0 .. N -> X] : Is(g, N)
    BY <1>4 DEF T
  <1>6. QED
    BY <1>5 DEF Runs

SameOver(M, N, g, h) == \A i \in M .. N : g[i] = h[i]

\* Two functions with the same first value and the same recursion are the same.
LEMMA SameByStep ==
  ASSUME NEW M \in Nat, NEW N \in Nat, NEW g, NEW h, g[M] = h[M],
         \A i \in M + 1 .. N : g[i - 1] = h[i - 1] => g[i] = h[i]
  PROVE  SameOver(M, N, g, h)
  <1> DEFINE T == {n \in Nat : M + n <= N => g[M + n] = h[M + n]}
  <1>1. 0 \in T
    OBVIOUS
  <1>2. ASSUME NEW n \in T PROVE n + 1 \in T
    <2>1. CASE M + (n + 1) <= N
      <3>1. /\ M + (n + 1) \in M + 1 .. N /\ (M + (n + 1)) - 1 = M + n
            /\ g[M + n] = h[M + n]
        BY <2>1
      <3>2. g[(M + (n + 1)) - 1] = h[(M + (n + 1)) - 1]
        BY <3>1
      <3>3. QED
        BY <3>1, <3>2
    <2>2. CASE ~(M + (n + 1) <= N)
      BY <2>2
    <2>3. QED
      BY <2>1, <2>2
  <1>3. T = Nat
    <2>1. T \in SUBSET Nat
      OBVIOUS
    <2> HIDE DEF T
    <2>2. QED
      BY <1>1, <1>2, <2>1, NatByStep
  <1>4. ASSUME NEW i \in M .. N PROVE g[i] = h[i]
    <2>1. i - M \in Nat /\ M + (i - M) = i /\ i <= N
      OBVIOUS
    <2>2. i - M \in T
      BY <1>3, <2>1
    <2>3. QED
      BY <2>1, <2>2
  <1>5. QED
    BY <1>4 DEF SameOver

-----------------------------------------------------------------------------
(* The parser.                                                             *)

States == {"BEFORE_FIELD", "AFTER_DELIM", "IN_QUOTED_FIELD", "AFTER_QUOTE",
           "IN_UNQUOTED_FIELD", "AFTER_FIELD"}

Shapes == [state : States, fields : Seq(Seq(Char)), errors : Nat,
           stopped : BOOLEAN]

\* In a field there is one, and after one the record has ended.
Parsers ==
  {p \in Shapes :
     /\ p.state \in {"IN_QUOTED_FIELD", "AFTER_QUOTE", "IN_UNQUOTED_FIELD"} =>
          p.fields # <<>>
     /\ p.state = "AFTER_FIELD" => p.stopped}

LEMMA BeforeTyped == Before \in Parsers
  BY DEF Before, Parsers, Shapes, States

LEMMA CharsTyped == DELIM \in Char /\ QUOTE \in Char /\ LF \in Char /\ CR \in Char
  BY DEF Char

LEMMA LineEndsTyped ==
  /\ <<LF>> \in Seq(Char) /\ <<CR>> \in Seq(Char) /\ <<CR, LF>> \in Seq(Char)
  /\ <<CR>> \o <<LF>> = <<CR, LF>>
  <1>1. /\ <<LF>> \in Seq(Char) /\ <<CR>> \in Seq(Char)
        /\ <<CR, LF>> \in Seq(Char)
    BY CharsTyped
  <1>2. Append(<<CR>>, LF) = <<CR>> \o <<LF>>
    BY <1>1, CharsTyped, AppendIsConcat
  <1>3. PICK s \in Seq(Char), t \in Seq(Char) :
          s = <<CR>> \o <<LF>> /\ t = <<CR, LF>>
    BY <1>1, ConcatProperties
  <1>4. Len(s) = 2 /\ s[1] = CR /\ s[2] = LF
    <2>1. PICK a \in Seq(Char) : a = <<CR>> /\ Len(a) = 1 /\ a[1] = CR
      BY <1>1
    <2>2. s = Append(a, LF)
      BY <1>2, <1>3, <2>1
    <2>3. Len(s) = 2 /\ s[1] = a[1] /\ s[2] = LF
      BY <2>1, <2>2, CharsTyped, AppendProperties
    <2>4. QED
      BY <2>1, <2>3
  <1>5. Len(t) = 2 /\ t[1] = CR /\ t[2] = LF
    BY <1>3
  <1>6. s = t
    <2>1. Len(s) = Len(t) /\ \A i \in 1 .. Len(s) : s[i] = t[i]
      BY <1>4, <1>5
    <2>2. QED
      BY <2>1, SeqEqual
  <1>7. QED
    BY <1>1, <1>3, <1>6

LEMMA ToFacts ==
  ASSUME NEW p \in Shapes, NEW state \in States
  PROVE  /\ To(p, state) \in Shapes /\ To(p, state).state = state
         /\ To(p, state).fields = p.fields /\ To(p, state).errors = p.errors
         /\ To(p, state).stopped = p.stopped
  BY DEF To, Shapes

LEMMA StopFacts ==
  ASSUME NEW p \in Shapes
  PROVE  /\ Stop(p) \in Shapes /\ Stop(p).state = p.state
         /\ Stop(p).fields = p.fields /\ Stop(p).errors = p.errors
         /\ Stop(p).stopped
  BY DEF Stop, Shapes

LEMMA ErrorFacts ==
  ASSUME NEW p \in Shapes
  PROVE  /\ Error(p) \in Shapes /\ Error(p).state = p.state
         /\ Error(p).fields = p.fields /\ Error(p).errors = p.errors + 1
         /\ Error(p).stopped = p.stopped
  <1>1. PICK n \in Nat : n = p.errors + 1
    BY DEF Shapes
  <1>2. Error(p) = [p EXCEPT !.errors = n]
    BY <1>1 DEF Error
  <1> HIDE DEF Error
  <1>3. QED
    BY <1>1, <1>2 DEF Shapes

LEMMA BeginFieldFacts ==
  ASSUME NEW p \in Shapes
  PROVE  /\ BeginField(p) \in Shapes /\ BeginField(p).state = p.state
         /\ BeginField(p).fields = Append(p.fields, <<>>)
         /\ BeginField(p).fields # <<>>
         /\ BeginField(p).errors = p.errors
         /\ BeginField(p).stopped = p.stopped
  <1>1. p.fields \in Seq(Seq(Char)) /\ <<>> \in Seq(Char)
    BY DEF Shapes
  <1>2. Append(p.fields, <<>>) \in Seq(Seq(Char)) /\ Append(p.fields, <<>>) # <<>>
    <2>1. PICK e \in Seq(Char), fields \in Seq(Seq(Char)) : e = <<>> /\ fields = p.fields
      BY <1>1
    <2>2. Append(fields, e) \in Seq(Seq(Char)) /\ Append(fields, e) # <<>>
      BY AppendProperties
    <2>3. QED
      BY <2>1, <2>2
  <1>3. QED
    BY <1>2 DEF BeginField, Shapes

\* The last field with a character more.
Longer(fields, c) == [fields EXCEPT ![Len(fields)] = Append(@, c)]

LEMMA PutFacts ==
  ASSUME NEW p \in Shapes, p.fields # <<>>, NEW c \in Char
  PROVE  /\ Put(p, c) \in Shapes /\ Put(p, c).state = p.state
         /\ Put(p, c).fields = Longer(p.fields, c)
         /\ Put(p, c).fields # <<>>
         /\ Put(p, c).errors = p.errors /\ Put(p, c).stopped = p.stopped
  <1>1. p.fields \in Seq(Seq(Char)) /\ Len(p.fields) \in Nat \ {0}
    BY EmptySeq DEF Shapes
  <1>2. Len(p.fields) \in 1 .. Len(p.fields)
    BY <1>1
  <1>3. Append(p.fields[Len(p.fields)], c) \in Seq(Char)
    BY <1>1, <1>2
  <1>4. /\ Longer(p.fields, c) \in Seq(Seq(Char))
        /\ Len(Longer(p.fields, c)) = Len(p.fields)
    BY <1>1, <1>2, <1>3, ExceptSeq DEF Longer
  <1>5. Longer(p.fields, c) # <<>>
    BY <1>1, <1>4
  <1>6. Put(p, c) = [p EXCEPT !.fields = Longer(p.fields, c)]
    BY DEF Put, Longer, Shapes
  <1>7. QED
    BY <1>4, <1>5, <1>6 DEF Shapes

LEMMA StepTyped ==
  ASSUME NEW p \in Parsers, NEW c \in Char
  PROVE  Step(p, c) \in Parsers
  <1>1. p \in Shapes
    BY DEF Parsers
  <1>2. CASE p.stopped
    BY <1>2 DEF Step
  <1>3. CASE ~p.stopped /\ p.state \in {"BEFORE_FIELD", "AFTER_DELIM"}
    <2>1. Step(p, c) = Field(p, c)
      BY <1>3 DEF Step
    <2>2. BeginField(p) \in Shapes /\ BeginField(p).fields # <<>>
      BY <1>1, BeginFieldFacts
    <2>3. CASE c = DELIM
      BY <2>1, <2>2, <2>3, ToFacts DEF Field, Parsers, States, DELIM, QUOTE, LF
    <2>4. CASE c = LF
      BY <1>1, <1>3, <2>1, <2>4, StopFacts
      DEF Field, Parsers, States, DELIM, QUOTE, LF
    <2>5. CASE c = QUOTE
      BY <2>1, <2>2, <2>5, ToFacts DEF Field, Parsers, States, DELIM, QUOTE, LF
    <2>6. CASE c \notin {DELIM, LF, QUOTE}
      <3>1. Put(BeginField(p), c) \in Shapes /\ Put(BeginField(p), c).fields # <<>>
        BY <2>2, PutFacts
      <3>2. Field(p, c) = To(Put(BeginField(p), c), "IN_UNQUOTED_FIELD")
        BY <2>6 DEF Field
      <3>3. QED
        BY <2>1, <3>1, <3>2, ToFacts DEF Parsers, States
    <2>7. QED
      BY <2>3, <2>4, <2>5, <2>6
  <1>4. CASE ~p.stopped /\ p.state = "IN_QUOTED_FIELD"
    <2>1. Step(p, c) = Quoted(p, c) /\ p.fields # <<>>
      BY <1>4 DEF Step, Parsers
    <2>2. QED
      BY <1>1, <1>4, <2>1, ToFacts, PutFacts DEF Quoted, Parsers, States
  <1>5. CASE ~p.stopped /\ p.state = "AFTER_QUOTE"
    <2>1. Step(p, c) = AfterQuote(p, c) /\ p.fields # <<>>
      BY <1>5 DEF Step, Parsers
    <2>2. CASE c = QUOTE
      BY <1>1, <2>1, <2>2, ToFacts, PutFacts
      DEF AfterQuote, Parsers, States, DELIM, QUOTE, LF
    <2>3. CASE c = DELIM
      BY <1>1, <2>1, <2>3, ToFacts DEF AfterQuote, Parsers, States, DELIM, QUOTE, LF
    <2>4. CASE c = LF
      BY <1>1, <2>1, <2>4, ToFacts, StopFacts
      DEF AfterQuote, Parsers, States, DELIM, QUOTE, LF
    <2>5. CASE c \notin {DELIM, LF, QUOTE}
      <3>1. Error(p) \in Shapes /\ Error(p).fields # <<>>
        BY <1>1, <2>1, ErrorFacts
      <3>2. Put(Error(p), QUOTE) \in Shapes /\ Put(Error(p), QUOTE).fields # <<>>
        BY <3>1, PutFacts, CharsTyped
      <3>3. /\ Put(Put(Error(p), QUOTE), c) \in Shapes
            /\ Put(Put(Error(p), QUOTE), c).fields # <<>>
        BY <3>2, PutFacts
      <3>4. AfterQuote(p, c) = To(Put(Put(Error(p), QUOTE), c), "IN_UNQUOTED_FIELD")
        BY <2>5 DEF AfterQuote
      <3>5. QED
        BY <2>1, <3>3, <3>4, ToFacts DEF Parsers, States
    <2>6. QED
      BY <2>2, <2>3, <2>4, <2>5
  <1>6. CASE ~p.stopped /\ p.state = "IN_UNQUOTED_FIELD"
    <2>1. Step(p, c) = Unquoted(p, c) /\ p.fields # <<>>
      BY <1>6 DEF Step, Parsers
    <2>2. CASE c = DELIM
      BY <1>1, <2>1, <2>2, ToFacts DEF Unquoted, Parsers, States, DELIM, QUOTE, LF
    <2>3. CASE c = LF
      BY <1>1, <2>1, <2>3, ToFacts, StopFacts
      DEF Unquoted, Parsers, States, DELIM, QUOTE, LF
    <2>4. CASE c = QUOTE
      BY <1>1, <1>6, <2>1, <2>4, ErrorFacts, PutFacts
      DEF Unquoted, Parsers, DELIM, QUOTE, LF
    <2>5. CASE c \notin {DELIM, LF, QUOTE}
      BY <1>1, <1>6, <2>1, <2>5, PutFacts DEF Unquoted, Parsers
    <2>6. QED
      BY <2>2, <2>3, <2>4, <2>5
  <1>7. QED
    BY <1>1, <1>2, <1>3, <1>4, <1>5, <1>6 DEF Parsers, Shapes, States

\* The parser passes the characters of a text one by one.
LEMMA AfterRuns ==
  ASSUME NEW p \in Parsers, NEW s \in Seq(Char)
  PROVE  \E g \in [0 .. Len(s) -> Parsers] :
           /\ g[0] = p
           /\ \A i \in 1 .. Len(s) : g[i] = Step(g[i - 1], s[i])
           /\ After(p, s) = g[Len(s)]
  <1> DEFINE F == [i \in 1 .. Len(s) |-> [q \in Parsers |-> Step(q, s[i])]]
             Is(g) == g = [i \in 0 .. Len(s) |->
                             IF i = 0 THEN p ELSE Step(g[i - 1], s[i])]
  <1>1. Len(s) \in Nat /\ \A i \in 1 .. Len(s) : s[i] \in Char
    OBVIOUS
  <1>2. F \in [1 .. Len(s) -> [Parsers -> Parsers]]
    BY <1>1, StepTyped
  <1>3. PICK g \in [0 .. Len(s) -> Parsers] :
          g[0] = p /\ \A i \in 1 .. Len(s) : g[i] = F[i][g[i - 1]]
    <2> HIDE DEF F
    <2>1. QED
      <3>1. Runs(Len(s), Parsers, p, F) # {}
        BY <1>1, <1>2, RecursionExists
      <3>2. QED
        BY <3>1 DEF Runs
  <1>4. ASSUME NEW i \in 1 .. Len(s) PROVE g[i] = Step(g[i - 1], s[i])
    <2>1. i - 1 \in 0 .. Len(s)
      BY <1>1
    <2>2. g[i - 1] \in Parsers /\ g[i] = F[i][g[i - 1]]
      BY <1>3, <2>1
    <2>3. QED
      BY <2>2
  <1>5. Is(g)
    BY <1>1, <1>3, <1>4
  <1>6. PICK after : Is(after) /\ After(p, s) = after[Len(s)]
    <2>1. Is(CHOOSE after : Is(after))
      <3> HIDE DEF Is
      <3>1. QED
        BY <1>5
    <2>2. QED
      BY <2>1 DEF After
  <1>7. g[0] = after[0]
    BY <1>1, <1>3, <1>6
  <1>8. ASSUME NEW i \in 1 .. Len(s), g[i - 1] = after[i - 1]
        PROVE  g[i] = after[i]
    BY <1>1, <1>4, <1>6, <1>8
  <1>9. \A i \in 0 .. Len(s) : g[i] = after[i]
    <2>1. SameOver(0, Len(s), g, after)
      BY <1>1, <1>7, <1>8, SameByStep
    <2>2. QED
      BY <2>1 DEF SameOver
  <1>10. QED
    BY <1>1, <1>3, <1>4, <1>6, <1>9

LEMMA AfterNone ==
  ASSUME NEW p \in Parsers
  PROVE  After(p, <<>>) = p
  <1>1. PICK s \in Seq(Char) : s = <<>> /\ Len(s) = 0
    <2>1. <<>> \in Seq(Char) /\ Len(<<>>) = 0
      OBVIOUS
    <2>2. QED
      BY <2>1
  <1>2. PICK g \in [0 .. Len(s) -> Parsers] :
          g[0] = p /\ After(p, s) = g[Len(s)]
    BY AfterRuns, Zenon
  <1>3. QED
    BY <1>1, <1>2

LEMMA AfterTyped ==
  ASSUME NEW p \in Parsers, NEW s \in Seq(Char)
  PROVE  After(p, s) \in Parsers
  <1>1. PICK g \in [0 .. Len(s) -> Parsers] : After(p, s) = g[Len(s)]
    BY AfterRuns
  <1>2. Len(s) \in 0 .. Len(s)
    OBVIOUS
  <1>3. QED
    BY <1>1, <1>2

LEMMA AfterAppend ==
  ASSUME NEW p \in Parsers, NEW s \in Seq(Char), NEW c \in Char
  PROVE  After(p, Append(s, c)) = Step(After(p, s), c)
  <1> DEFINE t == Append(s, c)
  <1>1. /\ Len(s) \in Nat /\ t \in Seq(Char) /\ Len(t) = Len(s) + 1
        /\ t[Len(s) + 1] = c /\ \A i \in 1 .. Len(s) : t[i] = s[i]
    BY AppendProperties
  <1> HIDE DEF t
  <1>2. PICK g \in [0 .. Len(s) -> Parsers] :
          /\ g[0] = p
          /\ \A i \in 1 .. Len(s) : g[i] = Step(g[i - 1], s[i])
          /\ After(p, s) = g[Len(s)]
    BY AfterRuns
  <1>3. PICK h \in [0 .. Len(t) -> Parsers] :
          /\ h[0] = p
          /\ \A i \in 1 .. Len(t) : h[i] = Step(h[i - 1], t[i])
          /\ After(p, t) = h[Len(t)]
    BY <1>1, AfterRuns
  <1>4. ASSUME NEW i \in 0 + 1 .. Len(s), g[i - 1] = h[i - 1]
        PROVE  g[i] = h[i]
    <2>1. i \in 1 .. Len(s) /\ i \in 1 .. Len(t) /\ t[i] = s[i]
      BY <1>1
    <2>2. QED
      BY <1>2, <1>3, <1>4, <2>1
  <1>5. \A i \in 0 .. Len(s) : g[i] = h[i]
    <2>1. Len(s) \in Nat /\ g[0] = h[0]
      BY <1>1, <1>2, <1>3
    <2>2. SameOver(0, Len(s), g, h)
      BY <1>4, <2>1, SameByStep
    <2>3. QED
      BY <2>2 DEF SameOver
  <1>6. h[Len(s) + 1] = Step(h[Len(s)], t[Len(s) + 1])
    <2>1. Len(s) + 1 \in 1 .. Len(t) /\ (Len(s) + 1) - 1 = Len(s)
      BY <1>1
    <2>2. QED
      BY <1>3, <2>1
  <1>7. QED
    BY <1>1, <1>2, <1>3, <1>5, <1>6 DEF t

\* What is appended to a concatenation is appended to its second part.
LEMMA AppendToConcat ==
  ASSUME NEW S, NEW s \in Seq(S), NEW t \in Seq(S), NEW x \in S
  PROVE  s \o Append(t, x) = Append(s \o t, x)
  <1>1. /\ Append(t, x) = t \o <<x>> /\ s \o t \in Seq(S) /\ <<x>> \in Seq(S)
        /\ Append(s \o t, x) = (s \o t) \o <<x>>
    BY AppendIsConcat, ConcatProperties
  <1>2. QED
    BY <1>1, ConcatAssociative

LEMMA AfterConcat ==
  ASSUME NEW p \in Parsers, NEW s \in Seq(Char), NEW t \in Seq(Char)
  PROVE  After(p, s \o t) = After(After(p, s), t)
  <1> DEFINE T == {u \in Seq(Char) : After(p, s \o u) = After(After(p, s), u)}
  <1>1. <<>> \in T
    BY AfterNone, AfterTyped, ConcatEmptySeq, EmptySeq
  <1>2. ASSUME NEW u \in T, NEW c \in Char PROVE Append(u, c) \in T
    <2>1. u \in Seq(Char) /\ After(p, s \o u) = After(After(p, s), u)
      OBVIOUS
    <2>2. s \o Append(u, c) = Append(s \o u, c) /\ s \o u \in Seq(Char)
      BY <2>1, AppendToConcat, ConcatProperties
    <2>3. After(p, Append(s \o u, c)) = Step(After(p, s \o u), c)
      BY <2>2, AfterAppend
    <2>4. After(After(p, s), Append(u, c)) = Step(After(After(p, s), u), c)
      BY <2>1, AfterTyped, AfterAppend
    <2>5. QED
      BY <2>1, <2>2, <2>3, <2>4, AppendProperties
  <1>3. T = Seq(Char)
    <2>1. T \in SUBSET Seq(Char)
      OBVIOUS
    <2> HIDE DEF T
    <2>2. QED
      BY <1>1, <1>2, <2>1, SeqByStep
  <1>4. QED
    BY <1>3

-----------------------------------------------------------------------------
(* Concatenations.                                                         *)

LEMMA ConcatTogether ==
  ASSUME NEW a \in Seq(Char), NEW b \in Seq(Char), NEW d \in Seq(Char)
  PROVE  (a \o b) \o d = a \o (b \o d)
  BY ConcatAssociative

LEMMA QuoteTogether ==
  ASSUME NEW b \in Seq(Char), NEW d \in Seq(Char)
  PROVE  (<<QUOTE>> \o b) \o d = <<QUOTE>> \o (b \o d)
  <1>1. PICK a \in Seq(Char) : a = <<QUOTE>>
    <2>1. <<QUOTE>> \in Seq(Char)
      BY CharsTyped
    <2>2. QED
      BY <2>1
  <1>2. (a \o b) \o d = a \o (b \o d)
    BY ConcatTogether, Zenon
  <1>3. QED
    BY <1>1, <1>2

\* FlattenSeq is made by recursion.
LEMMA FlattenRuns ==
  ASSUME NEW S, NEW q \in Seq(Seq(S)), q # <<>>
  PROVE  \E g \in [1 .. Len(q) -> Seq(S)] :
           /\ g[1] = q[1]
           /\ \A i \in 2 .. Len(q) : g[i] = g[i - 1] \o q[i]
           /\ FlattenSeq(q) = g[Len(q)]
  <1> DEFINE F == [i \in 1 .. Len(q) |-> [s \in Seq(S) |-> s \o q[i]]]
             Is(g) == g = [i \in 1 .. Len(q) |->
                             IF i = 1 THEN q[i] ELSE g[i - 1] \o q[i]]
  <1>1. /\ Len(q) \in Nat \ {0} /\ <<>> \in Seq(S)
        /\ \A i \in 1 .. Len(q) : q[i] \in Seq(S)
    BY EmptySeq
  <1>2. F \in [1 .. Len(q) -> [Seq(S) -> Seq(S)]]
    BY <1>1, ConcatProperties
  <1>3. PICK h \in [0 .. Len(q) -> Seq(S)] :
          h[0] = <<>> /\ \A i \in 1 .. Len(q) : h[i] = F[i][h[i - 1]]
    <2> HIDE DEF F
    <2>1. Runs(Len(q), Seq(S), <<>>, F) # {}
      BY <1>1, <1>2, RecursionExists
    <2>2. QED
      BY <2>1 DEF Runs
  <1> DEFINE g == [i \in 1 .. Len(q) |-> h[i]]
  <1>4. ASSUME NEW i \in 1 .. Len(q) PROVE h[i] = h[i - 1] \o q[i]
    <2>1. i - 1 \in 0 .. Len(q)
      BY <1>1
    <2>2. h[i - 1] \in Seq(S) /\ h[i] = F[i][h[i - 1]]
      BY <1>3, <2>1
    <2>3. QED
      BY <2>2
  <1>5. g \in [1 .. Len(q) -> Seq(S)] /\ g[1] = q[1]
    <2>1. 1 \in 1 .. Len(q) /\ 1 - 1 = 0
      BY <1>1
    <2>2. h[1] = h[0] \o q[1] /\ q[1] \in Seq(S)
      BY <1>1, <1>4, <2>1
    <2>3. <<>> \o q[1] = q[1]
      BY <2>2, ConcatEmptySeq
    <2>4. QED
      BY <1>1, <1>3, <2>1, <2>2, <2>3
  <1>6. ASSUME NEW i \in 2 .. Len(q) PROVE g[i] = g[i - 1] \o q[i]
    <2>1. i \in 1 .. Len(q) /\ i - 1 \in 1 .. Len(q)
      BY <1>1
    <2>2. QED
      BY <1>4, <2>1
  <1> HIDE DEF g
  <1>7. Is(g)
    <2>1. ASSUME NEW i \in 1 .. Len(q)
          PROVE  g[i] = IF i = 1 THEN q[i] ELSE g[i - 1] \o q[i]
      <3>1. i = 1 \/ i \in 2 .. Len(q)
        BY <1>1
      <3>2. QED
        BY <1>5, <1>6, <3>1, Zenon
    <2>2. QED
      BY <1>5, <2>1
  <1>8. PICK f : Is(f) /\ FlattenSeq(q) = f[Len(q)]
    <2>1. Is(CHOOSE f : Is(f))
      <3> HIDE DEF Is
      <3>1. QED
        BY <1>7
    <2>2. QED
      BY <1>1, <2>1, Zenon DEF FlattenSeq
  <1>9. g[1] = f[1]
    BY <1>1, <1>5, <1>8
  <1>10. ASSUME NEW i \in 1 + 1 .. Len(q), g[i - 1] = f[i - 1] PROVE g[i] = f[i]
    <2>1. i \in 2 .. Len(q) /\ i \in 1 .. Len(q) /\ i # 1
      BY <1>1
    <2>2. f[i] = f[i - 1] \o q[i]
      BY <1>8, <2>1
    <2>3. QED
      BY <1>6, <1>10, <2>1, <2>2
  <1>11. \A i \in 1 .. Len(q) : g[i] = f[i]
    <2>1. SameOver(1, Len(q), g, f)
      BY <1>1, <1>9, <1>10, SameByStep
    <2>2. QED
      BY <2>1 DEF SameOver
  <1>12. g[Len(q)] = f[Len(q)]
    BY <1>1, <1>11
  <1>13. QED
    BY <1>5, <1>6, <1>8, <1>12

LEMMA FlattenNone == FlattenSeq(<<>>) = <<>>
  <1>1. Len(<<>>) = 0
    OBVIOUS
  <1>2. QED
    BY <1>1 DEF FlattenSeq

LEMMA FlattenAppend ==
  ASSUME NEW S, NEW q \in Seq(Seq(S)), NEW x \in Seq(S)
  PROVE  /\ FlattenSeq(q) \in Seq(S)
         /\ FlattenSeq(Append(q, x)) = FlattenSeq(q) \o x
  <1> DEFINE r == Append(q, x)
  <1>1. /\ Len(q) \in Nat /\ r \in Seq(Seq(S)) /\ r # <<>> /\ Len(r) = Len(q) + 1
        /\ r[Len(q) + 1] = x /\ \A i \in 1 .. Len(q) : r[i] = q[i]
    BY AppendProperties
  <1> HIDE DEF r
  <1>2. PICK h \in [1 .. Len(r) -> Seq(S)] :
          /\ h[1] = r[1]
          /\ \A i \in 2 .. Len(r) : h[i] = h[i - 1] \o r[i]
          /\ FlattenSeq(r) = h[Len(r)]
    BY <1>1, FlattenRuns
  <1>3. CASE q = <<>>
    <2>1. FlattenSeq(q) = <<>> /\ <<>> \in Seq(S) /\ <<>> \o x = x
      BY <1>3, FlattenNone, ConcatEmptySeq, EmptySeq
    <2>2. Len(q) = 0 /\ Len(r) = 1
      BY <1>1, <1>3
    <2>3. QED
      BY <1>1, <1>2, <2>1, <2>2 DEF r
  <1>4. CASE q # <<>>
    <2>1. Len(q) \in Nat \ {0}
      BY <1>4, EmptySeq
    <2>2. PICK g \in [1 .. Len(q) -> Seq(S)] :
            /\ g[1] = q[1]
            /\ \A i \in 2 .. Len(q) : g[i] = g[i - 1] \o q[i]
            /\ FlattenSeq(q) = g[Len(q)]
      BY <1>4, FlattenRuns
    <2>3. g[1] = h[1]
      BY <1>1, <1>2, <2>1, <2>2
    <2>4. ASSUME NEW i \in 1 + 1 .. Len(q), g[i - 1] = h[i - 1] PROVE g[i] = h[i]
      <3>1. i \in 2 .. Len(q) /\ i \in 2 .. Len(r) /\ r[i] = q[i]
        BY <1>1
      <3>2. g[i] = g[i - 1] \o q[i] /\ h[i] = h[i - 1] \o r[i]
        BY <1>2, <2>2, <3>1
      <3>3. QED
        BY <2>4, <3>1, <3>2
    <2>5. \A i \in 1 .. Len(q) : g[i] = h[i]
      <3>1. SameOver(1, Len(q), g, h)
        BY <1>1, <2>3, <2>4, SameByStep
      <3>2. QED
        BY <3>1 DEF SameOver
    <2>6. g[Len(q)] = h[Len(q)]
      BY <2>1, <2>5
    <2>7. h[Len(q) + 1] = h[Len(q)] \o r[Len(q) + 1]
      <3>1. Len(q) + 1 \in 2 .. Len(r) /\ (Len(q) + 1) - 1 = Len(q)
        BY <1>1, <2>1
      <3>2. QED
        BY <1>2, <3>1
    <2>8. FlattenSeq(q) \in Seq(S)
      BY <2>1, <2>2
    <2>9. QED
      BY <1>1, <1>2, <2>2, <2>6, <2>7, <2>8 DEF r
  <1>5. QED
    BY <1>3, <1>4

-----------------------------------------------------------------------------
(* The reader.                                                             *)

\* The position up to which the characters were used: a pending one was not.
From(r) == r.pos - IF r.after = NULL THEN 0 ELSE 1

Placed(text, r) ==
  /\ r.pos \in 0 .. Len(text) /\ r.after \in Char \cup {NULL}
  /\ r.after # NULL => r.pos >= 1 /\ text[r.pos] = r.after

Reading(text) ==
  [parser : Parsers, pos : 0 .. Len(text), after : Char \cup {NULL},
   inside : BOOLEAN, input : Seq(Char), rt : Seq(Char), ended : BOOLEAN]

\* A record that begins after the position from: it has the characters up to
\* where the file is read, and the parser those that are not its terminator.
Reads(text, from) ==
  {r \in Reading(text) :
     /\ Placed(text, r)
     /\ r.parser = After(Before, r.input)
     /\ from <= From(r)
     /\ SubSeq(text, from + 1, From(r)) = r.input \o r.rt
     /\ ~r.ended => r.rt = <<>>}

LEMMA FromRange ==
  ASSUME NEW text \in Seq(Char), NEW r, Placed(text, r)
  PROVE  From(r) \in 0 .. Len(text)
  BY DEF Placed, From

LEMMA SubSeqLonger ==
  ASSUME NEW text \in Seq(Char), NEW a \in Nat, NEW b \in Nat,
         a <= b, b < Len(text)
  PROVE  /\ text[b + 1] \in Char
         /\ SubSeq(text, a + 1, b) \in Seq(Char)
         /\ SubSeq(text, a + 1, b + 1) = SubSeq(text, a + 1, b) \o <<text[b + 1]>>
  <1>1. /\ Len(text) \in Nat /\ a + 1 \in 1 .. Len(text) /\ (b + 1) - 1 = b
        /\ b + 1 \in a + 1 .. Len(text) /\ b + 1 \in 1 .. Len(text)
    OBVIOUS
  <1>2. \A i \in a + 1 .. b : text[i] \in Char
    BY <1>1
  <1>3. SubSeq(text, a + 1, b) \in Seq(Char)
    BY <1>1, <1>2, SubSeqProperties
  <1>4. SubSeq(text, a + 1, b + 1) = SubSeq(text, a + 1, (b + 1) - 1) \o <<text[b + 1]>>
    BY <1>1, SubSeqRecursiveSecond
  <1>5. QED
    BY <1>1, <1>3, <1>4

\* The characters that end a record are added to its terminator, the others
\* to what is read for it.
LEMMA EndedReads ==
  ASSUME NEW text \in Seq(Char), NEW from \in Nat, NEW r \in Reads(text, from),
         NEW s \in Reading(text), ~r.ended, s.ended, Placed(text, s),
         s.parser = r.parser, s.input = r.input, From(r) <= From(s),
         SubSeq(text, from + 1, From(s)) =
           SubSeq(text, from + 1, From(r)) \o s.rt
  PROVE  s \in Reads(text, from)
  <1>1. /\ r.rt = <<>> /\ r.input \in Seq(Char) /\ from <= From(r)
        /\ SubSeq(text, from + 1, From(r)) = r.input \o r.rt
        /\ r.parser = After(Before, r.input) /\ Placed(text, r)
    BY DEF Reads, Reading
  <1>2. SubSeq(text, from + 1, From(r)) = s.input
    BY <1>1, ConcatEmptySeq
  <1>3. from <= From(s)
    BY <1>1, FromRange
  <1>4. QED
    BY <1>1, <1>2, <1>3 DEF Reads

\* The next character of the file: the pending one, if there is one.
NextRead(r) == [r EXCEPT !.pos = From(r) + 1, !.after = NULL]

LEMMA NextReadFacts ==
  ASSUME NULL \notin Char, NEW text \in Seq(Char), NEW from \in Nat,
         NEW r \in Reads(text, from), ~r.ended, ~AtEnd(text, r)
  PROVE  /\ From(r) \in Nat /\ From(r) < Len(text) /\ from <= From(r)
         /\ NextRead(r) \in Reading(text) /\ Placed(text, NextRead(r))
         /\ NextRead(r).pos = From(r) + 1 /\ NextRead(r).after = NULL
         /\ NextRead(r).input = r.input /\ NextRead(r).parser = r.parser
         /\ NextRead(r).rt = <<>> /\ NextRead(r).inside = r.inside
         /\ NextRead(r).ended = FALSE
         /\ LET c == text[From(r) + 1] IN
            Advanced(text, r) =
              IF ~r.inside /\ c = CR THEN AfterReturn(text, NextRead(r))
              ELSE IF ~r.inside /\ c = LF
                   THEN [NextRead(r) EXCEPT !.rt = <<LF>>, !.ended = TRUE]
                   ELSE Fed(NextRead(r), c)
  <1>1. /\ r \in Reading(text) /\ Placed(text, r) /\ from <= From(r)
        /\ r.rt = <<>> /\ Len(text) \in Nat
    BY DEF Reads
  <1>2. From(r) \in Nat /\ From(r) < Len(text)
    BY <1>1 DEF From, Placed, AtEnd
  <1>3. /\ NextRead(r) \in Reading(text)
        /\ NextRead(r).pos = From(r) + 1 /\ NextRead(r).after = NULL
        /\ NextRead(r).input = r.input /\ NextRead(r).parser = r.parser
        /\ NextRead(r).rt = <<>> /\ NextRead(r).inside = r.inside
        /\ NextRead(r).ended = FALSE
    <2>1. From(r) + 1 \in 0 .. Len(text) /\ NULL \in Char \cup {NULL}
      BY <1>1, <1>2
    <2>2. PICK n \in 0 .. Len(text) : n = From(r) + 1
      BY <2>1
    <2>3. PICK s : s = NextRead(r)
      OBVIOUS
    <2>4. s = [r EXCEPT !.pos = n, !.after = NULL]
      BY <2>2, <2>3 DEF NextRead
    <2>5. /\ s \in Reading(text) /\ s.pos = n /\ s.after = NULL
          /\ s.input = r.input /\ s.parser = r.parser /\ s.rt = r.rt
          /\ s.inside = r.inside /\ s.ended = r.ended
      BY <1>1, <2>1, <2>4 DEF Reading
    <2>6. QED
      BY <1>1, <2>2, <2>3, <2>5
  <1>4. Placed(text, NextRead(r))
    BY <1>3 DEF Placed, Reading
  <1>5. CASE r.after = NULL
    <2>1. From(r) = r.pos
      BY <1>1, <1>5 DEF From, Placed
    <2>2. NextRead(r) = [r EXCEPT !.pos = @ + 1]
      BY <1>1, <1>3, <1>5, <2>1 DEF NextRead, Reading
    <2>3. QED
      BY <1>1, <1>2, <1>3, <1>4, <1>5, <2>1, <2>2 DEF Advanced
  <1>6. CASE r.after # NULL
    <2>1. From(r) + 1 = r.pos
      BY <1>1, <1>6 DEF From, Placed
    <2>2. NextRead(r) = [r EXCEPT !.after = NULL]
      BY <1>1, <1>3, <1>6, <2>1 DEF NextRead, Reading
    <2>3. text[From(r) + 1] = r.after
      BY <1>1, <1>6, <2>1 DEF Placed
    <2>4. QED
      BY <1>1, <1>2, <1>3, <1>4, <1>6, <2>1, <2>2, <2>3 DEF Advanced
  <1>7. QED
    BY <1>5, <1>6

LEMMA ReturnFacts ==
  ASSUME NULL \notin Char, NEW text \in Seq(Char), NEW q \in Reading(text),
         q.after = NULL, q.pos # 0
  PROVE  LET s == AfterReturn(text, q)
             lf == q.pos < Len(text) /\ text[q.pos + 1] = LF
         IN
           /\ s \in Reading(text) /\ Placed(text, s) /\ s.ended
           /\ s.parser = q.parser /\ s.input = q.input
           /\ s.rt = IF lf THEN <<CR, LF>> ELSE <<CR>>
           /\ From(s) = IF lf THEN q.pos + 1 ELSE q.pos
  <1> DEFINE s == AfterReturn(text, q)
             lf == q.pos < Len(text) /\ text[q.pos + 1] = LF
  <1>1. q.pos \in 1 .. Len(text) /\ Len(text) \in Nat
    BY DEF Reading
  <1>2. <<CR>> \in Seq(Char) /\ <<CR, LF>> \in Seq(Char)
    BY LineEndsTyped
  <1>3. CASE lf
    <2>1. s = [q EXCEPT !.rt = <<CR, LF>>, !.pos = q.pos + 1, !.ended = TRUE]
      BY <1>1, <1>3 DEF AfterReturn
    <2>2. q.pos + 1 \in 0 .. Len(text)
      BY <1>1, <1>3
    <2>3. /\ s \in Reading(text) /\ s.pos = q.pos + 1 /\ s.after = NULL
          /\ s.parser = q.parser /\ s.input = q.input /\ s.rt = <<CR, LF>>
          /\ s.ended
      <3> HIDE DEF s
      <3>1. QED
        BY <1>2, <2>1, <2>2 DEF Reading
    <2>4. Placed(text, s) /\ From(s) = q.pos + 1
      <3> HIDE DEF s
      <3>1. QED
        BY <1>1, <2>2, <2>3 DEF Placed, From
    <2>5. QED
      BY <1>3, <2>3, <2>4
  <1>4. CASE ~lf /\ q.pos < Len(text)
    <2>1. q.pos + 1 \in 1 .. Len(text)
      BY <1>1, <1>4
    <2>2. s = [q EXCEPT !.rt = <<CR>>, !.pos = q.pos + 1, !.after = text[q.pos + 1],
                        !.ended = TRUE]
      BY <1>1, <1>4 DEF AfterReturn
    <2>3. PICK c \in Char : c = text[q.pos + 1] /\ c # NULL
      BY <2>1
    <2>4. /\ s \in Reading(text) /\ s.pos = q.pos + 1 /\ s.after = c
          /\ s.parser = q.parser /\ s.input = q.input /\ s.rt = <<CR>>
          /\ s.ended
      <3> HIDE DEF s
      <3>1. PICK n, rt : n = q.pos + 1 /\ rt = <<CR>>
        OBVIOUS
      <3>2. s = [q EXCEPT !.rt = rt, !.pos = n, !.after = c, !.ended = TRUE]
        BY <2>2, <2>3, <3>1
      <3>3. /\ s \in Reading(text) /\ s.pos = n /\ s.after = c
            /\ s.parser = q.parser /\ s.input = q.input /\ s.rt = rt /\ s.ended
        <4>1. n \in 0 .. Len(text) /\ rt \in Seq(Char)
          BY <2>1, <3>1, LineEndsTyped
        <4>2. QED
          BY <3>2, <4>1 DEF Reading
      <3>4. QED
        BY <3>1, <3>3
    <2>5. Placed(text, s) /\ From(s) = q.pos
      <3> HIDE DEF s
      <3>1. QED
        BY <1>1, <2>1, <2>3, <2>4 DEF Placed, From
    <2>6. QED
      BY <1>4, <2>4, <2>5
  <1>5. CASE ~(q.pos < Len(text))
    <2>1. s = [q EXCEPT !.rt = <<CR>>, !.ended = TRUE]
      BY <1>1, <1>5 DEF AfterReturn
    <2>2. /\ s \in Reading(text) /\ s.pos = q.pos /\ s.after = NULL
          /\ s.parser = q.parser /\ s.input = q.input /\ s.rt = <<CR>>
          /\ s.ended
      <3> HIDE DEF s
      <3>1. QED
        BY <1>2, <2>1 DEF Reading
    <2>3. Placed(text, s) /\ From(s) = q.pos
      <3> HIDE DEF s
      <3>1. QED
        BY <1>1, <2>2 DEF Placed, From
    <2>4. QED
      BY <1>5, <2>2, <2>3
  <1>6. QED
    BY <1>3, <1>4, <1>5

LEMMA FedFacts ==
  ASSUME NEW text \in Seq(Char), NEW q \in Reading(text), NEW c \in Char
  PROVE  LET s == Fed(q, c) IN
           /\ s \in Reading(text) /\ s.pos = q.pos /\ s.after = q.after
           /\ s.rt = q.rt /\ s.input = Append(q.input, c)
           /\ s.parser = Step(q.parser, c) /\ s.ended = Step(q.parser, c).stopped
           /\ s.inside = IF c = QUOTE THEN ~q.inside ELSE q.inside
  <1> DEFINE s == Fed(q, c)
  <1>1. PICK p \in Parsers : p = Step(q.parser, c)
    BY StepTyped DEF Reading
  <1>2. PICK taken \in Seq(Char) : taken = Append(q.input, c)
    BY AppendProperties DEF Reading
  <1>3. PICK inside \in BOOLEAN : inside = IF c = QUOTE THEN ~q.inside ELSE q.inside
    BY DEF Reading
  <1>4. p.stopped \in BOOLEAN
    BY DEF Parsers, Shapes
  <1>5. s = [q EXCEPT !.parser = p, !.ended = p.stopped, !.input = taken,
                      !.inside = inside]
    BY <1>1, <1>2, <1>3 DEF Fed
  <1> HIDE DEF s
  <1>6. /\ s \in Reading(text) /\ s.pos = q.pos /\ s.after = q.after
        /\ s.rt = q.rt /\ s.input = taken /\ s.parser = p /\ s.ended = p.stopped
        /\ s.inside = inside
    BY <1>4, <1>5 DEF Reading
  <1>7. QED
    BY <1>1, <1>2, <1>3, <1>6 DEF s

LEMMA ContinuedReads ==
  ASSUME NULL \notin Char, NEW text \in Seq(Char), NEW from \in Nat,
         NEW r \in Reads(text, from)
  PROVE  Continued(text, r) \in Reads(text, from)
  <1>1. CASE r.ended \/ AtEnd(text, r)
    BY <1>1 DEF Continued
  <1>2. CASE ~r.ended /\ ~AtEnd(text, r)
    <2> DEFINE q == NextRead(r)
               c == text[From(r) + 1]
    <2>1. /\ From(r) \in Nat /\ From(r) < Len(text) /\ from <= From(r)
          /\ q \in Reading(text) /\ Placed(text, q)
          /\ q.pos = From(r) + 1 /\ q.after = NULL
          /\ q.input = r.input /\ q.parser = r.parser /\ q.rt = <<>>
          /\ q.ended = FALSE
          /\ Continued(text, r) =
               IF ~r.inside /\ c = CR THEN AfterReturn(text, q)
               ELSE IF ~r.inside /\ c = LF
                    THEN [q EXCEPT !.rt = <<LF>>, !.ended = TRUE]
                    ELSE Fed(q, c)
      BY <1>2, NextReadFacts DEF Continued
    <2>2. /\ r.rt = <<>> /\ r.input \in Seq(Char) /\ Len(text) \in Nat
          /\ SubSeq(text, from + 1, From(r)) = r.input
          /\ r.parser = After(Before, r.input)
      <3>1. /\ r.rt = <<>> /\ r.input \in Seq(Char)
            /\ SubSeq(text, from + 1, From(r)) = r.input \o r.rt
            /\ r.parser = After(Before, r.input)
        BY <1>2 DEF Reads, Reading
      <3>2. QED
        BY <3>1, ConcatEmptySeq
    <2> HIDE DEF q
    <2>3. /\ c \in Char
          /\ SubSeq(text, from + 1, From(r) + 1) =
               SubSeq(text, from + 1, From(r)) \o <<c>>
      BY <2>1, SubSeqLonger
    <2> HIDE DEF c
    <2>4. CASE ~r.inside /\ c = CR
      <3> DEFINE s == AfterReturn(text, q)
                 lf == q.pos < Len(text) /\ text[q.pos + 1] = LF
      <3>1. /\ s \in Reading(text) /\ Placed(text, s) /\ s.ended
            /\ s.parser = q.parser /\ s.input = q.input
            /\ s.rt = IF lf THEN <<CR, LF>> ELSE <<CR>>
            /\ From(s) = IF lf THEN q.pos + 1 ELSE q.pos
        BY <2>1, ReturnFacts
      <3> HIDE DEF s
      <3>2. SubSeq(text, from + 1, From(s)) =
              SubSeq(text, from + 1, From(r)) \o s.rt
        <4>1. CASE lf
          <5>1. SubSeq(text, from + 1, (From(r) + 1) + 1) =
                  SubSeq(text, from + 1, From(r) + 1) \o <<LF>>
            <6>1. PICK m \in Nat :
                    m = From(r) + 1 /\ from <= m /\ m < Len(text) /\ text[m + 1] = LF
              BY <2>1, <4>1
            <6>2. SubSeq(text, from + 1, m + 1) =
                    SubSeq(text, from + 1, m) \o <<text[m + 1]>>
              BY <6>1, SubSeqLonger
            <6>3. QED
              BY <6>1, <6>2
          <5>2. (r.input \o <<CR>>) \o <<LF>> = r.input \o (<<CR>> \o <<LF>>)
            BY <2>2, CharsTyped, ConcatAssociative
          <5>3. <<CR>> \o <<LF>> = <<CR, LF>>
            BY LineEndsTyped
          <5>4. QED
            BY <2>1, <2>2, <2>3, <2>4, <3>1, <4>1, <5>1, <5>2, <5>3
        <4>2. CASE ~lf
          BY <2>1, <2>3, <2>4, <3>1, <4>2
        <4>3. QED
          BY <4>1, <4>2
      <3>3. From(r) <= From(s)
        BY <2>1, <3>1
      <3>4. s \in Reads(text, from)
        BY <1>2, <2>1, <3>1, <3>2, <3>3, EndedReads
      <3>5. QED
        BY <2>1, <2>4, <3>4 DEF s
    <2>5. CASE ~r.inside /\ c = LF
      <3> DEFINE s == [q EXCEPT !.rt = <<LF>>, !.ended = TRUE]
      <3>1. /\ s \in Reading(text) /\ s.pos = q.pos /\ s.after = q.after
            /\ s.parser = q.parser /\ s.input = q.input /\ s.rt = <<LF>> /\ s.ended
        <4>1. PICK rt : rt = <<LF>>
          OBVIOUS
        <4>2. s = [q EXCEPT !.rt = rt, !.ended = TRUE]
          BY <4>1
        <4> HIDE DEF s
        <4>3. /\ s \in Reading(text) /\ s.pos = q.pos /\ s.after = q.after
              /\ s.parser = q.parser /\ s.input = q.input /\ s.rt = rt /\ s.ended
          <5>1. rt \in Seq(Char)
            BY <4>1, LineEndsTyped
          <5>2. QED
            BY <2>1, <4>2, <5>1 DEF Reading
        <4>4. QED
          BY <4>1, <4>3
      <3> HIDE DEF s
      <3>2. Placed(text, s) /\ From(s) = From(r) + 1
        BY <2>1, <3>1 DEF Placed, From
      <3>3. /\ SubSeq(text, from + 1, From(s)) =
                 SubSeq(text, from + 1, From(r)) \o s.rt
            /\ s.parser = r.parser /\ s.input = r.input /\ From(r) <= From(s)
        <4>1. From(r) <= From(r) + 1
          BY <2>1
        <4>2. QED
          BY <2>1, <2>3, <2>5, <3>1, <3>2, <4>1
      <3>4. s \in Reads(text, from)
        BY <1>2, <3>1, <3>2, <3>3, EndedReads
      <3>5. CR # LF
        BY DEF CR, LF
      <3>6. QED
        BY <2>1, <2>5, <3>4, <3>5 DEF s
    <2>6. CASE ~(~r.inside /\ (c = CR \/ c = LF))
      <3> DEFINE s == Fed(q, c)
      <3>1. /\ s \in Reading(text) /\ s.pos = q.pos /\ s.after = q.after
            /\ s.rt = <<>> /\ s.input = Append(r.input, c)
            /\ s.parser = Step(r.parser, c)
        <4>1. /\ s \in Reading(text) /\ s.pos = q.pos /\ s.after = q.after
              /\ s.rt = q.rt /\ s.input = Append(q.input, c)
              /\ s.parser = Step(q.parser, c)
          <5>1. LET u == Fed(q, c) IN
                  /\ u \in Reading(text) /\ u.pos = q.pos /\ u.after = q.after
                  /\ u.rt = q.rt /\ u.input = Append(q.input, c)
                  /\ u.parser = Step(q.parser, c)
                  /\ u.ended = Step(q.parser, c).stopped
                  /\ u.inside = IF c = QUOTE THEN ~q.inside ELSE q.inside
            <6>1. q \in Reading(text) /\ c \in Char
              BY <2>1, <2>3
            <6>2. QED
              BY <6>1, FedFacts
          <5>2. QED
            BY <5>1
        <4>2. QED
          BY <2>1, <4>1
      <3> HIDE DEF s
      <3>2. Placed(text, s) /\ From(s) = From(r) + 1
        BY <2>1, <3>1 DEF Placed, From
      <3>3. s.parser = After(Before, s.input)
        BY <2>2, <2>3, <3>1, BeforeTyped, AfterAppend
      <3>4. SubSeq(text, from + 1, From(s)) = s.input \o s.rt
        <4>1. Append(r.input, c) = r.input \o <<c>> /\ s.input \in Seq(Char)
          <5>1. Append(r.input, c) = r.input \o <<c>>
            BY <2>2, <2>3, AppendIsConcat
          <5>2. s.input \in Seq(Char)
            BY <3>1 DEF Reading
          <5>3. QED
            BY <5>1, <5>2
        <4>2. QED
          BY <2>2, <2>3, <3>1, <3>2, <4>1, ConcatEmptySeq
      <3>5. s \in Reads(text, from)
        <4>1. from <= From(s)
          BY <2>1, <3>2
        <4>2. QED
          BY <3>1, <3>2, <3>3, <3>4, <4>1 DEF Reads
      <3>6. QED
        BY <2>1, <2>6, <3>5 DEF s
    <2>7. QED
      BY <2>4, <2>5, <2>6
  <1>3. QED
    BY <1>1, <1>2

LEMMA RecordRuns ==
  ASSUME NULL \notin Char, NEW text \in Seq(Char), NEW from \in Nat,
         NEW start \in Reads(text, from)
  PROVE  \E g \in [0 .. Len(text) + 1 -> Reads(text, from)] :
           /\ g[0] = start
           /\ \A i \in 1 .. Len(text) + 1 : g[i] = Continued(text, g[i - 1])
           /\ RecordRead(text, start) =
                [g[Len(text) + 1] EXCEPT !.parser = Finish(@)]
  <1> DEFINE N == Len(text) + 1
             X == Reads(text, from)
             F == [i \in 1 .. N |-> [r \in X |-> Continued(text, r)]]
             Is(g) == g = [i \in 0 .. N |->
                             IF i = 0 THEN start ELSE Continued(text, g[i - 1])]
  <1>1. N \in Nat
    OBVIOUS
  <1>2. F \in [1 .. N -> [X -> X]] /\ start \in X
    BY ContinuedReads
  <1>3. PICK g \in [0 .. N -> X] :
          g[0] = start /\ \A i \in 1 .. N : g[i] = F[i][g[i - 1]]
    <2> HIDE DEF F, N, X
    <2>1. Runs(N, X, start, F) # {}
      BY <1>1, <1>2, RecursionExists
    <2>2. QED
      BY <2>1 DEF Runs
  <1> HIDE DEF X
  <1>4. ASSUME NEW i \in 1 .. N PROVE g[i] = Continued(text, g[i - 1])
    <2> HIDE DEF N
    <2>1. i - 1 \in 0 .. N
      BY <1>1
    <2>2. g[i - 1] \in X /\ g[i] = F[i][g[i - 1]]
      BY <1>3, <2>1
    <2>3. QED
      BY <2>2
  <1>5. Is(g)
    BY <1>1, <1>3, <1>4
  <1>6. PICK read : Is(read) /\ RecordRead(text, start) =
                                 [read[N] EXCEPT !.parser = Finish(@)]
    <2>1. Is(CHOOSE read : Is(read))
      <3> HIDE DEF Is
      <3>1. QED
        BY <1>5
    <2>2. QED
      BY <2>1 DEF RecordRead
  <1>7. g[0] = read[0]
    BY <1>1, <1>3, <1>6
  <1>8. ASSUME NEW i \in 0 + 1 .. N, g[i - 1] = read[i - 1]
        PROVE  g[i] = read[i]
    <2>1. i \in 1 .. N /\ i \in 0 .. N /\ i # 0
      BY <1>1
    <2>2. QED
      BY <1>4, <1>6, <1>8, <2>1
  <1> HIDE DEF N
  <1>9. \A i \in 0 .. N : g[i] = read[i]
    <2>1. SameOver(0, N, g, read)
      BY <1>1, <1>7, <1>8, SameByStep
    <2>2. QED
      BY <2>1 DEF SameOver
  <1>10. N \in 0 .. N
    BY <1>1
  <1>11. RecordRead(text, start) = [g[N] EXCEPT !.parser = Finish(@)]
    BY <1>6, <1>9, <1>10
  <1>12. QED
    BY <1>3, <1>4, <1>11 DEF N, X

\* What is read for a record: the fields of its characters.
Finished(text) ==
  {r \in [parser : Shapes, pos : 0 .. Len(text), after : Char \cup {NULL},
          inside : BOOLEAN, input : Seq(Char), rt : Seq(Char), ended : BOOLEAN] :
     Placed(text, r) /\ r.parser = Parsed(r.input)}

LEMMA FinishTyped ==
  ASSUME NEW p \in Parsers
  PROVE  Finish(p) \in Shapes
  <1>1. p \in Shapes
    BY DEF Parsers
  <1>2. QED
    BY <1>1, ErrorFacts, BeginFieldFacts DEF Finish

LEMMA RecordFacts ==
  ASSUME NULL \notin Char, NEW text \in Seq(Char), NEW from \in Nat,
         NEW start \in Reads(text, from)
  PROVE  LET r == RecordRead(text, start) IN
           /\ r \in Finished(text) /\ from <= From(r)
           /\ SubSeq(text, from + 1, From(r)) = r.input \o r.rt
  <1>1. PICK g \in [0 .. Len(text) + 1 -> Reads(text, from)] :
          RecordRead(text, start) = [g[Len(text) + 1] EXCEPT !.parser = Finish(@)]
    BY RecordRuns
  <1>2. Len(text) + 1 \in 0 .. Len(text) + 1
    OBVIOUS
  <1>3. PICK last \in Reads(text, from) : last = g[Len(text) + 1]
    BY <1>2
  <1>4. PICK p \in Shapes : p = Finish(last.parser)
    BY FinishTyped DEF Reads, Reading
  <1>5. PICK r : r = RecordRead(text, start)
    OBVIOUS
  <1>6. r = [last EXCEPT !.parser = p]
    BY <1>1, <1>3, <1>4, <1>5
  <1>7. /\ last \in Reading(text) /\ Placed(text, last)
        /\ last.parser = After(Before, last.input) /\ from <= From(last)
        /\ SubSeq(text, from + 1, From(last)) = last.input \o last.rt
    BY DEF Reads
  <1>8. /\ r \in [parser : Shapes, pos : 0 .. Len(text), after : Char \cup {NULL},
                  inside : BOOLEAN, input : Seq(Char), rt : Seq(Char),
                  ended : BOOLEAN]
        /\ r.pos = last.pos /\ r.after = last.after /\ r.input = last.input
        /\ r.rt = last.rt /\ r.parser = p
    BY <1>6, <1>7 DEF Reading
  <1>9. r.parser = Parsed(r.input)
    BY <1>4, <1>7, <1>8 DEF Parsed
  <1>10. Placed(text, r) /\ From(r) = From(last)
    BY <1>7, <1>8 DEF Placed, From
  <1>11. QED
    BY <1>5, <1>7, <1>8, <1>9, <1>10 DEF Finished

-----------------------------------------------------------------------------
(* The files.                                                              *)

Readers ==
  [state : {"closed", "open", "ended", "gone"}, pos : Nat,
   after : Char \cup {NULL}, fs : Separators, freed : BOOLEAN]

\* A record that is returned: what was read, for which reader, and what was
\* written between its fields.
Calls ==
  {c \in [read : UNION {Finished(text) : text \in Seq(Char)}, reader : Readers,
          written : {SEP, NUL}] : c.written \in WrittenFor(c.reader)}

Results == {Result(c.read, c.reader, c.written) : c \in Calls}

\* The inductive invariant: the records are results of calls, the pending
\* character is the last one read, and what was not opened was not read.
CsvInv ==
  /\ docs \in Documents
  /\ readers \in [Csvs -> Readers]
  /\ got \in [Csvs -> Seq(Results)]
  /\ csvfs \in Separators
  /\ \A f \in Csvs : Placed(docs[f].text, readers[f])
  /\ \A f \in Csvs : readers[f].state = "closed" =>
       readers[f].pos = 0 /\ readers[f].after = NULL /\ got[f] = <<>>
  /\ InputKept

\* The texts that records were made from, each with its terminator.
Pieces(g) == [i \in 1 .. Len(g) |-> g[i].csv \o g[i].rt]

LEMMA ResultFacts ==
  ASSUME NEW x \in Results
  PROVE  \E c \in Calls :
           /\ x = Result(c.read, c.reader, c.written)
           /\ x.csv = c.read.input /\ x.rt = c.read.rt
           /\ x.csv \in Seq(Char) /\ x.rt \in Seq(Char)
  <1>1. PICK c \in Calls : x = Result(c.read, c.reader, c.written)
    BY DEF Results
  <1>2. PICK text \in Seq(Char) : c.read \in Finished(text)
    BY DEF Calls
  <1>3. c.read.input \in Seq(Char) /\ c.read.rt \in Seq(Char)
    BY <1>2 DEF Finished
  <1>4. x.csv = c.read.input /\ x.rt = c.read.rt
    BY <1>1 DEF Result
  <1>5. QED
    BY <1>1, <1>3, <1>4

LEMMA PiecesFacts ==
  ASSUME NEW g \in Seq(Results), NEW x \in Results
  PROVE  /\ Pieces(g) \in Seq(Seq(Char)) /\ x.csv \o x.rt \in Seq(Char)
         /\ Pieces(Append(g, x)) = Append(Pieces(g), x.csv \o x.rt)
  <1>1. ASSUME NEW y \in Results PROVE y.csv \o y.rt \in Seq(Char)
    <2>1. y.csv \in Seq(Char) /\ y.rt \in Seq(Char)
      BY ResultFacts
    <2>2. QED
      BY <2>1, ConcatProperties
  <1>2. \A i \in 1 .. Len(g) : g[i].csv \o g[i].rt \in Seq(Char)
    <2>1. \A i \in 1 .. Len(g) : g[i] \in Results
      OBVIOUS
    <2>2. QED
      BY <1>1, <2>1
  <1>3. Pieces(g) \in Seq(Seq(Char)) /\ Len(Pieces(g)) = Len(g)
    BY <1>2 DEF Pieces
  <1> DEFINE h == Append(g, x)
             y == x.csv \o x.rt
             a == Append(Pieces(g), y)
             b == Pieces(h)
  <1>4. /\ b \in Seq(Seq(Char)) /\ Len(b) = Len(g) + 1
        /\ \A i \in 1 .. Len(g) : b[i] = g[i].csv \o g[i].rt
        /\ b[Len(g) + 1] = y
    <2>1. /\ h \in Seq(Results) /\ Len(h) = Len(g) + 1
          /\ h[Len(g) + 1] = x /\ \A i \in 1 .. Len(g) : h[i] = g[i]
      BY AppendProperties
    <2> HIDE DEF h
    <2>2. \A i \in 1 .. Len(g) + 1 : h[i] \in Results
      BY <2>1
    <2>3. \A i \in 1 .. Len(g) + 1 : h[i].csv \o h[i].rt \in Seq(Char)
      BY <1>1, <2>2
    <2>4. Len(g) \in Nat
      OBVIOUS
    <2>5. b = [i \in 1 .. Len(g) + 1 |-> h[i].csv \o h[i].rt]
      BY <2>1 DEF Pieces
    <2> HIDE DEF b
    <2>6. b \in Seq(Seq(Char)) /\ Len(b) = Len(g) + 1
      BY <2>3, <2>4, <2>5
    <2>7. \A i \in 1 .. Len(g) + 1 : b[i] = h[i].csv \o h[i].rt
      BY <2>4, <2>5
    <2>8. b[Len(g) + 1] = y
      <3>1. Len(g) + 1 \in 1 .. Len(g) + 1
        BY <2>4
      <3>2. QED
        BY <2>1, <2>7, <3>1
    <2>9. ASSUME NEW i \in 1 .. Len(g) PROVE b[i] = g[i].csv \o g[i].rt
      <3>1. i \in 1 .. Len(g) + 1
        BY <2>4
      <3>2. QED
        BY <2>1, <2>7, <3>1
    <2>10. QED
      BY <2>6, <2>8, <2>9
  <1>5. /\ a \in Seq(Seq(Char)) /\ Len(a) = Len(g) + 1 /\ a[Len(g) + 1] = y
        /\ \A i \in 1 .. Len(g) : a[i] = g[i].csv \o g[i].rt
    <2>1. y \in Seq(Char)
      BY <1>1
    <2> HIDE DEF y
    <2>2. /\ a \in Seq(Seq(Char)) /\ Len(a) = Len(Pieces(g)) + 1
          /\ \A i \in 1 .. Len(Pieces(g)) : a[i] = Pieces(g)[i]
          /\ a[Len(Pieces(g)) + 1] = y
      BY <1>3, <2>1, AppendProperties
    <2>3. \A i \in 1 .. Len(g) : Pieces(g)[i] = g[i].csv \o g[i].rt
      BY DEF Pieces
    <2> HIDE DEF a
    <2>4. QED
      BY <1>3, <2>2, <2>3
  <1> HIDE DEF a, b, h, y
  <1>6. ASSUME NEW i \in 1 .. Len(b) PROVE a[i] = b[i]
    <2>1. i \in 1 .. Len(g) \/ i = Len(g) + 1
      BY <1>4
    <2>2. QED
      BY <1>4, <1>5, <2>1
  <1>7. a = b
    BY <1>4, <1>5, <1>6, SeqEqual
  <1>8. QED
    BY <1>1, <1>3, <1>7 DEF a, b, h, y

\* A record that begins where the reader stands.
Started(reader) == [Begun EXCEPT !.pos = reader.pos, !.after = Loaded(reader)]

LEMMA StartedReads ==
  ASSUME NULL \notin Char, NEW text \in Seq(Char), NEW reader \in Readers,
         Placed(text, reader)
  PROVE  /\ Started(reader) \in Reads(text, From(reader))
         /\ From(reader) \in 0 .. Len(text)
  <1>1. PICK s : s = Started(reader)
    OBVIOUS
  <1>2. s = [parser |-> Before, pos |-> reader.pos, after |-> reader.after,
             inside |-> FALSE, input |-> <<>>, rt |-> <<>>, ended |-> FALSE]
    BY <1>1 DEF Started, Begun, Loaded
  <1>3. s \in Reading(text) /\ Placed(text, s) /\ From(s) = From(reader)
    BY <1>2, BeforeTyped DEF Reading, Placed, From
  <1>4. From(reader) \in 0 .. Len(text)
    BY FromRange
  <1>5. SubSeq(text, From(reader) + 1, From(s)) = <<>> /\ <<>> \o <<>> = <<>>
    BY <1>3, <1>4, SubSeqEmpty, ConcatEmptySeq, EmptySeq
  <1>6. After(Before, <<>>) = Before
    BY BeforeTyped, AfterNone
  <1>7. s \in Reads(text, From(reader))
    <2>1. s.parser = Before /\ s.input = <<>> /\ s.rt = <<>>
      BY <1>2
    <2>2. From(reader) <= From(s)
      BY <1>3, <1>4
    <2>3. QED
      BY <1>3, <1>5, <1>6, <2>1, <2>2 DEF Reads
  <1>8. QED
    BY <1>1, <1>4, <1>7

LEMMA DocumentsTyped ==
  ASSUME DocumentsWritten, docs \in Documents, NEW f \in Csvs
  PROVE  NULL \notin Char /\ docs[f].text \in Seq(Char)
  BY DEF DocumentsWritten

\* What was read up to the record is read up to its end with it.
LEMMA PrefixLonger ==
  ASSUME NEW text \in Seq(Char), NEW m \in 0 .. Len(text), NEW n \in m .. Len(text)
  PROVE  SubSeq(text, 1, n) = SubSeq(text, 1, m) \o SubSeq(text, m + 1, n)
  <1>1. Len(text) \in Nat
    OBVIOUS
  <1>2. /\ 1 \in 1 .. Len(text) + 1 /\ m \in 1 - 1 .. Len(text)
    BY <1>1
  <1>3. QED
    BY <1>2, ConcatAdjacentSubSeq

LEMMA CsvInitInv ==
  ASSUME DocumentsWritten, CsvInit
  PROVE  CsvInv
  <1>1. \A f \in Csvs :
          /\ readers[f] = [state |-> "closed", pos |-> 0, after |-> NULL,
                           fs |-> <<>>, freed |-> FALSE]
          /\ got[f] = <<>>
    BY DEF CsvInit
  <1>2. readers \in [Csvs -> Readers] /\ csvfs \in Separators
    BY DEF CsvInit, Readers, Separators
  <1>3. got \in [Csvs -> Seq(Results)]
    BY DEF CsvInit
  <1>4. \A f \in Csvs : Placed(docs[f].text, readers[f])
    BY <1>1, DocumentsTyped DEF CsvInit, Placed
  <1>5. InputKept
    BY <1>1 DEF InputKept
  <1>6. QED
    BY <1>1, <1>2, <1>3, <1>4, <1>5 DEF CsvInv, CsvInit

LEMMA OpenCsvInv ==
  ASSUME DocumentsWritten, CsvInv, OpenCsv
  PROVE  CsvInv'
  <1>1. PICK f \in Csvs :
          /\ readers[f].state = "closed"
          /\ readers' = [readers EXCEPT ![f].state = "open", ![f].fs = csvfs]
    BY DEF OpenCsv
  <1>2. UNCHANGED <<docs, got, afterCr, csvfs, assigns>>
    BY DEF OpenCsv
  <1>3. /\ docs \in Documents /\ readers \in [Csvs -> Readers]
        /\ got \in [Csvs -> Seq(Results)] /\ csvfs \in Separators
        /\ \A g \in Csvs : Placed(docs[g].text, readers[g])
        /\ readers[f].pos = 0 /\ readers[f].after = NULL /\ got[f] = <<>>
    BY <1>1 DEF CsvInv
  <1>4. readers' \in [Csvs -> Readers] /\ \A g \in Csvs : g # f => readers'[g] = readers[g]
    <2>1. PICK q : q = [readers[f] EXCEPT !.state = "open", !.fs = csvfs]
      OBVIOUS
    <2>2. readers' = [readers EXCEPT ![f] = q]
      BY <1>1, <1>3, <2>1
    <2>3. q \in Readers
      BY <1>3, <2>1 DEF Readers
    <2>4. QED
      BY <1>3, <2>2, <2>3
  <1>5. /\ readers'[f].state = "open" /\ readers'[f].pos = 0
        /\ readers'[f].after = NULL
    BY <1>1, <1>3 DEF Readers
  <1>6. readers' \in [Csvs -> Readers]
    BY <1>4
  <1>7. \A g \in Csvs : Placed(docs[g].text, readers'[g])
    BY <1>3, <1>4, <1>5, DocumentsTyped DEF Placed
  <1>8. \A g \in Csvs : readers'[g].state = "closed" =>
          readers'[g].pos = 0 /\ readers'[g].after = NULL /\ got[g] = <<>>
    BY <1>4, <1>5 DEF CsvInv
  <1>9. InputKept'
    <2>1. SUFFICES ASSUME NEW g \in Csvs, readers'[g].state = "open"
                   PROVE  FlattenSeq(Pieces(got[g])) =
                            SubSeq(docs[g].text, 1, From(readers'[g]))
      BY <1>2 DEF InputKept, Pieces, From
    <2>2. CASE g = f
      <3>1. Pieces(got[f]) = <<>> /\ From(readers'[f]) = 0
        BY <1>3, <1>5 DEF Pieces, From
      <3>2. SubSeq(docs[f].text, 1, 0) = <<>>
        BY SubSeqEmpty
      <3>3. QED
        BY <2>2, <3>1, <3>2, FlattenNone
    <2>3. CASE g # f
      BY <1>4, <2>1, <2>3 DEF CsvInv, InputKept, Pieces, From
    <2>4. QED
      BY <2>2, <2>3
  <1>10. QED
    BY <1>2, <1>3, <1>6, <1>7, <1>8, <1>9 DEF CsvInv

\* A step that changes neither where files are read nor what was returned.
LEMMA StillKept ==
  ASSUME CsvInv, UNCHANGED <<docs, got>>, readers' \in [Csvs -> Readers],
         csvfs' \in Separators,
         \A f \in Csvs :
           /\ readers'[f].pos = readers[f].pos
           /\ readers'[f].after = readers[f].after
           /\ readers'[f].state = "closed" => readers[f].state = "closed"
           /\ readers'[f].state = "open" => readers[f].state = "open"
  PROVE  CsvInv'
  <1>1. \A f \in Csvs : Placed(docs[f].text, readers'[f])
    BY DEF CsvInv, Placed
  <1>2. \A f \in Csvs : readers'[f].state = "closed" =>
          readers'[f].pos = 0 /\ readers'[f].after = NULL /\ got[f] = <<>>
    BY DEF CsvInv
  <1>3. InputKept'
    <2>1. InputKept
      BY DEF CsvInv
    <2>2. SUFFICES ASSUME NEW f \in Csvs, readers'[f].state = "open"
                   PROVE  FlattenSeq(Pieces(got[f])) =
                            SubSeq(docs[f].text, 1, From(readers'[f]))
      BY DEF InputKept, Pieces, From
    <2>3. From(readers'[f]) = From(readers[f]) /\ readers[f].state = "open"
      BY <2>2 DEF From
    <2>4. FlattenSeq(Pieces(got[f])) = SubSeq(docs[f].text, 1, From(readers[f]))
      BY <2>1, <2>3 DEF InputKept, Pieces, From
    <2>5. QED
      BY <2>3, <2>4
  <1>4. QED
    BY <1>1, <1>2, <1>3 DEF CsvInv

LEMMA AssignCsvfsInv ==
  ASSUME CsvInv, AssignCsvfs
  PROVE  CsvInv'
  <1>1. /\ csvfs' \in Separators /\ UNCHANGED <<docs, got>>
        /\ readers' = [f \in Csvs |-> [readers[f] EXCEPT
                         !.freed = @ \/ readers[f].state # "closed"]]
    BY DEF AssignCsvfs
  <1>2. readers \in [Csvs -> Readers]
    BY DEF CsvInv
  <1>3. ASSUME NEW f \in Csvs
        PROVE  /\ readers'[f] \in Readers
               /\ readers'[f].pos = readers[f].pos
               /\ readers'[f].after = readers[f].after
               /\ readers'[f].state = readers[f].state
    <2>1. PICK freed \in BOOLEAN : freed = (readers[f].freed \/ readers[f].state # "closed")
      OBVIOUS
    <2>2. readers'[f] = [readers[f] EXCEPT !.freed = freed]
      BY <1>1, <1>2, <2>1 DEF Readers
    <2>3. readers[f] \in Readers
      BY <1>2
    <2>4. QED
      BY <2>2, <2>3 DEF Readers
  <1>4. readers' \in [Csvs -> Readers]
    BY <1>1, <1>3
  <1>5. QED
    BY <1>1, <1>3, <1>4, StillKept

LEMMA CloseCsvInv ==
  ASSUME CsvInv, CloseCsv
  PROVE  CsvInv'
  <1>1. PICK f \in Csvs : readers' = [readers EXCEPT ![f].state = "gone"]
    BY Zenon DEF CloseCsv
  <1>2. readers \in [Csvs -> Readers] /\ csvfs' \in Separators /\ UNCHANGED <<docs, got>>
    BY DEF CsvInv, CloseCsv
  <1>3. ASSUME NEW g \in Csvs
        PROVE  /\ readers'[g] \in Readers
               /\ readers'[g].pos = readers[g].pos
               /\ readers'[g].after = readers[g].after
               /\ readers'[g].state = "closed" => readers[g].state = "closed"
               /\ readers'[g].state = "open" => readers[g].state = "open"
    BY <1>1, <1>2 DEF Readers
  <1>4. readers' \in [Csvs -> Readers]
    BY <1>1, <1>2, <1>3
  <1>5. QED
    BY <1>2, <1>3, <1>4, StillKept

\* What was read is returned as a record, or as the end of the file.
Returns(f, r, written) ==
  LET result == Result(r, readers[f], written) IN
    IF result.record = <<>>
    THEN readers' = [readers EXCEPT ![f].state = "ended", ![f].pos = r.pos,
                                    ![f].after = r.after]
         /\ UNCHANGED got
    ELSE readers' = [readers EXCEPT ![f].pos = r.pos, ![f].after = r.after]
         /\ got' = [got EXCEPT ![f] = Append(@, result)]

LEMMA ReadCsvInv ==
  ASSUME DocumentsWritten, CsvInv, ReadCsv
  PROVE  CsvInv'
  <1>1. PICK f \in Csvs :
          /\ readers[f].state = "open"
          /\ \E written \in WrittenFor(readers[f]) :
               Returns(f, RecordRead(docs[f].text, Started(readers[f])), written)
    BY Zenon DEF ReadCsv, Started, Returns
  <1>2. PICK r : r = RecordRead(docs[f].text, Started(readers[f]))
    OBVIOUS
  <1>3. PICK written \in WrittenFor(readers[f]) : Returns(f, r, written)
    BY <1>1, <1>2
  <1>4. UNCHANGED <<docs, csvfs, assigns>>
    BY DEF ReadCsv
  <1>5. /\ docs \in Documents /\ readers \in [Csvs -> Readers]
        /\ got \in [Csvs -> Seq(Results)] /\ csvfs \in Separators
        /\ \A g \in Csvs : Placed(docs[g].text, readers[g])
        /\ NULL \notin Char /\ docs[f].text \in Seq(Char)
        /\ readers[f].state = "open"
    <2>1. /\ docs \in Documents /\ readers \in [Csvs -> Readers]
          /\ got \in [Csvs -> Seq(Results)] /\ csvfs \in Separators
          /\ \A g \in Csvs : Placed(docs[g].text, readers[g])
      BY DEF CsvInv
    <2>2. NULL \notin Char /\ docs[f].text \in Seq(Char)
      BY <2>1, DocumentsTyped
    <2>3. readers[f].state = "open"
      BY <1>1, Zenon
    <2>4. QED
      BY <2>1, <2>2, <2>3
  <1> DEFINE text == docs[f].text
             x == Result(r, readers[f], written)
  <1>6. /\ r \in Finished(text) /\ From(readers[f]) <= From(r)
        /\ SubSeq(text, From(readers[f]) + 1, From(r)) = r.input \o r.rt
        /\ From(readers[f]) \in 0 .. Len(text)
    <2>1. /\ Started(readers[f]) \in Reads(text, From(readers[f]))
          /\ From(readers[f]) \in 0 .. Len(text)
      BY <1>5, StartedReads
    <2>2. PICK start : start = Started(readers[f])
      OBVIOUS
    <2>3. start \in Reads(text, From(readers[f])) /\ From(readers[f]) \in Nat
      BY <2>1, <2>2
    <2>4. LET s == RecordRead(text, start) IN
            /\ s \in Finished(text) /\ From(readers[f]) <= From(s)
            /\ SubSeq(text, From(readers[f]) + 1, From(s)) = s.input \o s.rt
      BY <1>5, <2>3, RecordFacts
    <2>5. QED
      BY <1>2, <2>1, <2>2, <2>4
  <1>7. /\ r.pos \in 0 .. Len(text) /\ r.after \in Char \cup {NULL}
        /\ Placed(text, r) /\ r.pos \in Nat
    BY <1>6 DEF Finished
  <1>8. From(r) \in From(readers[f]) .. Len(text)
    <2>1. From(r) \in 0 .. Len(text)
      BY <1>5, <1>7, FromRange
    <2>2. QED
      BY <1>6, <2>1
  <1>9. x \in Results
    <2>1. readers[f] \in Readers
      BY <1>5
    <2>2. written \in {SEP, NUL}
      BY DEF WrittenFor
    <2>3. PICK c : c = [read |-> r, reader |-> readers[f], written |-> written]
      OBVIOUS
    <2>4. r \in UNION {Finished(t) : t \in Seq(Char)}
      BY <1>5, <1>6
    <2>5. c \in Calls
      BY <2>1, <2>2, <2>3, <2>4 DEF Calls
    <2>6. x = Result(c.read, c.reader, c.written)
      BY <2>3
    <2>7. QED
      BY <2>5, <2>6 DEF Results
  <1>10. x.csv = r.input /\ x.rt = r.rt
    BY DEF Result
  <1> HIDE DEF x
  <1>11. \/ /\ readers' = [readers EXCEPT ![f].state = "ended", ![f].pos = r.pos,
                                          ![f].after = r.after]
            /\ got' = got
         \/ /\ readers' = [readers EXCEPT ![f].pos = r.pos, ![f].after = r.after]
            /\ got' = [got EXCEPT ![f] = Append(@, x)]
    BY <1>3 DEF x, Returns
  <1>12. /\ readers'[f] \in Readers /\ readers'[f].pos = r.pos
         /\ readers'[f].after = r.after /\ readers'[f].state # "closed"
         /\ readers' \in [Csvs -> Readers]
         /\ \A g \in Csvs : g # f => readers'[g] = readers[g]
    <2>1. PICK q : q = [readers[f] EXCEPT !.pos = r.pos, !.after = r.after]
      OBVIOUS
    <2>2. PICK e : e = [readers[f] EXCEPT !.state = "ended", !.pos = r.pos,
                                          !.after = r.after]
      OBVIOUS
    <2>3. readers[f] \in Readers
      BY <1>5
    <2>4. q \in Readers /\ q.pos = r.pos /\ q.after = r.after /\ q.state = "open"
      BY <1>5, <1>7, <2>1, <2>3 DEF Readers
    <2>5. e \in Readers /\ e.pos = r.pos /\ e.after = r.after /\ e.state = "ended"
      BY <1>7, <2>2, <2>3 DEF Readers
    <2>6. readers' = [readers EXCEPT ![f] = q] \/ readers' = [readers EXCEPT ![f] = e]
      BY <1>5, <1>11, <2>1, <2>2
    <2>7. CASE readers' = [readers EXCEPT ![f] = q]
      BY <1>5, <2>4, <2>7
    <2>8. CASE readers' = [readers EXCEPT ![f] = e]
      BY <1>5, <2>5, <2>8
    <2>9. QED
      BY <2>6, <2>7, <2>8
  <1>13. /\ got' \in [Csvs -> Seq(Results)]
         /\ \A g \in Csvs : g # f => got'[g] = got[g]
         /\ readers'[f].state = "open" => got'[f] = Append(got[f], x)
    <2>1. CASE /\ readers' = [readers EXCEPT ![f].state = "ended", ![f].pos = r.pos,
                                             ![f].after = r.after]
               /\ got' = got
      BY <1>5, <2>1 DEF Readers
    <2>2. CASE got' = [got EXCEPT ![f] = Append(@, x)]
      <3>1. Append(got[f], x) \in Seq(Results)
        BY <1>5, <1>9, AppendProperties
      <3>2. QED
        BY <1>5, <2>2, <3>1
    <2>3. QED
      BY <1>11, <2>1, <2>2
  <1>14. \A g \in Csvs : Placed(docs[g].text, readers'[g])
    BY <1>5, <1>7, <1>12 DEF Placed
  <1>15. \A g \in Csvs : readers'[g].state = "closed" =>
           readers'[g].pos = 0 /\ readers'[g].after = NULL /\ got'[g] = <<>>
    BY <1>12, <1>13 DEF CsvInv
  <1>16. InputKept'
    <2>1. SUFFICES ASSUME NEW g \in Csvs, readers'[g].state = "open"
                   PROVE  FlattenSeq(Pieces(got'[g])) =
                            SubSeq(docs[g].text, 1, From(readers'[g]))
      BY <1>4 DEF InputKept, Pieces, From
    <2>2. CASE g # f
      BY <1>12, <1>13, <2>1, <2>2 DEF CsvInv, InputKept, Pieces, From
    <2>3. CASE g = f
      <3>1. FlattenSeq(Pieces(got[f])) = SubSeq(text, 1, From(readers[f]))
        BY <1>5 DEF CsvInv, InputKept, Pieces, From
      <3>2. got'[f] = Append(got[f], x) /\ got[f] \in Seq(Results)
        BY <1>5, <1>13, <2>1, <2>3
      <3>3. /\ Pieces(got'[f]) = Append(Pieces(got[f]), x.csv \o x.rt)
            /\ Pieces(got[f]) \in Seq(Seq(Char)) /\ x.csv \o x.rt \in Seq(Char)
        BY <1>9, <3>2, PiecesFacts
      <3>4. FlattenSeq(Pieces(got'[f])) =
              FlattenSeq(Pieces(got[f])) \o (r.input \o r.rt)
        <4>1. PICK pieces \in Seq(Seq(Char)), piece \in Seq(Char) :
                pieces = Pieces(got[f]) /\ piece = x.csv \o x.rt
          BY <3>3
        <4>2. FlattenSeq(Append(pieces, piece)) = FlattenSeq(pieces) \o piece
          BY FlattenAppend
        <4>3. QED
          BY <1>10, <3>3, <4>1, <4>2
      <3>5. From(readers'[f]) = From(r)
        BY <1>12 DEF From
      <3>6. QED
        BY <1>5, <1>6, <1>8, <2>3, <3>1, <3>4, <3>5, PrefixLonger
    <2>4. QED
      BY <2>2, <2>3
  <1>17. QED
    BY <1>4, <1>5, <1>12, <1>13, <1>14, <1>15, <1>16 DEF CsvInv

LEMMA CsvStutterInv ==
  ASSUME CsvInv, UNCHANGED csvVars
  PROVE  CsvInv'
  BY DEF CsvInv, csvVars, InputKept, Placed

\* The records of a file and their terminators are the file up to where it is
\* read: next_char of csv/csv_input.c loses no character and doubles none.
THEOREM InputIsKept ==
  ASSUME DocumentsWritten
  PROVE  CsvSpec => []InputKept
  <1>1. CsvInit => CsvInv
    BY CsvInitInv
  <1>2. CsvInv /\ [CsvNext]_csvVars => CsvInv'
    BY OpenCsvInv, AssignCsvfsInv, ReadCsvInv, CloseCsvInv, CsvStutterInv DEF CsvNext
  <1>3. CsvInv => InputKept
    BY DEF CsvInv
  <1>4. QED
    BY <1>1, <1>2, <1>3, PTL DEF CsvSpec

-----------------------------------------------------------------------------
(* Fields that are joined, and cut again.                                  *)

\* What is joined field by field.
Joins(S, F, sep) ==
  {g \in [0 .. Len(F) -> Seq(S)] :
     /\ g[0] = <<>>
     /\ \A i \in 1 .. Len(F) :
          g[i] = (IF i > 1 THEN Append(g[i - 1], sep) ELSE <<>>) \o F[i]}

LEMMA JoinedRuns ==
  ASSUME NEW S, NEW F \in Seq(Seq(S)), NEW sep \in S
  PROVE  \E g \in Joins(S, F, sep) : Joined(F, sep) = g[Len(F)]
  <1> DEFINE Next(x, i) == (IF i > 1 THEN Append(x, sep) ELSE <<>>) \o F[i]
             G == [i \in 1 .. Len(F) |-> [x \in Seq(S) |-> Next(x, i)]]
             Is(g) == g = [i \in 0 .. Len(F) |->
                             IF i = 0 THEN <<>> ELSE Next(g[i - 1], i)]
  <1>1. Len(F) \in Nat /\ <<>> \in Seq(S) /\ \A i \in 1 .. Len(F) : F[i] \in Seq(S)
    OBVIOUS
  <1>2. ASSUME NEW i \in 1 .. Len(F), NEW x \in Seq(S) PROVE Next(x, i) \in Seq(S)
    <2>1. Append(x, sep) \in Seq(S)
      BY AppendProperties
    <2>2. QED
      BY <1>1, <2>1, ConcatProperties
  <1> HIDE DEF Next
  <1>3. G \in [1 .. Len(F) -> [Seq(S) -> Seq(S)]]
    BY <1>2
  <1>4. PICK g \in [0 .. Len(F) -> Seq(S)] :
          g[0] = <<>> /\ \A i \in 1 .. Len(F) : g[i] = G[i][g[i - 1]]
    <2> HIDE DEF G
    <2>1. Runs(Len(F), Seq(S), <<>>, G) # {}
      BY <1>1, <1>3, RecursionExists
    <2>2. QED
      BY <2>1 DEF Runs
  <1>5. ASSUME NEW i \in 1 .. Len(F) PROVE g[i] = Next(g[i - 1], i)
    <2>1. i - 1 \in 0 .. Len(F)
      BY <1>1
    <2>2. g[i - 1] \in Seq(S) /\ g[i] = G[i][g[i - 1]]
      BY <1>4, <2>1, Zenon
    <2>3. QED
      BY <2>2
  <1>6. Is(g)
    BY <1>1, <1>4, <1>5
  <1>7. PICK joined : Is(joined) /\ Joined(F, sep) = joined[Len(F)]
    <2>1. Is(CHOOSE joined : Is(joined))
      <3> HIDE DEF Is
      <3>1. QED
        BY <1>6
    <2>2. QED
      BY <2>1, Zenon DEF Joined, Next
  <1>8. g[0] = joined[0]
    BY <1>1, <1>4, <1>7
  <1>9. ASSUME NEW i \in 0 + 1 .. Len(F), g[i - 1] = joined[i - 1]
        PROVE  g[i] = joined[i]
    <2>1. i \in 1 .. Len(F) /\ i \in 0 .. Len(F) /\ i # 0
      BY <1>1
    <2>2. QED
      BY <1>5, <1>7, <1>9, <2>1
  <1>10. \A i \in 0 .. Len(F) : g[i] = joined[i]
    <2>1. SameOver(0, Len(F), g, joined)
      BY <1>1, <1>8, <1>9, SameByStep
    <2>2. QED
      BY <2>1 DEF SameOver
  <1>11. Joined(F, sep) = g[Len(F)]
    BY <1>1, <1>7, <1>10
  <1>12. g \in Joins(S, F, sep)
    BY <1>4, <1>5 DEF Joins, Next
  <1>13. QED
    BY <1>11, <1>12

Begins(x, y) == Len(x) <= Len(y) /\ \A k \in 1 .. Len(x) : y[k] = x[k]

JoinedPart(S, F, g, i) ==
  /\ F[i] \in Seq(S) /\ g[i] \in Seq(S) /\ g[i - 1] \in Seq(S)
  /\ Len(g[i]) = Len(g[i - 1]) + (IF i > 1 THEN 1 ELSE 0) + Len(F[i])
  /\ \A k \in 1 .. Len(F[i]) : g[i][Len(g[i]) - Len(F[i]) + k] = F[i][k]

\* What is joined is an initial part of what is joined with more fields, and
\* ends with its last field.
LEMMA JoinedParts ==
  ASSUME NEW S, NEW F \in Seq(Seq(S)), NEW sep \in S,
         NEW g \in Joins(S, F, sep), NEW i \in 1 .. Len(F)
  PROVE  JoinedPart(S, F, g, i) /\ Begins(g[i - 1], g[i])
  <1> DEFINE x == g[i - 1]
             y == IF i > 1 THEN Append(x, sep) ELSE <<>>
  <1>1. F[i] \in Seq(S) /\ g[i] \in Seq(S) /\ x \in Seq(S)
    <2>1. i \in 0 .. Len(F) /\ i - 1 \in 0 .. Len(F)
      OBVIOUS
    <2>2. g \in [0 .. Len(F) -> Seq(S)]
      BY DEF Joins
    <2>3. F[i] \in Seq(S)
      OBVIOUS
    <2>4. QED
      BY <2>1, <2>2, <2>3
  <1>2. i > 1 \/ (i = 1 /\ x = <<>> /\ Len(x) = 0)
    BY DEF Joins
  <1>3. g[i] = y \o F[i]
    BY DEF Joins
  <1> HIDE DEF x
  <1>4. /\ y \in Seq(S) /\ Len(y) = Len(x) + (IF i > 1 THEN 1 ELSE 0)
        /\ \A k \in 1 .. Len(x) : y[k] = x[k]
    BY <1>1, <1>2, AppendProperties, EmptySeq
  <1> HIDE DEF y
  <1>5. /\ Len(g[i]) = Len(y) + Len(F[i])
        /\ \A k \in 1 .. Len(y) + Len(F[i]) :
             g[i][k] = IF k <= Len(y) THEN y[k] ELSE F[i][k - Len(y)]
    <2>1. /\ Len(y \o F[i]) = Len(y) + Len(F[i])
          /\ \A k \in 1 .. Len(y) + Len(F[i]) :
               (y \o F[i])[k] = IF k <= Len(y) THEN y[k] ELSE F[i][k - Len(y)]
      BY <1>1, <1>4, ConcatProperties
    <2>2. QED
      BY <1>3, <2>1
  <1>6. Len(x) \in Nat /\ Len(y) \in Nat /\ Len(F[i]) \in Nat /\ Len(x) <= Len(y)
    <2>1. Len(x) \in Nat /\ Len(y) \in Nat /\ Len(F[i]) \in Nat
      BY <1>1, <1>4
    <2>2. Len(y) = Len(x) + 1 \/ Len(y) = Len(x)
      BY <1>2, <1>4
    <2>3. QED
      BY <2>1, <2>2
  <1>7. ASSUME NEW k \in 1 .. Len(x) PROVE g[i][k] = x[k]
    <2>1. k \in 1 .. Len(y) + Len(F[i]) /\ k <= Len(y)
      BY <1>6
    <2>2. QED
      BY <1>4, <1>5, <2>1
  <1>8. ASSUME NEW k \in 1 .. Len(F[i])
        PROVE  g[i][Len(g[i]) - Len(F[i]) + k] = F[i][k]
    <2>1. /\ Len(y) + k \in 1 .. Len(y) + Len(F[i]) /\ ~(Len(y) + k <= Len(y))
          /\ (Len(y) + k) - Len(y) = k /\ Len(g[i]) - Len(F[i]) + k = Len(y) + k
      BY <1>5, <1>6
    <2>2. QED
      BY <1>5, <2>1
  <1>9. Len(x) <= Len(g[i])
    BY <1>5, <1>6
  <1>10. QED
    BY <1>1, <1>4, <1>5, <1>7, <1>8, <1>9 DEF x, Begins, JoinedPart

\* Each of them is an initial part of the last.
LEMMA JoinedPrefix ==
  ASSUME NEW S, NEW F \in Seq(Seq(S)), NEW sep \in S,
         NEW g \in Joins(S, F, sep), NEW i \in 0 .. Len(F)
  PROVE  Begins(g[i], g[Len(F)])
  <1> DEFINE Within(n) == Begins(g[i], g[n])
             T == {m \in Nat : i + m <= Len(F) => Within(i + m)}
  <1>1. Len(F) \in Nat /\ \A n \in 0 .. Len(F) : Len(g[n]) \in Nat
    BY DEF Joins
  <1>2. 0 \in T
    BY <1>1 DEF Begins
  <1>3. ASSUME NEW m \in T PROVE m + 1 \in T
    <2>1. SUFFICES ASSUME i + (m + 1) <= Len(F) PROVE Within(i + (m + 1))
      OBVIOUS
    <2>2. PICK n : n = i + (m + 1)
      OBVIOUS
    <2>3. n \in 1 .. Len(F) /\ n \in 0 .. Len(F) /\ n - 1 \in 0 .. Len(F)
          /\ n - 1 = i + m
      BY <1>1, <2>1, <2>2
    <2>4. Within(n - 1)
      BY <2>3
    <2>5. Begins(g[n - 1], g[n])
      BY <2>3, JoinedParts
    <2>6. Len(g[n]) \in Nat /\ Len(g[n - 1]) \in Nat /\ Len(g[i]) \in Nat
      BY <1>1, <2>3
    <2>7. Len(g[i]) <= Len(g[n])
      BY <2>4, <2>5, <2>6 DEF Begins
    <2>8. ASSUME NEW k \in 1 .. Len(g[i]) PROVE g[n][k] = g[i][k]
      <3>1. k \in 1 .. Len(g[n - 1])
        BY <2>4, <2>6 DEF Begins
      <3>2. QED
        BY <2>4, <2>5, <3>1 DEF Begins
    <2>9. QED
      BY <2>2, <2>7, <2>8 DEF Begins
  <1>4. T = Nat
    <2>1. T \in SUBSET Nat
      OBVIOUS
    <2> HIDE DEF T
    <2>2. QED
      BY <1>2, <1>3, <2>1, NatByStep
  <1>5. Len(F) - i \in T /\ i + (Len(F) - i) = Len(F) /\ Len(F) <= Len(F)
    <2>1. Len(F) - i \in Nat
      BY <1>1
    <2> HIDE DEF T
    <2>2. QED
      BY <1>1, <1>4, <2>1
  <1>6. QED
    BY <1>5

\* The last part of each as long as its field.
LastParts(F, g, record) ==
  [i \in 1 .. Len(F) |-> SubSeq(record, Len(g[i]) - Len(F[i]) + 1, Len(g[i]))]

\* The ends that the widths give: those of what is joined field by field.
LEMMA CutRuns ==
  ASSUME NEW S, NEW F \in Seq(Seq(S)), NEW sep \in S, NEW record,
         NEW g \in Joins(S, F, sep)
  PROVE  Cut(record, Widths(F, 1)) = LastParts(F, g, record)
  <1> DEFINE w == Widths(F, 1)
             Is(h) == h = [i \in 0 .. Len(w) |->
                             IF i = 0 THEN 0 ELSE h[i - 1] + w[i].skip + w[i].len]
             e == [i \in 0 .. Len(F) |-> Len(g[i])]
  <1>1. /\ Len(F) \in Nat /\ Len(w) = Len(F)
        /\ \A i \in 1 .. Len(F) : /\ w[i].skip = IF i > 1 THEN 1 ELSE 0
                                  /\ w[i].len = Len(F[i])
    BY DEF Widths
  <1>2. \A i \in 0 .. Len(F) : e[i] \in Nat
    BY DEF Joins
  <1> HIDE DEF w
  <1>3. e[0] = 0
    BY <1>1 DEF Joins
  <1>4. ASSUME NEW i \in 1 .. Len(F) PROVE e[i] = e[i - 1] + w[i].skip + w[i].len
    <2>1. i \in 0 .. Len(F) /\ i - 1 \in 0 .. Len(F)
      BY <1>1
    <2>2. JoinedPart(S, F, g, i)
      BY JoinedParts
    <2>3. QED
      BY <1>1, <2>1, <2>2 DEF JoinedPart
  <1> HIDE DEF e
  <1>5. Is(e)
    <2>1. e = [i \in 0 .. Len(F) |-> e[i]]
      BY DEF e
    <2>2. ASSUME NEW i \in 0 .. Len(F)
          PROVE  e[i] = IF i = 0 THEN 0 ELSE e[i - 1] + w[i].skip + w[i].len
      <3>1. i = 0 \/ i \in 1 .. Len(F)
        BY <1>1
      <3>2. QED
        BY <1>3, <1>4, <3>1
    <2>3. QED
      BY <1>1, <2>1, <2>2
  <1>6. PICK end : /\ Is(end)
                   /\ Cut(record, w) =
                        [i \in 1 .. Len(w) |->
                           SubSeq(record, end[i] - w[i].len + 1, end[i])]
    <2>1. Is(CHOOSE end : Is(end))
      <3> HIDE DEF Is
      <3>1. QED
        BY <1>5
    <2>2. QED
      BY <2>1 DEF Cut
  <1>7. e[0] = end[0]
    BY <1>1, <1>3, <1>6
  <1>8. ASSUME NEW i \in 0 + 1 .. Len(F), e[i - 1] = end[i - 1] PROVE e[i] = end[i]
    <2>1. i \in 1 .. Len(F) /\ i \in 0 .. Len(w) /\ i # 0
      BY <1>1
    <2>2. end[i] = end[i - 1] + w[i].skip + w[i].len
      BY <1>6, <2>1
    <2>3. QED
      BY <1>4, <1>8, <2>1, <2>2
  <1>9. \A i \in 0 .. Len(F) : e[i] = end[i]
    <2>1. SameOver(0, Len(F), e, end)
      BY <1>1, <1>7, <1>8, SameByStep
    <2>2. QED
      BY <2>1 DEF SameOver
  <1>10. ASSUME NEW i \in 1 .. Len(F)
         PROVE  SubSeq(record, end[i] - w[i].len + 1, end[i]) =
                  SubSeq(record, Len(g[i]) - Len(F[i]) + 1, Len(g[i]))
    <2>1. i \in 0 .. Len(F)
      BY <1>1
    <2>2. end[i] = Len(g[i]) /\ w[i].len = Len(F[i])
      BY <1>1, <1>9, <2>1 DEF e
    <2>3. QED
      BY <2>2
  <1>11. QED
    BY <1>1, <1>6, <1>10 DEF w, LastParts

\* Fields that are joined are the ones that are cut by their widths.
LEMMA CutJoined ==
  ASSUME NEW S, NEW F \in Seq(Seq(S)), NEW sep \in S
  PROVE  Cut(Joined(F, sep), Widths(F, 1)) = F
  <1>1. PICK g \in Joins(S, F, sep) : Joined(F, sep) = g[Len(F)]
    BY JoinedRuns
  <1> DEFINE x == g[Len(F)]
  <1>2. Cut(x, Widths(F, 1)) = LastParts(F, g, x)
    BY <1>1, CutRuns
  <1>3. Len(F) \in Nat /\ x \in Seq(S)
    BY <1>1 DEF Joins
  <1>4. ASSUME NEW i \in 1 .. Len(F)
        PROVE  SubSeq(x, Len(g[i]) - Len(F[i]) + 1, Len(g[i])) = F[i]
    <2>1. /\ F[i] \in Seq(S) /\ g[i] \in Seq(S) /\ g[i - 1] \in Seq(S)
          /\ Len(g[i]) = Len(g[i - 1]) + (IF i > 1 THEN 1 ELSE 0) + Len(F[i])
          /\ \A k \in 1 .. Len(F[i]) : g[i][Len(g[i]) - Len(F[i]) + k] = F[i][k]
      <3>1. JoinedPart(S, F, g, i)
        BY <1>1, JoinedParts
      <3>2. QED
        BY <3>1 DEF JoinedPart
    <2>2. Begins(g[i], x)
      <3>1. i \in 0 .. Len(F)
        BY <1>3
      <3>2. QED
        BY <1>1, <3>1, JoinedPrefix
    <2>3. PICK m \in Nat, n \in Nat : m = Len(g[i]) - Len(F[i]) /\ n = Len(F[i])
      <3>1. /\ Len(g[i]) \in Nat /\ Len(g[i - 1]) \in Nat /\ Len(F[i]) \in Nat
        <4>1. \A s \in Seq(S) : Len(s) \in Nat
          OBVIOUS
        <4>2. QED
          BY <2>1, <4>1, Zenon
      <3>2. \A a, b, c \in Nat : a = b + (IF i > 1 THEN 1 ELSE 0) + c => a - c \in Nat
        OBVIOUS
      <3>3. Len(g[i]) - Len(F[i]) \in Nat
        BY <2>1, <3>1, <3>2
      <3>4. QED
        BY <3>1, <3>3
    <2>4. Len(g[i]) = m + n /\ m + n <= Len(x) /\ Len(x) \in Nat
      <3>1. Len(g[i]) \in Nat /\ Len(F[i]) \in Nat /\ Len(x) \in Nat
        <4>1. \A s \in Seq(S) : Len(s) \in Nat
          OBVIOUS
        <4>2. QED
          BY <1>3, <2>1, <4>1, Zenon
      <3>2. Len(g[i]) <= Len(x)
        BY <2>2 DEF Begins
      <3>3. QED
        BY <2>3, <3>1, <3>2
    <2> HIDE DEF x
    <2>5. \A k \in m + 1 .. m + n : x[k] \in S
      <3>1. \A k \in m + 1 .. m + n : k \in 1 .. Len(x)
        BY <2>4
      <3>2. QED
        BY <1>3, <3>1
    <2>6. ASSUME NEW k \in 1 .. n PROVE x[m + k] = F[i][k]
      <3>1. m + k \in 1 .. Len(g[i])
        BY <2>4
      <3>2. QED
        BY <2>1, <2>2, <2>3, <3>1 DEF Begins
    <2>7. m + 1 \in Int /\ m + n \in Int /\ (m + n) - (m + 1) + 1 = n
      OBVIOUS
    <2>8. PICK y : y = SubSeq(x, m + 1, m + n)
      OBVIOUS
    <2>9. /\ y \in Seq(S) /\ Len(y) = n
          /\ \A k \in 1 .. n : y[k] = x[m + k]
      <3>1. /\ y \in Seq(S)
            /\ Len(y) = IF m + 1 <= m + n THEN (m + n) - (m + 1) + 1 ELSE 0
            /\ \A k \in 1 .. (m + n) - (m + 1) + 1 : y[k] = x[(m + 1) + k - 1]
        BY <2>5, <2>7, <2>8, SubSeqProperties
      <3>2. Len(y) = n
        BY <3>1
      <3>3. ASSUME NEW k \in 1 .. n PROVE y[k] = x[m + k]
        <4>1. k \in 1 .. (m + n) - (m + 1) + 1 /\ (m + 1) + k - 1 = m + k
          OBVIOUS
        <4>2. QED
          BY <3>1, <4>1
      <3>4. QED
        BY <3>1, <3>2, <3>3
    <2>10. y = F[i]
      <3>1. F[i] \in Seq(S) /\ Len(y) = Len(F[i])
        BY <2>1, <2>3, <2>9
      <3>2. \A k \in 1 .. Len(y) : y[k] = F[i][k]
        BY <2>6, <2>9
      <3>3. QED
        BY <2>9, <3>1, <3>2, SeqEqual
    <2>11. QED
      BY <2>3, <2>4, <2>8, <2>10
  <1>5. F = [i \in 1 .. Len(F) |-> F[i]]
    OBVIOUS
  <1> HIDE DEF x
  <1>6. QED
    BY <1>1, <1>2, <1>4, <1>5 DEF x, LastParts

-----------------------------------------------------------------------------
(* The three users of the parser.                                          *)

LEMMA ResultAgrees ==
  ASSUME NEW x \in Results, x.exact
  PROVE  x.fields = Split(x.csv) /\ x.record = Convert(x.csv, SEP)
  <1>1. PICK c \in Calls :
          x = Result(c.read, c.reader, c.written) /\ x.csv = c.read.input
    BY ResultFacts
  <1>2. /\ c.reader \in Readers /\ c.written \in WrittenFor(c.reader)
        /\ \E text \in Seq(Char) : c.read \in Finished(text)
    BY <1>1 DEF Calls
  <1> DEFINE F == c.read.parser.fields
  <1>3. F \in Seq(Seq(Char)) /\ F = Split(x.csv)
    BY <1>1, <1>2 DEF Finished, Shapes, Split
  <1>4. /\ x.record = Joined(F, c.written)
        /\ x.fields = Cut(Joined(F, c.written), Widths(F, Len(c.reader.fs)))
        /\ x.exact = (~c.reader.freed /\ c.reader.fs # <<>>)
    BY <1>1 DEF Result
  <1> HIDE DEF F
  <1>5. /\ ~c.reader.freed /\ c.reader.fs = <<SEP>>
    BY <1>2, <1>4 DEF Readers, Separators
  <1>6. Len(c.reader.fs) = 1 /\ c.written = SEP
    BY <1>2, <1>5 DEF WrittenFor
  <1>7. F \in Seq(Seq(Char \cup {SEP}))
    <2>1. \A s \in Seq(Char) : s \in Seq(Char \cup {SEP})
      BY SeqMonotonic
    <2>2. Seq(Char) \subseteq Seq(Char \cup {SEP})
      BY <2>1
    <2>3. QED
      BY <1>3, <2>2, SeqMonotonic
  <1>8. Cut(Joined(F, SEP), Widths(F, 1)) = F
    <2>1. SEP \in Char \cup {SEP}
      OBVIOUS
    <2>2. QED
      BY <1>7, <2>1, CutJoined
  <1>9. QED
    BY <1>3, <1>4, <1>6, <1>8 DEF Convert

\* The fields of every record are those that csvsplit finds in CSVRECORD, and
\* $0 is what csvconvert makes of it: csv/csv_input.c cuts the record that it
\* wrote where it wrote the fields, unless CSVFS is empty or was assigned.
THEOREM ReadersDoAgree ==
  ASSUME DocumentsWritten
  PROVE  CsvSpec => []ReadersAgree
  <1>1. CsvInit => CsvInv
    BY CsvInitInv
  <1>2. CsvInv /\ [CsvNext]_csvVars => CsvInv'
    BY OpenCsvInv, AssignCsvfsInv, ReadCsvInv, CloseCsvInv, CsvStutterInv DEF CsvNext
  <1>3. CsvInv => ReadersAgree
    <2>1. SUFFICES ASSUME CsvInv, NEW f \in Csvs, NEW i \in 1 .. Len(got[f]),
                          got[f][i].exact
                   PROVE  /\ got[f][i].fields = Split(got[f][i].csv)
                          /\ got[f][i].record = Convert(got[f][i].csv, SEP)
      BY DEF ReadersAgree
    <2>2. got[f] \in Seq(Results)
      BY <2>1 DEF CsvInv
    <2>3. got[f][i] \in Results
      BY <2>2
    <2>4. QED
      BY <2>1, <2>3, ResultAgrees
  <1>4. QED
    BY <1>1, <1>2, <1>3, PTL DEF CsvSpec

-----------------------------------------------------------------------------
(* Texts that the reader passes to the parser to their end: it takes for   *)
(* quoted what the parser takes for quoted, and neither ends the record.   *)

Inside(p) == p.state = "IN_QUOTED_FIELD"

Passed(p, c) ==
  /\ c \in {CR, LF} => Inside(p)
  /\ ~Step(p, c).stopped
  /\ Inside(Step(p, c)) = IF c = QUOTE THEN ~Inside(p) ELSE Inside(p)

Passes(p, s) == \A i \in 1 .. Len(s) : Passed(After(p, SubSeq(s, 1, i - 1)), s[i])

LEMMA SubSeqAppend ==
  ASSUME NEW S, NEW s \in Seq(S), NEW c \in S, NEW n \in 0 .. Len(s)
  PROVE  SubSeq(Append(s, c), 1, n) = SubSeq(s, 1, n)
  <1>1. CASE n = 0
    BY <1>1, SubSeqEmpty
  <1>2. CASE n # 0
    <2>1. /\ Append(s, c) = s \o <<c>> /\ <<c>> \in Seq(S)
          /\ n \in 1 .. Len(s) /\ 1 \in 1 .. Len(s)
      BY <1>2, AppendIsConcat
    <2>2. QED
      BY <2>1, SubSeqOfConcat1
  <1>3. QED
    BY <1>1, <1>2

LEMMA PassesAppend ==
  ASSUME NEW p \in Parsers, NEW s \in Seq(Char), NEW c \in Char
  PROVE  Passes(p, Append(s, c)) <=> Passes(p, s) /\ Passed(After(p, s), c)
  <1> DEFINE t == Append(s, c)
  <1>1. /\ Len(s) \in Nat /\ Len(t) = Len(s) + 1
        /\ \A i \in 1 .. Len(s) : t[i] = s[i]
        /\ t[Len(s) + 1] = c
    BY AppendProperties
  <1>2. \A n \in 0 .. Len(s) : SubSeq(t, 1, n) = SubSeq(s, 1, n)
    BY SubSeqAppend
  <1>3. SubSeq(s, 1, Len(s)) = s
    BY SubSeqFull
  <1> HIDE DEF t
  <1>4. ASSUME NEW i \in 1 .. Len(s)
        PROVE  /\ i \in 1 .. Len(t) /\ t[i] = s[i]
               /\ SubSeq(t, 1, i - 1) = SubSeq(s, 1, i - 1)
    <2>1. i \in 1 .. Len(t) /\ i - 1 \in 0 .. Len(s)
      BY <1>1
    <2>2. QED
      BY <1>1, <1>2, <2>1
  <1>5. /\ Len(s) + 1 \in 1 .. Len(t)
        /\ SubSeq(t, 1, (Len(s) + 1) - 1) = s
    <2>1. Len(s) \in 0 .. Len(s) /\ (Len(s) + 1) - 1 = Len(s)
          /\ Len(s) + 1 \in 1 .. Len(t)
      BY <1>1
    <2>2. QED
      BY <1>2, <1>3, <2>1
  <1>6. \A i \in 1 .. Len(t) : i \in 1 .. Len(s) \/ i = Len(s) + 1
    BY <1>1
  <1>7. QED
    BY <1>1, <1>4, <1>5, <1>6 DEF Passes, t

LEMMA PassesNone ==
  ASSUME NEW p \in Parsers
  PROVE  Passes(p, <<>>)
  BY DEF Passes

LEMMA PassesConcat ==
  ASSUME NEW p \in Parsers, NEW s \in Seq(Char), NEW t \in Seq(Char),
         Passes(p, s), Passes(After(p, s), t)
  PROVE  Passes(p, s \o t)
  <1> DEFINE T == {u \in Seq(Char) : Passes(After(p, s), u) => Passes(p, s \o u)}
  <1>1. <<>> \in T
    BY ConcatEmptySeq, EmptySeq
  <1>2. ASSUME NEW u \in T, NEW c \in Char PROVE Append(u, c) \in T
    <2>1. u \in Seq(Char) /\ Append(u, c) \in Seq(Char)
      BY AppendProperties
    <2>2. SUFFICES ASSUME Passes(After(p, s), Append(u, c))
                   PROVE  Passes(p, s \o Append(u, c))
      BY <2>1
    <2>3. Passes(After(p, s), u) /\ Passed(After(After(p, s), u), c)
      BY <2>1, <2>2, AfterTyped, PassesAppend
    <2>4. Passes(p, s \o u) /\ After(After(p, s), u) = After(p, s \o u)
      BY <2>1, <2>3, AfterConcat
    <2>5. s \o u \in Seq(Char) /\ s \o Append(u, c) = Append(s \o u, c)
      BY <2>1, ConcatProperties, AppendToConcat
    <2>6. PICK w \in Seq(Char) : w = s \o u
      BY <2>5
    <2>7. Passes(p, w) /\ Passed(After(p, w), c)
      BY <2>3, <2>4, <2>6
    <2>8. Passes(p, Append(w, c))
      BY <2>7, PassesAppend
    <2>9. QED
      BY <2>5, <2>6, <2>8
  <1>3. T = Seq(Char)
    <2>1. T \in SUBSET Seq(Char)
      OBVIOUS
    <2> HIDE DEF T
    <2>2. QED
      BY <1>1, <1>2, <2>1, SeqByStep
  <1>4. QED
    BY <1>3

LEMMA AfterOne ==
  ASSUME NEW p \in Parsers, NEW c \in Char
  PROVE  After(p, <<c>>) = Step(p, c) /\ (Passes(p, <<c>>) <=> Passed(p, c))
  <1>1. PICK s \in Seq(Char) : s = <<>> /\ Append(s, c) = <<c>>
    <2>1. <<>> \in Seq(Char) /\ Append(<<>>, c) = <<c>>
      OBVIOUS
    <2>2. QED
      BY <2>1
  <1>2. After(p, s) = p /\ Passes(p, s)
    BY <1>1, AfterNone, PassesNone
  <1>3. After(p, Append(s, c)) = Step(After(p, s), c)
    BY AfterAppend
  <1>4. Passes(p, Append(s, c)) <=> Passes(p, s) /\ Passed(After(p, s), c)
    BY PassesAppend
  <1>5. QED
    BY <1>1, <1>2, <1>3, <1>4

-----------------------------------------------------------------------------
(* Fields that are quoted.                                                 *)

LEMMA Distinct ==
  /\ DELIM # QUOTE /\ DELIM # LF /\ DELIM # CR
  /\ QUOTE # LF /\ QUOTE # CR /\ LF # CR
  BY DEF DELIM, QUOTE, LF, CR

\* The last field of what has one more.
LEMMA LongerLast ==
  ASSUME NEW S, NEW F \in Seq(Seq(S)), NEW s \in Seq(S), NEW c \in S
  PROVE  [Append(F, s) EXCEPT ![Len(Append(F, s))] = Append(@, c)] =
           Append(F, Append(s, c))
  <1> DEFINE G == Append(F, s)
             x == Append(s, c)
             a == [G EXCEPT ![Len(G)] = x]
             b == Append(F, x)
  <1>1. x \in Seq(S) /\ Len(F) \in Nat
    BY AppendProperties
  <1> HIDE DEF x
  <1>2. /\ G \in Seq(Seq(S)) /\ Len(G) = Len(F) + 1 /\ G[Len(F) + 1] = s
        /\ \A i \in 1 .. Len(F) : G[i] = F[i]
    BY AppendProperties
  <1>3. /\ b \in Seq(Seq(S)) /\ Len(b) = Len(F) + 1 /\ b[Len(F) + 1] = x
        /\ \A i \in 1 .. Len(F) : b[i] = F[i]
    BY <1>1, AppendProperties
  <1> HIDE DEF G, b
  <1>4. Len(G) \in 1 .. Len(G)
    BY <1>1, <1>2
  <1>5. /\ a \in Seq(Seq(S)) /\ Len(a) = Len(G)
        /\ \A i \in 1 .. Len(G) : a[i] = IF i = Len(G) THEN x ELSE G[i]
    BY <1>1, <1>2, <1>4, ExceptSeq
  <1> HIDE DEF a
  <1>6. ASSUME NEW i \in 1 .. Len(a) PROVE a[i] = b[i]
    <2>1. (i \in 1 .. Len(F) /\ i # Len(G)) \/ (i = Len(F) + 1 /\ i = Len(G))
      <3>1. Len(F) \in Nat /\ Len(G) = Len(F) + 1 /\ Len(a) = Len(F) + 1
        BY <1>1, <1>2, <1>5
      <3>2. i \in 1 .. Len(F) + 1
        BY <3>1
      <3>3. QED
        BY <3>1, <3>2
    <2>2. i \in 1 .. Len(G)
      BY <1>5
    <2>3. a[i] = IF i = Len(G) THEN x ELSE G[i]
      BY <1>5, <2>2
    <2>4. QED
      BY <1>2, <1>3, <2>1, <2>3
  <1>7. a = b
    BY <1>2, <1>3, <1>5, <1>6, SeqEqual
  <1>8. G[Len(G)] = s
    BY <1>2
  <1>9. QED
    BY <1>7, <1>8 DEF a, b, G, x

LEMMA PutLonger ==
  ASSUME NEW p \in Shapes, NEW F \in Seq(Seq(Char)), NEW s \in Seq(Char),
         p.fields = Append(F, s), NEW c \in Char
  PROVE  /\ Put(p, c) \in Shapes /\ Put(p, c).state = p.state
         /\ Put(p, c).fields = Append(F, Append(s, c))
         /\ Put(p, c).stopped = p.stopped
  <1>1. Append(F, s) # <<>>
    BY AppendProperties
  <1>2. Longer(p.fields, c) = Append(F, Append(s, c))
    BY LongerLast DEF Longer
  <1>3. QED
    BY <1>1, <1>2, PutFacts

LEMMA ToSetAppend ==
  ASSUME NEW S, NEW s \in Seq(S), NEW c \in S
  PROVE  ToSet(Append(s, c)) = ToSet(s) \cup {c}
  <1> DEFINE t == Append(s, c)
  <1>1. /\ Len(s) \in Nat /\ DOMAIN s = 1 .. Len(s) /\ DOMAIN t = 1 .. Len(s) + 1
        /\ \A i \in 1 .. Len(s) : t[i] = s[i]
        /\ t[Len(s) + 1] = c
    BY AppendProperties, LenProperties
  <1> HIDE DEF t
  <1>2. \A i \in 1 .. Len(s) + 1 : i \in 1 .. Len(s) \/ i = Len(s) + 1
    BY <1>1
  <1>3. 1 .. Len(s) + 1 = 1 .. Len(s) \cup {Len(s) + 1}
    BY <1>1
  <1>4. QED
    BY <1>1, <1>3 DEF ToSet, t

\* A parser that is at the beginning of a field.
AtField(p) ==
  p \in Parsers /\ ~p.stopped /\ p.state \in {"BEFORE_FIELD", "AFTER_DELIM"}

\* A parser that has read a field f more than p.
InField(p, q, f, state) ==
  /\ q \in Parsers /\ ~q.stopped /\ q.state = state
  /\ q.fields = Append(p.fields, f)

Plain == Char \ {DELIM, QUOTE, LF}

LEMMA FieldsTyped ==
  ASSUME NEW p \in Parsers
  PROVE  p \in Shapes /\ p.fields \in Seq(Seq(Char)) /\ p.stopped \in BOOLEAN
  BY DEF Parsers, Shapes

LEMMA PlainFirst ==
  ASSUME NEW p, AtField(p), NEW c \in Plain
  PROVE  /\ InField(p, Step(p, c), <<c>>, "IN_UNQUOTED_FIELD")
         /\ c # CR => Passed(p, c)
  <1>1. p \in Parsers /\ p \in Shapes /\ p.fields \in Seq(Seq(Char)) /\ c \in Char
    BY FieldsTyped DEF AtField, Plain
  <1>2. Step(p, c) = To(Put(BeginField(p), c), "IN_UNQUOTED_FIELD")
    BY DEF AtField, Step, Field, Plain
  <1>3. /\ BeginField(p) \in Shapes /\ BeginField(p).fields = Append(p.fields, <<>>)
        /\ BeginField(p).stopped = p.stopped /\ <<>> \in Seq(Char)
    BY <1>1, BeginFieldFacts
  <1>4. /\ Put(BeginField(p), c) \in Shapes
        /\ Put(BeginField(p), c).fields = Append(p.fields, Append(<<>>, c))
        /\ Put(BeginField(p), c).stopped = p.stopped
    BY <1>1, <1>3, PutLonger
  <1>5. /\ Step(p, c).state = "IN_UNQUOTED_FIELD" /\ ~Step(p, c).stopped
        /\ Step(p, c).fields = Append(p.fields, Append(<<>>, c))
    BY <1>2, <1>4, ToFacts DEF States, AtField
  <1>6. Append(<<>>, c) = <<c>>
    OBVIOUS
  <1>7. Step(p, c) \in Parsers
    BY <1>1, StepTyped
  <1>8. c # CR => Passed(p, c)
    BY <1>5 DEF Passed, Inside, Plain, AtField
  <1>9. QED
    BY <1>5, <1>6, <1>7, <1>8 DEF InField

LEMMA PlainNext ==
  ASSUME NEW p, AtField(p), NEW u \in Seq(Char), NEW c \in Plain,
         NEW q, InField(p, q, u, "IN_UNQUOTED_FIELD")
  PROVE  /\ InField(p, Step(q, c), Append(u, c), "IN_UNQUOTED_FIELD")
         /\ c # CR => Passed(q, c)
  <1>1. /\ p.fields \in Seq(Seq(Char)) /\ c \in Char /\ q \in Parsers /\ q \in Shapes
        /\ q.fields = Append(p.fields, u) /\ ~q.stopped
        /\ q.state = "IN_UNQUOTED_FIELD"
    BY FieldsTyped DEF AtField, InField, Plain
  <1>2. Step(q, c) = Put(q, c)
    BY <1>1 DEF Step, Unquoted, Plain
  <1>3. /\ Step(q, c).fields = Append(p.fields, Append(u, c))
        /\ Step(q, c).state = q.state /\ Step(q, c).stopped = q.stopped
    <2>1. /\ Put(q, c).fields = Append(p.fields, Append(u, c))
          /\ Put(q, c).state = q.state /\ Put(q, c).stopped = q.stopped
      BY <1>1, PutLonger
    <2>2. QED
      BY <1>2, <2>1
  <1>4. Step(q, c) \in Parsers
    BY <1>1, StepTyped
  <1>5. c # CR => Passed(q, c)
    BY <1>1, <1>3 DEF Passed, Inside, Plain
  <1>6. QED
    BY <1>1, <1>3, <1>4, <1>5 DEF InField

\* A field that is not quoted.
LEMMA PlainField ==
  ASSUME NEW p, AtField(p), NEW f \in Seq(Plain), f # <<>>
  PROVE  /\ InField(p, After(p, f), f, "IN_UNQUOTED_FIELD")
         /\ CR \notin ToSet(f) => Passes(p, f)
  <1> DEFINE Is(u) == /\ InField(p, After(p, u), u, "IN_UNQUOTED_FIELD")
                      /\ CR \notin ToSet(u) => Passes(p, u)
             T == {u \in Seq(Plain) : u # <<>> => Is(u)}
  <1>1. p \in Parsers /\ Plain \subseteq Char
    BY DEF AtField, Plain
  <1>2. \A u \in Seq(Plain) : u \in Seq(Char)
    BY <1>1, SeqMonotonic
  <1>3. ASSUME NEW u \in T, NEW c \in Plain PROVE Append(u, c) \in T
    <2>1. /\ u \in Seq(Plain) /\ u \in Seq(Char) /\ c \in Char
          /\ Append(u, c) \in Seq(Plain)
      BY <1>1, <1>2, AppendProperties
    <2>2. ToSet(Append(u, c)) = ToSet(u) \cup {c}
      BY <2>1, ToSetAppend
    <2>3. CASE u = <<>>
      <3>1. Append(u, c) = <<c>>
        BY <2>3
      <3>2. /\ InField(p, Step(p, c), <<c>>, "IN_UNQUOTED_FIELD")
            /\ c # CR => Passed(p, c)
        BY PlainFirst
      <3>3. After(p, <<c>>) = Step(p, c) /\ (Passes(p, <<c>>) <=> Passed(p, c))
        BY <1>1, <2>1, AfterOne
      <3>4. Is(Append(u, c))
        BY <2>2, <3>1, <3>2, <3>3
      <3>5. QED
        BY <2>1, <3>4
    <2>4. CASE u # <<>>
      <3>1. Is(u)
        BY <2>4
      <3>2. After(p, Append(u, c)) = Step(After(p, u), c)
        BY <1>1, <2>1, AfterAppend
      <3>3. /\ InField(p, Step(After(p, u), c), Append(u, c), "IN_UNQUOTED_FIELD")
            /\ c # CR => Passed(After(p, u), c)
        BY <2>1, <3>1, PlainNext
      <3>4. Passes(p, Append(u, c)) <=> Passes(p, u) /\ Passed(After(p, u), c)
        BY <1>1, <2>1, PassesAppend
      <3>5. Is(Append(u, c))
        BY <2>2, <3>1, <3>2, <3>3, <3>4
      <3>6. QED
        BY <2>1, <3>5
    <2>5. QED
      BY <2>3, <2>4
  <1>4. T = Seq(Plain)
    <2>1. T \in SUBSET Seq(Plain) /\ <<>> \in T
      OBVIOUS
    <2> HIDE DEF T
    <2>2. QED
      BY <1>3, <2>1, SeqByStep
  <1>5. f \in T
    BY <1>4
  <1>6. QED
    BY <1>5

\* What a function makes of each element.
Mapped(m, s) == [i \in 1 .. Len(s) |-> m[s[i]]]

LEMMA MappedTyped ==
  ASSUME NEW S, NEW X, NEW m \in [S -> X], NEW s \in Seq(S)
  PROVE  Mapped(m, s) \in Seq(X) /\ Len(Mapped(m, s)) = Len(s)
  <1>1. Len(s) \in Nat /\ \A i \in 1 .. Len(s) : m[s[i]] \in X
    OBVIOUS
  <1>2. QED
    BY <1>1 DEF Mapped

LEMMA MappedAppend ==
  ASSUME NEW S, NEW X, NEW m \in [S -> X], NEW s \in Seq(S), NEW c \in S
  PROVE  Mapped(m, Append(s, c)) = Append(Mapped(m, s), m[c])
  <1> DEFINE t == Append(s, c)
             a == Mapped(m, t)
             b == Append(Mapped(m, s), m[c])
  <1>1. /\ Len(s) \in Nat /\ t \in Seq(S) /\ Len(t) = Len(s) + 1
        /\ \A i \in 1 .. Len(s) : t[i] = s[i] /\ s[i] \in S
        /\ t[Len(s) + 1] = c
    BY AppendProperties
  <1>2. Mapped(m, s) \in Seq(X) /\ Len(Mapped(m, s)) = Len(s)
    BY <1>1 DEF Mapped
  <1>3. \A i \in 1 .. Len(s) : Mapped(m, s)[i] = m[s[i]]
    BY <1>1 DEF Mapped
  <1>4. /\ b \in Seq(X) /\ Len(b) = Len(s) + 1 /\ b[Len(s) + 1] = m[c]
        /\ \A i \in 1 .. Len(s) : b[i] = m[s[i]]
    <2>1. m[c] \in X
      OBVIOUS
    <2>2. QED
      BY <1>2, <1>3, <2>1, AppendProperties
  <1> HIDE DEF t, b
  <1>5. \A i \in 1 .. Len(s) + 1 : i \in 1 .. Len(s) \/ i = Len(s) + 1
    BY <1>1
  <1>6. \A i \in 1 .. Len(s) + 1 : t[i] \in S
    BY <1>1, <1>5
  <1>7. a \in Seq(X) /\ Len(a) = Len(s) + 1
    BY <1>1, <1>6 DEF Mapped
  <1>8. \A i \in 1 .. Len(s) + 1 : a[i] = m[t[i]]
    BY <1>1 DEF Mapped
  <1> HIDE DEF a
  <1>9. \A i \in 1 .. Len(a) : a[i] = b[i]
    BY <1>1, <1>4, <1>5, <1>7, <1>8
  <1>10. a = b
    BY <1>4, <1>7, <1>9, SeqEqual
  <1>11. QED
    BY <1>10 DEF a, b, t

\* A quote inside of quotes is two.
Quotes == [c \in Char |-> IF c = QUOTE THEN <<QUOTE, QUOTE>> ELSE <<c>>]

Doubled(s) == FlattenSeq(Mapped(Quotes, s))

LEMMA QuotesTyped == Quotes \in [Char -> Seq(Char)]
  BY CharsTyped DEF Quotes

LEMMA DoubledFacts ==
  ASSUME NEW s \in Seq(Char)
  PROVE  /\ Doubled(s) \in Seq(Char)
         /\ \A c \in Char : Doubled(Append(s, c)) = Doubled(s) \o Quotes[c]
  <1>1. ASSUME NEW c \in Char
        PROVE  /\ Doubled(s) \in Seq(Char)
               /\ Doubled(Append(s, c)) = Doubled(s) \o Quotes[c]
    <2>1. /\ Mapped(Quotes, s) \in Seq(Seq(Char)) /\ Quotes[c] \in Seq(Char)
          /\ Mapped(Quotes, Append(s, c)) = Append(Mapped(Quotes, s), Quotes[c])
      <3>1. Quotes[c] \in Seq(Char)
        BY QuotesTyped
      <3>2. Mapped(Quotes, s) \in Seq(Seq(Char))
        BY QuotesTyped, MappedTyped
      <3>3. Mapped(Quotes, Append(s, c)) = Append(Mapped(Quotes, s), Quotes[c])
        BY QuotesTyped, MappedAppend
      <3>4. QED
        BY <3>1, <3>2, <3>3
    <2>2. QED
      BY <2>1, FlattenAppend DEF Doubled
  <1>2. QED
    BY <1>1, CharsTyped

LEMMA DoubledNone == Doubled(<<>>) = <<>>
  <1>1. Mapped(Quotes, <<>>) = <<>>
    BY DEF Mapped
  <1>2. QED
    BY <1>1, FlattenNone DEF Doubled

LEMMA QuotedIs ==
  ASSUME NEW s \in Seq(Char), {DELIM, QUOTE, LF} \cap ToSet(s) # {}
  PROVE  csvquote(s) = <<QUOTE>> \o Doubled(s) \o <<QUOTE>>
  <1>1. \A i \in 1 .. Len(s) : s[i] \in Char
    OBVIOUS
  <1>2. Mapped(Quotes, s) =
          [i \in 1 .. Len(s) |->
             IF s[i] = QUOTE THEN <<QUOTE, QUOTE>> ELSE <<s[i]>>]
    BY <1>1 DEF Mapped, Quotes
  <1>3. QED
    BY <1>2 DEF csvquote, Doubled

\* A character inside of quotes, and a quote, which is two.
LEMMA InQuotes ==
  ASSUME NEW p, AtField(p), NEW u \in Seq(Char), NEW c \in Char,
         NEW q, InField(p, q, u, "IN_QUOTED_FIELD")
  PROVE  /\ InField(p, After(q, Quotes[c]), Append(u, c), "IN_QUOTED_FIELD")
         /\ Passes(q, Quotes[c])
  <1>1. /\ p.fields \in Seq(Seq(Char)) /\ q \in Parsers /\ q \in Shapes
        /\ q.fields = Append(p.fields, u) /\ ~q.stopped
        /\ q.state = "IN_QUOTED_FIELD"
    BY FieldsTyped DEF AtField, InField
  <1>2. CASE c # QUOTE
    <2>1. Step(q, c) = Put(q, c) /\ Quotes[c] = <<c>>
      BY <1>1, <1>2 DEF Step, Quoted, Quotes
    <2>2. /\ Put(q, c).fields = Append(p.fields, Append(u, c))
          /\ Put(q, c).state = q.state /\ Put(q, c).stopped = q.stopped
      BY <1>1, PutLonger
    <2>3. Step(q, c) \in Parsers
      BY <1>1, StepTyped
    <2>4. Passed(q, c)
      BY <1>1, <1>2, <2>1, <2>2 DEF Passed, Inside
    <2>5. InField(p, Step(q, c), Append(u, c), "IN_QUOTED_FIELD")
      BY <1>1, <2>1, <2>2, <2>3 DEF InField
    <2>6. QED
      BY <1>1, <2>1, <2>4, <2>5, AfterOne
  <1>3. CASE c = QUOTE
    <2> DEFINE r == Step(q, QUOTE)
    <2>1. Quotes[c] = Append(<<QUOTE>>, QUOTE) /\ <<QUOTE>> \in Seq(Char)
      BY <1>3, CharsTyped DEF Quotes
    <2>2. r = To(q, "AFTER_QUOTE")
      BY <1>1 DEF Step, Quoted
    <2>3. /\ r \in Parsers /\ r \in Shapes /\ r.state = "AFTER_QUOTE"
          /\ r.fields = Append(p.fields, u) /\ ~r.stopped
      <3>1. r \in Parsers
        BY <1>1, StepTyped, CharsTyped
      <3>2. "AFTER_QUOTE" \in States
        BY DEF States
      <3>3. /\ r.state = "AFTER_QUOTE" /\ r.fields = q.fields
            /\ r.stopped = q.stopped
        BY <1>1, <2>2, <3>2, ToFacts
      <3>4. QED
        BY <1>1, <3>1, <3>3, FieldsTyped
    <2>4. Passed(q, QUOTE)
      BY <1>1, <2>3, Distinct DEF Passed, Inside
    <2> HIDE DEF r
    <2>5. Step(r, QUOTE) = To(Put(r, QUOTE), "IN_QUOTED_FIELD")
      BY <2>3, Distinct DEF Step, AfterQuote
    <2>6. /\ Put(r, QUOTE) \in Shapes /\ Put(r, QUOTE).stopped = r.stopped
          /\ Put(r, QUOTE).fields = Append(p.fields, Append(u, QUOTE))
      <3>1. PICK F \in Seq(Seq(Char)), c2 \in Char : F = p.fields /\ c2 = QUOTE
        BY <1>1, CharsTyped
      <3>2. r \in Shapes /\ r.fields = Append(F, u)
        BY <2>3, <3>1
      <3>3. /\ Put(r, c2) \in Shapes /\ Put(r, c2).stopped = r.stopped
            /\ Put(r, c2).fields = Append(F, Append(u, c2))
        BY <3>2, PutLonger
      <3>4. QED
        BY <3>1, <3>3
    <2>7. /\ Step(r, QUOTE).state = "IN_QUOTED_FIELD" /\ ~Step(r, QUOTE).stopped
          /\ Step(r, QUOTE).fields = Append(p.fields, Append(u, QUOTE))
      <3>1. "IN_QUOTED_FIELD" \in States
        BY DEF States
      <3>2. QED
        <4>1. PICK y \in Shapes : y = Put(r, QUOTE)
          BY <2>6
        <4>2. LET z == To(y, "IN_QUOTED_FIELD") IN
                /\ z.state = "IN_QUOTED_FIELD" /\ z.fields = y.fields
                /\ z.stopped = y.stopped
          BY <3>1, ToFacts
        <4>3. QED
          BY <2>3, <2>5, <2>6, <4>1, <4>2
    <2>8. Step(r, QUOTE) \in Parsers
      BY <2>3, StepTyped, CharsTyped
    <2>9. Passed(r, QUOTE)
      BY <2>3, <2>7, Distinct DEF Passed, Inside
    <2>10. After(q, <<QUOTE>>) = r /\ Passes(q, <<QUOTE>>)
      BY <1>1, <2>4, AfterOne, CharsTyped DEF r
    <2>11. After(q, Quotes[c]) = Step(r, QUOTE) /\ Passes(q, Quotes[c])
      <3>1. After(q, Append(<<QUOTE>>, QUOTE)) = Step(After(q, <<QUOTE>>), QUOTE)
        BY <1>1, <2>1, CharsTyped, AfterAppend
      <3>2. Passes(q, Append(<<QUOTE>>, QUOTE)) <=>
              Passes(q, <<QUOTE>>) /\ Passed(After(q, <<QUOTE>>), QUOTE)
        BY <1>1, <2>1, CharsTyped, PassesAppend
      <3>3. QED
        BY <2>1, <2>9, <2>10, <3>1, <3>2
    <2>12. InField(p, Step(r, QUOTE), Append(u, c), "IN_QUOTED_FIELD")
      BY <1>3, <2>7, <2>8 DEF InField
    <2>13. QED
      BY <2>11, <2>12
  <1>4. QED
    BY <1>2, <1>3

\* A field that is quoted, up to the quote that closes it.
LEMMA QuotedPart ==
  ASSUME NEW p, AtField(p), NEW f \in Seq(Char)
  PROVE  LET s == <<QUOTE>> \o Doubled(f) IN
           /\ s \in Seq(Char) /\ Passes(p, s)
           /\ InField(p, After(p, s), f, "IN_QUOTED_FIELD")
  <1> DEFINE s(u) == <<QUOTE>> \o Doubled(u)
             T == {u \in Seq(Char) :
                     InField(p, After(p, s(u)), u, "IN_QUOTED_FIELD") /\ Passes(p, s(u))}
  <1>1. p \in Parsers /\ p \in Shapes /\ QUOTE \in Char /\ <<QUOTE>> \in Seq(Char)
    BY CharsTyped, FieldsTyped DEF AtField
  <1>2. \A u \in Seq(Char) : s(u) \in Seq(Char)
    BY <1>1, DoubledFacts, ConcatProperties
  <1>3. <<>> \in T
    <2>1. s(<<>>) = <<QUOTE>>
      BY <1>1, DoubledNone, ConcatEmptySeq
    <2>2. Step(p, QUOTE) = To(BeginField(p), "IN_QUOTED_FIELD")
      BY Distinct DEF AtField, Step, Field
    <2>3. /\ Step(p, QUOTE).state = "IN_QUOTED_FIELD" /\ ~Step(p, QUOTE).stopped
          /\ Step(p, QUOTE).fields = Append(p.fields, <<>>)
      <3>1. "IN_QUOTED_FIELD" \in States
        BY DEF States
      <3>2. QED
        BY <1>1, <2>2, <3>1, BeginFieldFacts, ToFacts DEF AtField
    <2>4. Step(p, QUOTE) \in Parsers
      BY <1>1, StepTyped
    <2>5. InField(p, Step(p, QUOTE), <<>>, "IN_QUOTED_FIELD")
      BY <2>3, <2>4 DEF InField
    <2>6. Passed(p, QUOTE)
      BY <2>3, Distinct DEF Passed, Inside, AtField
    <2>7. After(p, <<QUOTE>>) = Step(p, QUOTE) /\ Passes(p, <<QUOTE>>)
      BY <1>1, <2>6, AfterOne
    <2>8. <<>> \in Seq(Char)
      OBVIOUS
    <2> HIDE DEF s
    <2>9. QED
      BY <2>1, <2>5, <2>7, <2>8
  <1>4. ASSUME NEW u \in T, NEW c \in Char PROVE Append(u, c) \in T
    <2>1. /\ u \in Seq(Char) /\ Append(u, c) \in Seq(Char) /\ s(u) \in Seq(Char)
          /\ InField(p, After(p, s(u)), u, "IN_QUOTED_FIELD") /\ Passes(p, s(u))
      BY <1>2, AppendProperties
    <2>2. s(Append(u, c)) = s(u) \o Quotes[c]
      <3>1. Doubled(Append(u, c)) = Doubled(u) \o Quotes[c] /\ Doubled(u) \in Seq(Char)
        BY <2>1, DoubledFacts
      <3>2. Quotes[c] \in Seq(Char)
        BY QuotesTyped
      <3>3. PICK b \in Seq(Char), d \in Seq(Char) :
              b = Doubled(u) /\ d = Quotes[c]
        BY <3>1, <3>2
      <3>4. (<<QUOTE>> \o Doubled(u)) \o Quotes[c] =
              <<QUOTE>> \o (Doubled(u) \o Quotes[c])
        <4>1. (<<QUOTE>> \o b) \o d = <<QUOTE>> \o (b \o d)
          BY QuoteTogether, Zenon
        <4>2. QED
          BY <3>3, <4>1
      <3>5. QED
        BY <3>1, <3>4
    <2> HIDE DEF s
    <2>3. /\ InField(p, After(After(p, s(u)), Quotes[c]), Append(u, c), "IN_QUOTED_FIELD")
          /\ Passes(After(p, s(u)), Quotes[c])
      BY <2>1, InQuotes
    <2>4. Quotes[c] \in Seq(Char)
      BY QuotesTyped
    <2>5. /\ After(p, s(u) \o Quotes[c]) = After(After(p, s(u)), Quotes[c])
          /\ Passes(p, s(u) \o Quotes[c])
      BY <1>1, <2>1, <2>3, <2>4, AfterConcat, PassesConcat
    <2>6. QED
      BY <2>1, <2>2, <2>3, <2>5
  <1>5. T = Seq(Char)
    <2>1. T \in SUBSET Seq(Char)
      OBVIOUS
    <2> HIDE DEF T
    <2>2. QED
      BY <1>3, <1>4, <2>1, SeqByStep
  <1>6. f \in T
    BY <1>5
  <1>7. QED
    BY <1>2, <1>6

LEMMA QuotedField ==
  ASSUME NEW p, AtField(p), NEW f \in Seq(Char)
  PROVE  LET s == <<QUOTE>> \o Doubled(f) \o <<QUOTE>> IN
           /\ s \in Seq(Char) /\ Passes(p, s)
           /\ InField(p, After(p, s), f, "AFTER_QUOTE")
  <1>1. PICK s : s = <<QUOTE>> \o Doubled(f)
    OBVIOUS
  <1>2. /\ s \in Seq(Char) /\ Passes(p, s)
        /\ InField(p, After(p, s), f, "IN_QUOTED_FIELD")
    BY <1>1, QuotedPart
  <1>3. PICK q : q = After(p, s)
    OBVIOUS
  <1>4. /\ p \in Parsers /\ q \in Parsers /\ q \in Shapes /\ ~q.stopped
        /\ q.state = "IN_QUOTED_FIELD" /\ q.fields = Append(p.fields, f)
    BY <1>2, <1>3, FieldsTyped DEF InField, AtField
  <1>5. Step(q, QUOTE) = To(q, "AFTER_QUOTE") /\ "AFTER_QUOTE" \in States
    BY <1>4 DEF Step, Quoted, States
  <1>6. /\ Step(q, QUOTE).state = "AFTER_QUOTE"
        /\ Step(q, QUOTE).fields = q.fields /\ Step(q, QUOTE).stopped = q.stopped
    BY <1>4, <1>5, ToFacts
  <1>7. Step(q, QUOTE) \in Parsers
    BY <1>4, StepTyped, CharsTyped
  <1>8. Passed(q, QUOTE)
    BY <1>4, <1>6, Distinct DEF Passed, Inside
  <1>9. /\ <<QUOTE>> \in Seq(Char) /\ After(q, <<QUOTE>>) = Step(q, QUOTE)
        /\ Passes(q, <<QUOTE>>)
    BY <1>4, <1>8, AfterOne, CharsTyped
  <1>10. /\ s \o <<QUOTE>> \in Seq(Char) /\ Passes(p, s \o <<QUOTE>>)
         /\ After(p, s \o <<QUOTE>>) = Step(q, QUOTE)
    BY <1>2, <1>3, <1>4, <1>9, AfterConcat, PassesConcat, ConcatProperties
  <1>11. InField(p, Step(q, QUOTE), f, "AFTER_QUOTE")
    BY <1>4, <1>6, <1>7 DEF InField
  <1>12. QED
    BY <1>1, <1>10, <1>11

\* What csvquote makes of a field is read as the field.
LEMMA FieldIsRead ==
  ASSUME NEW p, AtField(p), NEW f \in Seq(Char)
  PROVE  LET s == csvquote(f) IN
           /\ s \in Seq(Char)
           /\ CR \notin ToSet(f) => Passes(p, s)
           /\ f = <<>> => s = <<>>
           /\ f # <<>> => \/ InField(p, After(p, s), f, "IN_UNQUOTED_FIELD")
                          \/ InField(p, After(p, s), f, "AFTER_QUOTE")
  <1>1. p \in Parsers
    BY DEF AtField
  <1>2. CASE {DELIM, QUOTE, LF} \cap ToSet(f) = {}
    <2>1. csvquote(f) = f
      BY <1>2 DEF csvquote
    <2>2. \A i \in 1 .. Len(f) : f[i] \in Plain
      <3>1. DOMAIN f = 1 .. Len(f) /\ \A i \in 1 .. Len(f) : f[i] \in Char
        OBVIOUS
      <3>2. QED
        BY <1>2, <3>1 DEF ToSet, Plain
    <2>3. f \in Seq(Plain)
      BY <2>2
    <2>4. CASE f = <<>>
      BY <1>1, <2>1, <2>4, PassesNone
    <2>5. CASE f # <<>>
      BY <2>1, <2>3, <2>5, PlainField
    <2>6. QED
      BY <2>4, <2>5
  <1>3. CASE {DELIM, QUOTE, LF} \cap ToSet(f) # {}
    <2>1. csvquote(f) = <<QUOTE>> \o Doubled(f) \o <<QUOTE>>
      BY <1>3, QuotedIs
    <2>2. f # <<>>
      BY <1>3 DEF ToSet
    <2>3. QED
      BY <2>1, <2>2, QuotedField
  <1>4. QED
    BY <1>2, <1>3

-----------------------------------------------------------------------------
(* Records that are composed.                                              *)

LEMMA JoinedNone ==
  ASSUME NEW sep
  PROVE  Joined(<<>>, sep) = <<>>
  <1>1. <<>> \in Seq(Seq({sep})) /\ sep \in {sep} /\ Len(<<>>) = 0
    OBVIOUS
  <1>2. PICK g \in Joins({sep}, <<>>, sep) : Joined(<<>>, sep) = g[Len(<<>>)]
    BY <1>1, JoinedRuns
  <1>3. QED
    BY <1>1, <1>2 DEF Joins

LEMMA JoinedAppend ==
  ASSUME NEW S, NEW F \in Seq(Seq(S)), NEW sep \in S, NEW f \in Seq(S)
  PROVE  /\ Joined(F, sep) \in Seq(S)
         /\ Joined(Append(F, f), sep) =
              (IF F # <<>> THEN Append(Joined(F, sep), sep) ELSE <<>>) \o f
  <1> DEFINE G == Append(F, f)
  <1>1. /\ Len(F) \in Nat /\ G \in Seq(Seq(S)) /\ Len(G) = Len(F) + 1
        /\ G[Len(F) + 1] = f /\ \A i \in 1 .. Len(F) : G[i] = F[i]
    BY AppendProperties
  <1> HIDE DEF G
  <1>2. PICK g \in Joins(S, F, sep) : Joined(F, sep) = g[Len(F)]
    BY JoinedRuns
  <1>3. PICK h \in Joins(S, G, sep) : Joined(G, sep) = h[Len(G)]
    BY <1>1, JoinedRuns
  <1>4. g[0] = h[0]
    BY <1>2, <1>3 DEF Joins
  <1>5. ASSUME NEW i \in 0 + 1 .. Len(F), g[i - 1] = h[i - 1] PROVE g[i] = h[i]
    <2>1. i \in 1 .. Len(F) /\ i \in 1 .. Len(G) /\ G[i] = F[i]
      BY <1>1
    <2>2. g[i] = (IF i > 1 THEN Append(g[i - 1], sep) ELSE <<>>) \o F[i]
      BY <1>2, <2>1 DEF Joins
    <2>3. h[i] = (IF i > 1 THEN Append(h[i - 1], sep) ELSE <<>>) \o G[i]
      BY <1>3, <2>1 DEF Joins
    <2>4. QED
      BY <1>5, <2>1, <2>2, <2>3
  <1>6. g[Len(F)] = h[Len(F)]
    <2>1. SameOver(0, Len(F), g, h)
      BY <1>1, <1>4, <1>5, SameByStep
    <2>2. Len(F) \in 0 .. Len(F)
      BY <1>1
    <2>3. QED
      BY <2>1, <2>2 DEF SameOver
  <1>7. Joined(F, sep) \in Seq(S)
    <2>1. Len(F) \in 0 .. Len(F)
      BY <1>1
    <2>2. QED
      BY <1>2, <2>1 DEF Joins
  <1>8. h[Len(F) + 1] =
          (IF F # <<>> THEN Append(h[Len(F)], sep) ELSE <<>>) \o G[Len(F) + 1]
    <2>1. /\ Len(F) + 1 \in 1 .. Len(G) /\ (Len(F) + 1) - 1 = Len(F)
          /\ Len(F) + 1 > 1 <=> F # <<>>
      BY <1>1, EmptySeq
    <2>2. h[Len(F) + 1] =
            (IF Len(F) + 1 > 1 THEN Append(h[(Len(F) + 1) - 1], sep) ELSE <<>>)
              \o G[Len(F) + 1]
      BY <1>3, <2>1 DEF Joins
    <2>3. QED
      BY <2>1, <2>2
  <1>9. QED
    BY <1>1, <1>2, <1>3, <1>6, <1>7, <1>8 DEF G

QuotedBy == [f \in Seq(Char) |-> csvquote(f)]

LEMMA QuotedByTyped == QuotedBy \in [Seq(Char) -> Seq(Char)]
  <1>1. AtField(Before)
    BY BeforeTyped DEF AtField, Before
  <1>2. \A f \in Seq(Char) : csvquote(f) \in Seq(Char)
    BY <1>1, FieldIsRead
  <1>3. QED
    BY <1>2 DEF QuotedBy

LEMMA ComposedIs ==
  ASSUME NEW af \in Seq(Seq(Char))
  PROVE  csvcompose(af) = Joined(Mapped(QuotedBy, af), DELIM)
  <1>1. \A i \in 1 .. Len(af) : af[i] \in Seq(Char)
    OBVIOUS
  <1>2. Mapped(QuotedBy, af) = [i \in 1 .. Len(af) |-> csvquote(af[i])]
    BY <1>1 DEF Mapped, QuotedBy
  <1>3. QED
    BY <1>2 DEF csvcompose

LEMMA ComposedAppend ==
  ASSUME NEW af \in Seq(Seq(Char)), NEW f \in Seq(Char)
  PROVE  /\ csvcompose(af) \in Seq(Char)
         /\ csvcompose(Append(af, f)) =
              (IF af # <<>> THEN Append(csvcompose(af), DELIM) ELSE <<>>) \o csvquote(f)
  <1> DEFINE F == Mapped(QuotedBy, af)
  <1>1. F \in Seq(Seq(Char)) /\ Len(F) = Len(af)
    BY QuotedByTyped, MappedTyped
  <1>2. Mapped(QuotedBy, Append(af, f)) = Append(F, QuotedBy[f])
    BY QuotedByTyped, MappedAppend
  <1>3. QuotedBy[f] = csvquote(f) /\ QuotedBy[f] \in Seq(Char)
    BY QuotedByTyped DEF QuotedBy
  <1>4. F = <<>> <=> af = <<>>
    <2>1. \A s : s \in Seq(Seq(Char)) => (s = <<>> <=> Len(s) = 0)
      BY EmptySeq
    <2>2. QED
      BY <1>1, <2>1
  <1>5. csvcompose(af) = Joined(F, DELIM)
    BY ComposedIs
  <1>6. csvcompose(Append(af, f)) = Joined(Append(F, QuotedBy[f]), DELIM)
    <2>1. Append(af, f) \in Seq(Seq(Char))
      BY AppendProperties
    <2>2. QED
      BY <1>2, <2>1, ComposedIs
  <1> HIDE DEF F
  <1>7. /\ Joined(F, DELIM) \in Seq(Char)
        /\ Joined(Append(F, QuotedBy[f]), DELIM) =
             (IF F # <<>> THEN Append(Joined(F, DELIM), DELIM) ELSE <<>>) \o QuotedBy[f]
    BY <1>1, <1>3, CharsTyped, JoinedAppend
  <1>8. QED
    BY <1>3, <1>4, <1>5, <1>6, <1>7

\* A parser that has read the fields of af: of an empty last field it has the
\* delimiter, and of an empty only field nothing.
Composed(af, p) ==
  /\ p \in Parsers /\ ~p.stopped
  /\ \/ p.state \in {"IN_UNQUOTED_FIELD", "AFTER_QUOTE"} /\ p.fields = af
     \/ p.state = "AFTER_DELIM" /\ Append(p.fields, <<>>) = af
     \/ p.state = "BEFORE_FIELD" /\ p.fields = <<>> /\ af = <<<<>>>>

LEMMA DelimiterRead ==
  ASSUME NEW af \in Seq(Seq(Char)), NEW p, Composed(af, p)
  PROVE  /\ AtField(Step(p, DELIM)) /\ Step(p, DELIM).fields = af
         /\ Step(p, DELIM).state = "AFTER_DELIM" /\ Passed(p, DELIM)
  <1>1. p \in Parsers /\ p \in Shapes /\ ~p.stopped /\ "AFTER_DELIM" \in States
    BY FieldsTyped DEF Composed, States
  <1>2. Step(p, DELIM) \in Parsers
    BY <1>1, StepTyped, CharsTyped
  <1>3. CASE p.state \in {"IN_UNQUOTED_FIELD", "AFTER_QUOTE"}
    <2>1. Step(p, DELIM) = To(p, "AFTER_DELIM") /\ p.fields = af
      BY <1>1, <1>3, Distinct DEF Composed, Step, Unquoted, AfterQuote
    <2>2. /\ Step(p, DELIM).state = "AFTER_DELIM" /\ Step(p, DELIM).fields = af
          /\ ~Step(p, DELIM).stopped
      BY <1>1, <2>1, ToFacts
    <2>3. QED
      BY <1>2, <1>3, <2>2, Distinct DEF AtField, Passed, Inside
  <1>4. CASE p.state \in {"BEFORE_FIELD", "AFTER_DELIM"}
    <2>1. Step(p, DELIM) = To(BeginField(p), "AFTER_DELIM")
      BY <1>1, <1>4, Distinct DEF Step, Field
    <2>2. Append(p.fields, <<>>) = af
      <3>1. Append(<<>>, <<>>) = <<<<>>>>
        OBVIOUS
      <3>2. QED
        BY <1>4, <3>1 DEF Composed
    <2>3. /\ Step(p, DELIM).state = "AFTER_DELIM" /\ Step(p, DELIM).fields = af
          /\ ~Step(p, DELIM).stopped
      <3>1. /\ BeginField(p) \in Shapes
            /\ BeginField(p).fields = Append(p.fields, <<>>)
            /\ BeginField(p).stopped = p.stopped
        BY <1>1, BeginFieldFacts
      <3>2. /\ To(BeginField(p), "AFTER_DELIM").state = "AFTER_DELIM"
            /\ To(BeginField(p), "AFTER_DELIM").fields = BeginField(p).fields
            /\ To(BeginField(p), "AFTER_DELIM").stopped = BeginField(p).stopped
        BY <1>1, <3>1, ToFacts
      <3>3. QED
        BY <1>1, <2>1, <2>2, <3>1, <3>2
    <2>4. QED
      BY <1>2, <1>4, <2>3, Distinct DEF AtField, Passed, Inside
  <1>5. QED
    BY <1>3, <1>4 DEF Composed

LEMMA ComposedField ==
  ASSUME NEW af \in Seq(Seq(Char)), NEW p, AtField(p), NEW f \in Seq(Char),
         \/ p.state = "AFTER_DELIM" /\ p.fields = af
         \/ p = Before /\ af = <<>>
  PROVE  /\ Composed(Append(af, f), After(p, csvquote(f)))
         /\ CR \notin ToSet(f) => Passes(p, csvquote(f))
  <1>1. /\ csvquote(f) \in Seq(Char)
        /\ CR \notin ToSet(f) => Passes(p, csvquote(f))
        /\ f = <<>> => csvquote(f) = <<>>
        /\ f # <<>> => \/ InField(p, After(p, csvquote(f)), f, "IN_UNQUOTED_FIELD")
                       \/ InField(p, After(p, csvquote(f)), f, "AFTER_QUOTE")
    BY FieldIsRead
  <1>2. p \in Parsers /\ ~p.stopped
    BY DEF AtField
  <1>3. CASE f = <<>>
    <2>1. After(p, csvquote(f)) = p
      BY <1>1, <1>2, <1>3, AfterNone
    <2>2. CASE p.state = "AFTER_DELIM" /\ p.fields = af
      BY <1>1, <1>2, <1>3, <2>1, <2>2 DEF Composed
    <2>3. CASE p = Before /\ af = <<>>
      <3>1. Append(<<>>, <<>>) = <<<<>>>>
        OBVIOUS
      <3>2. QED
        BY <1>1, <1>2, <1>3, <2>1, <2>3, <3>1 DEF Composed, Before
    <2>4. QED
      BY <2>2, <2>3
  <1>4. CASE f # <<>>
    <2>1. p.fields = af
      BY DEF Before
    <2>2. QED
      BY <1>1, <1>4, <2>1 DEF InField, Composed
  <1>5. QED
    BY <1>3, <1>4

NoReturns(af) == \A i \in 1 .. Len(af) : CR \notin ToSet(af[i])

\* What csvcompose makes of fields is read as the fields.
LEMMA ComposedIsRead ==
  ASSUME NEW af \in Seq(Seq(Char)), af # <<>>
  PROVE  /\ csvcompose(af) \in Seq(Char)
         /\ Composed(af, After(Before, csvcompose(af)))
         /\ NoReturns(af) => Passes(Before, csvcompose(af))
  <1> DEFINE Is(a) == /\ csvcompose(a) \in Seq(Char)
                      /\ Composed(a, After(Before, csvcompose(a)))
                      /\ NoReturns(a) => Passes(Before, csvcompose(a))
             T == {a \in Seq(Seq(Char)) : a # <<>> => Is(a)}
  <1>1. Before \in Parsers /\ AtField(Before)
    BY BeforeTyped DEF AtField, Before
  <1>2. ASSUME NEW a \in T, NEW f \in Seq(Char) PROVE Append(a, f) \in T
    <2> DEFINE b == Append(a, f)
    <2>1. /\ a \in Seq(Seq(Char)) /\ b \in Seq(Seq(Char)) /\ csvquote(f) \in Seq(Char)
          /\ csvcompose(b) \in Seq(Char)
      <3>1. a \in Seq(Seq(Char)) /\ b \in Seq(Seq(Char))
        BY AppendProperties
      <3>2. csvquote(f) \in Seq(Char)
        BY <1>1, FieldIsRead
      <3> HIDE DEF b
      <3>3. QED
        BY <3>1, <3>2, ComposedAppend
    <2>2. csvcompose(b) =
            (IF a # <<>> THEN Append(csvcompose(a), DELIM) ELSE <<>>) \o csvquote(f)
      BY <2>1, ComposedAppend
    <2>3. NoReturns(b) => CR \notin ToSet(f) /\ NoReturns(a)
      <3>1. /\ Len(a) \in Nat /\ Len(b) = Len(a) + 1 /\ b[Len(a) + 1] = f
            /\ \A i \in 1 .. Len(a) : b[i] = a[i]
        BY <2>1, AppendProperties
      <3> HIDE DEF b
      <3>2. /\ Len(a) + 1 \in 1 .. Len(b)
            /\ \A i \in 1 .. Len(a) : i \in 1 .. Len(b)
        BY <3>1
      <3>3. QED
        BY <3>1, <3>2 DEF NoReturns
    <2> HIDE DEF b
    <2>4. CASE a = <<>>
      <3>1. csvcompose(b) = csvquote(f)
        BY <2>1, <2>2, <2>4, ConcatEmptySeq
      <3>2. /\ Composed(b, After(Before, csvquote(f)))
            /\ CR \notin ToSet(f) => Passes(Before, csvquote(f))
        BY <1>1, <2>1, <2>4, ComposedField DEF b
      <3>3. QED
        BY <2>1, <2>3, <3>1, <3>2 DEF b
    <2>5. CASE a # <<>>
      <3> DEFINE s == csvcompose(a)
                 t == Append(s, DELIM)
                 p == After(Before, s)
                 q == Step(p, DELIM)
      <3>1. s \in Seq(Char) /\ Composed(a, p) /\ (NoReturns(a) => Passes(Before, s))
        BY <2>1, <2>5
      <3>2. csvcompose(b) = t \o csvquote(f)
        BY <2>2, <2>5
      <3> HIDE DEF s
      <3>3. t \in Seq(Char) /\ After(Before, t) = q
        BY <1>1, <3>1, AfterAppend, AppendProperties, CharsTyped
      <3>4. AtField(q) /\ q.fields = a /\ q.state = "AFTER_DELIM" /\ Passed(p, DELIM)
        BY <2>1, <3>1, DelimiterRead
      <3>5. NoReturns(a) => Passes(Before, t)
        BY <1>1, <3>1, <3>4, PassesAppend, CharsTyped
      <3> HIDE DEF p, t, q
      <3>6. /\ Composed(b, After(q, csvquote(f)))
            /\ CR \notin ToSet(f) => Passes(q, csvquote(f))
        BY <2>1, <3>4, ComposedField DEF b
      <3>7. After(Before, csvcompose(b)) = After(q, csvquote(f))
        BY <1>1, <2>1, <3>2, <3>3, AfterConcat
      <3>8. NoReturns(b) => Passes(Before, csvcompose(b))
        BY <1>1, <2>1, <2>3, <3>2, <3>3, <3>5, <3>6, PassesConcat
      <3>9. QED
        BY <2>1, <3>6, <3>7, <3>8 DEF b
    <2>6. QED
      BY <2>4, <2>5
  <1>3. T = Seq(Seq(Char))
    <2>1. T \in SUBSET Seq(Seq(Char)) /\ <<>> \in T
      OBVIOUS
    <2> HIDE DEF T
    <2>2. QED
      BY <1>2, <2>1, SeqByStep
  <1>4. af \in T
    BY <1>3
  <1>5. QED
    BY <1>4

LEMMA FinishComposed ==
  ASSUME NEW af \in Seq(Seq(Char)), NEW p, Composed(af, p), af # <<<<>>>>
  PROVE  Finish(p).fields = af
  <1>1. p \in Shapes
    BY FieldsTyped DEF Composed
  <1>2. CASE p.state \in {"IN_UNQUOTED_FIELD", "AFTER_QUOTE"}
    BY <1>2 DEF Finish, Composed
  <1>3. CASE p.state = "AFTER_DELIM"
    BY <1>1, <1>3, BeginFieldFacts DEF Finish, Composed
  <1>4. QED
    BY <1>2, <1>3 DEF Composed

\* csvsplit of csv/csv_convert.c finds the fields that csvcompose of the awk
\* library was given, whatever is in them, unless there is none or one that
\* is empty.
THEOREM SplitIsInverse ==
  ASSUME NEW af \in Seq(Seq(Char)), af # <<>>, af # <<<<>>>>
  PROVE  Split(csvcompose(af)) = af
  <1>1. Composed(af, After(Before, csvcompose(af)))
    BY ComposedIsRead
  <1>2. QED
    BY <1>1, FinishComposed DEF Split, Parsed

-----------------------------------------------------------------------------
(* Reading a record that was written.                                      *)

LEMMA PassesAt ==
  ASSUME NEW body \in Seq(Char), Passes(Before, body), NEW k \in 1 .. Len(body)
  PROVE  /\ body[k] \in Char
         /\ SubSeq(body, 1, k - 1) \in Seq(Char)
         /\ SubSeq(body, 1, k) = Append(SubSeq(body, 1, k - 1), body[k])
         /\ After(Before, SubSeq(body, 1, k)) =
              Step(After(Before, SubSeq(body, 1, k - 1)), body[k])
         /\ Passed(After(Before, SubSeq(body, 1, k - 1)), body[k])
  <1>1. PICK n \in Nat : n = k - 1 /\ n + 1 = k /\ n < Len(body)
    OBVIOUS
  <1>2. /\ body[n + 1] \in Char /\ SubSeq(body, 0 + 1, n) \in Seq(Char)
        /\ SubSeq(body, 0 + 1, n + 1) = SubSeq(body, 0 + 1, n) \o <<body[n + 1]>>
    BY <1>1, SubSeqLonger
  <1>3. 0 + 1 = 1
    OBVIOUS
  <1>4. /\ body[k] \in Char /\ SubSeq(body, 1, k - 1) \in Seq(Char)
        /\ SubSeq(body, 1, k) = SubSeq(body, 1, k - 1) \o <<body[k]>>
    BY <1>1, <1>2, <1>3
  <1>5. SubSeq(body, 1, k) = Append(SubSeq(body, 1, k - 1), body[k])
    BY <1>4, AppendIsConcat
  <1>6. After(Before, SubSeq(body, 1, k)) =
          Step(After(Before, SubSeq(body, 1, k - 1)), body[k])
    BY <1>4, <1>5, BeforeTyped, AfterAppend
  <1>7. Passed(After(Before, SubSeq(body, 1, k - 1)), body[k])
    BY DEF Passes
  <1>8. QED
    BY <1>4, <1>5, <1>6, <1>7

\* A reader that is in the body of a record, after n of its characters.
InBody(text, from, body, n, r) ==
  /\ r \in Reads(text, from) /\ ~r.ended /\ From(r) = from + n
  /\ r.input = SubSeq(body, 1, n)
  /\ r.inside = Inside(After(Before, SubSeq(body, 1, n)))

LEMMA BodyNext ==
  ASSUME NULL \notin Char, NEW text \in Seq(Char), NEW from \in Nat,
         NEW body \in Seq(Char), Passes(Before, body),
         NEW k \in 1 .. Len(body), from + k <= Len(text), text[from + k] = body[k],
         NEW r, InBody(text, from, body, k - 1, r)
  PROVE  InBody(text, from, body, k, Continued(text, r))
  <1> DEFINE p == After(Before, SubSeq(body, 1, k - 1))
             c == body[k]
             q == NextRead(r)
             s == Continued(text, r)
  <1>1. /\ c \in Char /\ SubSeq(body, 1, k - 1) \in Seq(Char)
        /\ SubSeq(body, 1, k) = Append(SubSeq(body, 1, k - 1), c)
        /\ After(Before, SubSeq(body, 1, k)) = Step(p, c) /\ Passed(p, c)
    BY PassesAt
  <1>2. /\ r \in Reads(text, from) /\ ~r.ended /\ From(r) = from + (k - 1)
        /\ r.input = SubSeq(body, 1, k - 1) /\ r.inside = Inside(p)
    BY DEF InBody
  <1>3. r.parser = p /\ r \in Reading(text)
    BY <1>2 DEF Reads
  <1>4. ~AtEnd(text, r)
    BY <1>2 DEF AtEnd, From
  <1>5. From(r) + 1 = from + k /\ text[From(r) + 1] = c
    <2>1. From(r) = from + (k - 1)
      BY <1>2, Zenon
    <2>2. From(r) + 1 = from + k
      BY <2>1
    <2>3. QED
      BY <2>2
  <1>6. /\ q \in Reading(text) /\ q.pos = From(r) + 1 /\ q.after = NULL
        /\ q.input = r.input /\ q.parser = r.parser /\ q.inside = r.inside
        /\ Advanced(text, r) =
             IF ~r.inside /\ text[From(r) + 1] = CR THEN AfterReturn(text, q)
             ELSE IF ~r.inside /\ text[From(r) + 1] = LF
                  THEN [q EXCEPT !.rt = <<LF>>, !.ended = TRUE]
                  ELSE Fed(q, text[From(r) + 1])
    BY <1>2, <1>4, NextReadFacts
  <1>7. s = Advanced(text, r)
    BY <1>2, <1>4 DEF Continued
  <1> HIDE DEF p, c, q, s
  <1>8. s = Fed(q, c)
    BY <1>1, <1>2, <1>5, <1>6, <1>7 DEF Passed
  <1>9. /\ s.pos = q.pos /\ s.after = q.after /\ s.input = Append(q.input, c)
        /\ s.ended = Step(q.parser, c).stopped
        /\ s.inside = IF c = QUOTE THEN ~q.inside ELSE q.inside
    <2>1. q \in Reading(text) /\ c \in Char
      BY <1>1, <1>6
    <2>2. LET u == Fed(q, c) IN
            /\ u.pos = q.pos /\ u.after = q.after /\ u.input = Append(q.input, c)
            /\ u.ended = Step(q.parser, c).stopped
            /\ u.inside = IF c = QUOTE THEN ~q.inside ELSE q.inside
      BY <2>1, FedFacts
    <2>3. QED
      BY <1>8, <2>2
  <1>10. From(s) = from + k
    BY <1>5, <1>6, <1>9 DEF From
  <1>11. ~s.ended
    BY <1>1, <1>3, <1>6, <1>9 DEF Passed
  <1>12. s.inside = Inside(Step(p, c))
    BY <1>1, <1>2, <1>6, <1>9 DEF Passed
  <1>13. s \in Reads(text, from)
    BY <1>2, ContinuedReads DEF s
  <1>14. s.input = SubSeq(body, 1, k)
    BY <1>1, <1>2, <1>6, <1>9
  <1>15. QED
    BY <1>1, <1>10, <1>11, <1>12, <1>13, <1>14 DEF InBody, s

\* The line end that follows the body, as long as it is taken for one.
EndsAt(text, n, ors) ==
  \/ /\ ors = <<LF>> /\ n < Len(text) /\ text[n + 1] = LF
  \/ /\ ors = <<CR, LF>> /\ n + 1 < Len(text)
     /\ text[n + 1] = CR /\ text[n + 2] = LF
  \/ /\ ors = <<CR>> /\ n < Len(text) /\ text[n + 1] = CR
     /\ n + 1 < Len(text) => text[n + 2] # LF

\* The body, after n characters of the text.
HasAt(text, n, body) ==
  /\ n + Len(body) <= Len(text)
  /\ \A k \in 1 .. Len(body) : text[n + k] = body[k]

LEMMA BodyEnd ==
  ASSUME NULL \notin Char, NEW text \in Seq(Char), NEW from \in Nat,
         NEW r \in Reads(text, from), ~r.ended, ~r.inside,
         NEW ors, EndsAt(text, From(r), ors)
  PROVE  LET s == Continued(text, r) IN
           /\ s.ended /\ s.input = r.input /\ s.rt = ors
           /\ From(s) = From(r) + Len(ors)
  <1> DEFINE q == NextRead(r)
             s == Continued(text, r)
             c == text[From(r) + 1]
  <1>1. /\ r \in Reading(text) /\ Placed(text, r) /\ Len(text) \in Nat
        /\ From(r) \in Nat
    BY FromRange DEF Reads
  <1>2. From(r) < Len(text)
    BY <1>1 DEF EndsAt
  <1>3. ~AtEnd(text, r)
    BY <1>2 DEF AtEnd, From
  <1>4. /\ q \in Reading(text) /\ q.pos = From(r) + 1 /\ q.after = NULL
        /\ q.input = r.input
        /\ Advanced(text, r) =
             IF ~r.inside /\ c = CR THEN AfterReturn(text, q)
             ELSE IF ~r.inside /\ c = LF
                  THEN [q EXCEPT !.rt = <<LF>>, !.ended = TRUE]
                  ELSE Fed(q, c)
    BY <1>3, NextReadFacts
  <1>5. s = Advanced(text, r)
    BY <1>3 DEF Continued
  <1> HIDE DEF q, s
  <1>6. CASE c = LF
    <2>1. ors = <<LF>> /\ Len(ors) = 1
      BY <1>6, Distinct DEF EndsAt
    <2>2. s = [q EXCEPT !.rt = ors, !.ended = TRUE]
      BY <1>4, <1>5, <1>6, <2>1, Distinct
    <2>3. /\ s.ended /\ s.input = q.input /\ s.rt = ors /\ s.pos = q.pos
          /\ s.after = q.after
      BY <1>4, <2>2 DEF Reading
    <2>4. From(s) = From(r) + 1
      BY <1>1, <1>4, <2>3 DEF From
    <2>5. QED
      BY <1>4, <2>1, <2>3, <2>4 DEF s
  <1>7. CASE c = CR
    <2> DEFINE lf == q.pos < Len(text) /\ text[q.pos + 1] = LF
    <2>1. s = AfterReturn(text, q)
      BY <1>4, <1>5, <1>7
    <2>2. q.pos # 0
      BY <1>1, <1>4
    <2>3. LET u == AfterReturn(text, q) IN
            /\ u.ended /\ u.input = q.input
            /\ u.rt = IF lf THEN <<CR, LF>> ELSE <<CR>>
            /\ From(u) = IF lf THEN q.pos + 1 ELSE q.pos
      BY <1>4, <2>2, ReturnFacts
    <2>4. (lf /\ ors = <<CR, LF>> /\ Len(ors) = 2) \/ (~lf /\ ors = <<CR>> /\ Len(ors) = 1)
      <3>1. (From(r) + 1) + 1 = From(r) + 2
        BY <1>1
      <3>2. QED
        BY <1>1, <1>4, <1>7, <3>1, Distinct DEF EndsAt
    <2>5. s.ended /\ s.input = q.input /\ s.rt = ors
      BY <2>1, <2>3, <2>4
    <2>6. From(s) = From(r) + Len(ors)
      <3> HIDE DEF lf
      <3>1. From(s) = IF lf THEN q.pos + 1 ELSE q.pos
        BY <2>1, <2>3
      <3>2. CASE lf
        <4>1. Len(ors) = 2 /\ From(s) = q.pos + 1
          BY <2>4, <3>1, <3>2
        <4>2. QED
          BY <1>1, <1>4, <4>1
      <3>3. CASE ~lf
        <4>1. Len(ors) = 1 /\ From(s) = q.pos
          BY <2>4, <3>1, <3>3
        <4>2. QED
          BY <1>1, <1>4, <4>1
      <3>4. QED
        BY <3>2, <3>3
    <2>7. QED
      BY <1>4, <2>5, <2>6 DEF s
  <1>8. c \in {CR, LF}
    BY DEF EndsAt
  <1>9. QED
    BY <1>6, <1>7, <1>8

\* What is read at the beginning of a record that was written: its body, with
\* the line end as the terminator.
ReadAs(text, reader, body, ors) ==
  LET r == RecordRead(text, Started(reader)) IN
    /\ r.input = body /\ r.rt = ors
    /\ From(r) = From(reader) + Len(body) + Len(ors)

LEMMA RecordIsRead ==
  ASSUME NULL \notin Char, NEW text \in Seq(Char), NEW reader \in Readers,
         Placed(text, reader),
         NEW body \in Seq(Char), Passes(Before, body),
         ~Inside(After(Before, body)),
         HasAt(text, From(reader), body),
         NEW ors, EndsAt(text, From(reader) + Len(body), ors)
  PROVE  ReadAs(text, reader, body, ors)
  <1> DEFINE start == Started(reader)
             from == From(reader)
             N == Len(text) + 1
  <1>1. start \in Reads(text, from) /\ from \in 0 .. Len(text)
    BY StartedReads
  <1>2. from \in Nat /\ Len(body) \in Nat /\ Len(text) \in Nat
    BY <1>1
  <1>3. InBody(text, from, body, 0, start)
    <2>1. /\ start.pos = reader.pos /\ start.after = reader.after
          /\ start.input = <<>> /\ start.inside = FALSE /\ start.ended = FALSE
      BY DEF Started, Begun, Loaded
    <2>2. SubSeq(body, 1, 0) = <<>>
      BY SubSeqEmpty
    <2>3. ~Inside(After(Before, <<>>))
      BY BeforeTyped, AfterNone DEF Inside, Before
    <2> HIDE DEF start
    <2>4. From(start) = from + 0
      BY <1>2, <2>1 DEF From
    <2>5. start.input = SubSeq(body, 1, 0)
      BY <2>1, <2>2
    <2>6. start.inside = Inside(After(Before, SubSeq(body, 1, 0)))
      <3>1. Inside(After(Before, <<>>)) \in BOOLEAN
        BY DEF Inside
      <3>2. QED
        BY <2>1, <2>2, <2>3, <3>1
    <2>7. start \in Reads(text, from) /\ ~start.ended
      BY <1>1, <2>1
    <2> HIDE DEF from
    <2>8. QED
      BY <2>4, <2>5, <2>6, <2>7 DEF InBody
  <1> HIDE DEF start, from
  <1>4. PICK g \in [0 .. N -> Reads(text, from)] :
          /\ g[0] = start
          /\ \A i \in 1 .. N : g[i] = Continued(text, g[i - 1])
          /\ RecordRead(text, start) = [g[N] EXCEPT !.parser = Finish(@)]
    BY <1>1, <1>2, RecordRuns
  <1> DEFINE T == {n \in Nat : n <= Len(body) => InBody(text, from, body, n, g[n])}
  <1>5. 0 \in T
    BY <1>3, <1>4
  <1>6. ASSUME NEW n \in T PROVE n + 1 \in T
    <2>1. SUFFICES ASSUME n + 1 <= Len(body)
                   PROVE  InBody(text, from, body, n + 1, g[n + 1])
      OBVIOUS
    <2>2. PICK k \in 1 .. Len(body) : k = n + 1 /\ k - 1 = n
      BY <1>2, <2>1
    <2>3. InBody(text, from, body, k - 1, g[n])
      BY <1>2, <2>2
    <2>4. from + k <= Len(text) /\ text[from + k] = body[k]
      BY <1>2, <2>2 DEF from, HasAt
    <2>5. InBody(text, from, body, k, Continued(text, g[n]))
      BY <1>2, <2>2, <2>3, <2>4, BodyNext
    <2>6. k \in 1 .. N /\ g[k] = Continued(text, g[k - 1])
      <3>1. k \in 1 .. N
        BY <1>2, <2>4
      <3>2. QED
        BY <1>4, <3>1
    <2>7. QED
      BY <2>2, <2>5, <2>6
  <1>7. T = Nat
    <2>1. T \in SUBSET Nat
      OBVIOUS
    <2> HIDE DEF T
    <2>2. QED
      BY <1>5, <1>6, <2>1, NatByStep
  <1> DEFINE m == Len(body) + 1
             s == Continued(text, g[Len(body)])
  <1>8. InBody(text, from, body, Len(body), g[Len(body)])
    BY <1>2, <1>7
  <1>9. SubSeq(body, 1, Len(body)) = body
    BY SubSeqFull
  <1>10. /\ g[Len(body)] \in Reads(text, from) /\ ~g[Len(body)].ended
         /\ From(g[Len(body)]) = from + Len(body)
         /\ g[Len(body)].input = body /\ ~g[Len(body)].inside
    BY <1>8, <1>9 DEF InBody
  <1>11. /\ s.ended /\ s.input = body /\ s.rt = ors
         /\ From(s) = from + Len(body) + Len(ors)
    <2>1. EndsAt(text, From(g[Len(body)]), ors)
      BY <1>10 DEF from
    <2>2. LET u == Continued(text, g[Len(body)]) IN
            /\ u.ended /\ u.input = g[Len(body)].input /\ u.rt = ors
            /\ From(u) = From(g[Len(body)]) + Len(ors)
      BY <1>2, <1>10, <2>1, BodyEnd
    <2>3. QED
      BY <1>10, <2>2
  <1>12. m \in 1 .. N /\ m \in Nat /\ N \in Nat /\ m <= N
    <2>1. from + Len(body) <= Len(text)
      BY DEF from, HasAt
    <2>2. QED
      BY <1>2, <2>1
  <1>13. g[m] = s
    <2>1. m - 1 = Len(body)
      BY <1>2
    <2>2. g[m] = Continued(text, g[m - 1])
      BY <1>4, <1>12
    <2>3. QED
      BY <2>1, <2>2
  <1> HIDE DEF m, s, N, T
  <1> DEFINE U == {n \in Nat : m + n <= N => g[m + n] = s}
  <1>14. 0 \in U
    BY <1>12, <1>13
  <1>15. ASSUME NEW n \in U PROVE n + 1 \in U
    <2>1. SUFFICES ASSUME m + (n + 1) <= N PROVE g[m + (n + 1)] = s
      OBVIOUS
    <2>2. m + (n + 1) \in 1 .. N /\ (m + (n + 1)) - 1 = m + n /\ m + n <= N
      BY <1>12, <2>1
    <2>3. g[m + (n + 1)] = Continued(text, g[(m + (n + 1)) - 1])
      BY <1>4, <2>2
    <2>4. g[m + n] = s
      BY <2>2
    <2>5. QED
      BY <1>11, <2>2, <2>3, <2>4 DEF Continued
  <1>16. U = Nat
    <2>1. U \in SUBSET Nat
      OBVIOUS
    <2> HIDE DEF U
    <2>2. QED
      BY <1>14, <1>15, <2>1, NatByStep
  <1>17. g[N] = s
    <2>1. N - m \in Nat /\ m + (N - m) = N /\ N <= N
      BY <1>12
    <2>2. N - m \in U
      BY <1>16, <2>1
    <2>3. QED
      BY <2>1, <2>2
  <1>18. PICK r : r = RecordRead(text, start)
    OBVIOUS
  <1>19. r = [s EXCEPT !.parser = Finish(@)]
    BY <1>4, <1>17, <1>18
  <1>20. s \in Reading(text)
    <2>1. N \in 0 .. N
      BY <1>12
    <2>2. QED
      BY <1>4, <1>17, <2>1 DEF Reads
  <1>21. r.input = s.input /\ r.rt = s.rt /\ r.pos = s.pos /\ r.after = s.after
    BY <1>19, <1>20 DEF Reading
  <1>22. From(r) = From(s)
    BY <1>21 DEF From
  <1>23. QED
    BY <1>11, <1>18, <1>21, <1>22 DEF start, from, ReadAs

\* A record as the reader expects it: not blank, and passed to the parser whole.
ReadWhole(body) ==
  /\ body \in Seq(Char) /\ body # <<>> /\ Passes(Before, body)
  /\ ~Inside(After(Before, body))

LEMMA ReadableWhole ==
  ASSUME NEW record \in Seq(Seq(Char)), Readable(record)
  PROVE  /\ record # <<>> /\ record # <<<<>>>>
         /\ ReadWhole(csvcompose(record))
  <1>1. record # <<<<>>>> /\ csvcompose(record) # <<>>
    BY DEF Readable
  <1>2. record # <<>>
    <2>1. Mapped(QuotedBy, <<>>) = <<>>
      BY DEF Mapped
    <2>2. csvcompose(<<>>) = <<>>
      <3>1. <<>> \in Seq(Seq(Char))
        OBVIOUS
      <3>2. csvcompose(<<>>) = Joined(Mapped(QuotedBy, <<>>), DELIM)
        BY <3>1, ComposedIs
      <3>3. QED
        BY <2>1, <3>2, JoinedNone
    <2>3. QED
      BY <1>1, <2>2
  <1>3. NoReturns(record)
    BY DEF Readable, NoReturns
  <1>4. /\ csvcompose(record) \in Seq(Char) /\ Passes(Before, csvcompose(record))
        /\ Composed(record, After(Before, csvcompose(record)))
    BY <1>2, <1>3, ComposedIsRead
  <1>5. ~Inside(After(Before, csvcompose(record)))
    BY <1>1, <1>4 DEF Composed, Inside
  <1>6. QED
    BY <1>1, <1>2, <1>4, <1>5 DEF ReadWhole

\* It does not begin with a character that would end a record.
LEMMA WholeFirst ==
  ASSUME NEW body, ReadWhole(body)
  PROVE  body[1] # LF /\ Len(body) \in Nat /\ Len(body) >= 1
  <1>1. body \in Seq(Char) /\ body # <<>> /\ Passes(Before, body)
    BY DEF ReadWhole
  <1>2. Len(body) \in Nat /\ Len(body) >= 1 /\ 1 \in 1 .. Len(body)
    BY <1>1, EmptySeq
  <1>3. Passed(After(Before, SubSeq(body, 1, 1 - 1)), body[1])
    BY <1>1, <1>2 DEF Passes
  <1>4. SubSeq(body, 1, 1 - 1) = <<>>
    <2>1. 1 - 1 = 0
      OBVIOUS
    <2>2. QED
      BY <2>1, SubSeqEmpty
  <1>5. ~Inside(After(Before, <<>>))
    BY BeforeTyped, AfterNone DEF Inside, Before
  <1>6. QED
    BY <1>2, <1>3, <1>4, <1>5 DEF Passed

\* The first n of the records as they are written.
Lines(records, ors, n) == [i \in 1 .. n |-> csvcompose(records[i]) \o ors]

WholeRecords(records) ==
  /\ records \in Seq(Seq(Seq(Char)))
  /\ \A i \in 1 .. Len(records) : ReadWhole(csvcompose(records[i]))

LEMMA LinesFacts ==
  ASSUME NEW records, WholeRecords(records), NEW ors \in LineEnds,
         NEW n \in 0 .. Len(records)
  PROVE  /\ Lines(records, ors, n) \in Seq(Seq(Char))
         /\ n < Len(records) =>
              Lines(records, ors, n + 1) =
                Append(Lines(records, ors, n), csvcompose(records[n + 1]) \o ors)
  <1>1. ors \in Seq(Char)
    BY LineEndsTyped DEF LineEnds
  <1>2. \A i \in 1 .. Len(records) : csvcompose(records[i]) \in Seq(Char)
    BY DEF WholeRecords, ReadWhole
  <1>3. ASSUME NEW i \in 1 .. Len(records)
        PROVE  csvcompose(records[i]) \o ors \in Seq(Char)
    <2>1. csvcompose(records[i]) \in Seq(Char)
      BY <1>2
    <2>2. QED
      BY <1>1, <2>1, ConcatProperties
  <1>4. Len(records) \in Nat
    BY DEF WholeRecords
  <1>5. \A i \in 1 .. n : i \in 1 .. Len(records)
    BY <1>4
  <1>6. Lines(records, ors, n) \in Seq(Seq(Char))
    BY <1>3, <1>4, <1>5 DEF Lines
  <1>7. ASSUME n < Len(records)
        PROVE  Lines(records, ors, n + 1) =
                 Append(Lines(records, ors, n), csvcompose(records[n + 1]) \o ors)
    <2> DEFINE x == csvcompose(records[n + 1]) \o ors
               s == Lines(records, ors, n)
               t == Lines(records, ors, n + 1)
    <2>1. n + 1 \in 1 .. Len(records) /\ n \in Nat
      BY <1>4, <1>7
    <2>2. x \in Seq(Char) /\ s \in Seq(Seq(Char)) /\ Len(s) = n
      BY <1>3, <1>6, <2>1 DEF Lines
    <2>3. DOMAIN t = 1 .. n + 1 /\ t = [i \in 1 .. n + 1 |-> t[i]]
      BY DEF Lines
    <2>4. \A i \in 1 .. n : t[i] = s[i]
      BY <2>1 DEF Lines
    <2>5. t[n + 1] = x
      BY <2>1 DEF Lines
    <2> HIDE DEF x, s, t
    <2>6. /\ Append(s, x) \in Seq(Seq(Char)) /\ Len(Append(s, x)) = n + 1
          /\ Append(s, x)[n + 1] = x
          /\ \A i \in 1 .. n : Append(s, x)[i] = s[i]
      BY <2>2, AppendProperties
    <2>7. PICK u : u = Append(s, x)
      OBVIOUS
    <2>8. DOMAIN u = 1 .. n + 1 /\ u = [i \in 1 .. n + 1 |-> u[i]]
      <3>1. u \in Seq(Seq(Char)) /\ Len(u) = n + 1
        BY <2>6, <2>7
      <3>2. QED
        BY <3>1
    <2>9. \A i \in 1 .. n + 1 : i \in 1 .. n \/ i = n + 1
      BY <2>1
    <2>10. \A i \in 1 .. n + 1 : t[i] = Append(s, x)[i]
      BY <2>4, <2>5, <2>6, <2>9
    <2>11. t = Append(s, x)
      BY <2>3, <2>7, <2>10, <2>8
    <2>12. QED
      BY <2>11 DEF x, s, t
  <1>8. QED
    BY <1>6, <1>7

\* Where the n records end that were written first, and the text up to there.
Upto(records, ors, n) == FlattenSeq(Lines(records, ors, n))

LEMMA UptoNext ==
  ASSUME NEW records, WholeRecords(records), NEW ors \in LineEnds,
         NEW n \in 0 .. Len(records)
  PROVE  /\ Upto(records, ors, n) \in Seq(Char)
         /\ n < Len(records) =>
              Upto(records, ors, n + 1) =
                Upto(records, ors, n) \o (csvcompose(records[n + 1]) \o ors)
  <1>1. ors \in Seq(Char)
    BY LineEndsTyped DEF LineEnds
  <1>2. PICK s \in Seq(Seq(Char)) : s = Lines(records, ors, n)
    BY LinesFacts
  <1>3. FlattenSeq(s) \in Seq(Char)
    <2>1. <<>> \in Seq(Char)
      OBVIOUS
    <2>2. QED
      BY <2>1, FlattenAppend
  <1>4. ASSUME n < Len(records)
        PROVE  Upto(records, ors, n + 1) =
                 Upto(records, ors, n) \o (csvcompose(records[n + 1]) \o ors)
    <2>1. n + 1 \in 1 .. Len(records)
      BY <1>4 DEF WholeRecords
    <2>2. csvcompose(records[n + 1]) \in Seq(Char)
      BY <2>1 DEF WholeRecords, ReadWhole
    <2>3. PICK x \in Seq(Char) : x = csvcompose(records[n + 1]) \o ors
      BY <1>1, <2>2, ConcatProperties
    <2>4. Lines(records, ors, n + 1) = Append(s, x)
      BY <1>2, <1>4, <2>3, LinesFacts
    <2>5. FlattenSeq(Append(s, x)) = FlattenSeq(s) \o x
      BY FlattenAppend
    <2>6. QED
      BY <1>2, <2>3, <2>4, <2>5 DEF Upto
  <1>5. QED
    BY <1>2, <1>3, <1>4 DEF Upto

LEMMA UptoNone ==
  ASSUME NEW records, NEW ors
  PROVE  Upto(records, ors, 0) = <<>>
  <1>1. Lines(records, ors, 0) = <<>>
    BY DEF Lines
  <1>2. QED
    BY <1>1, FlattenNone DEF Upto

\* The one followed by the other.
Together(a, b, x) ==
  /\ x = a \o b /\ Len(x) = Len(a) + Len(b)
  /\ \A k \in 1 .. Len(a) : x[k] = a[k]
  /\ \A k \in 1 .. Len(b) : x[Len(a) + k] = b[k]

LEMMA ConcatPlaces ==
  ASSUME NEW a \in Seq(Char), NEW b \in Seq(Char)
  PROVE  \E x \in Seq(Char) : Together(a, b, x)
  <1>1. PICK x : x = a \o b
    OBVIOUS
  <1>2. a \o b \in Seq(Char) /\ Len(a \o b) = Len(a) + Len(b)
    BY ConcatProperties
  <1>3. \A i \in 1 .. Len(a) + Len(b) :
          (a \o b)[i] = IF i <= Len(a) THEN a[i] ELSE b[i - Len(a)]
    BY ConcatProperties
  <1>4. Len(a) \in Nat /\ Len(b) \in Nat
    OBVIOUS
  <1>5. ASSUME NEW k \in 1 .. Len(a) PROVE x[k] = a[k]
    <2>1. k \in 1 .. Len(a) + Len(b) /\ k <= Len(a)
      BY <1>4
    <2>2. QED
      BY <1>1, <1>3, <2>1
  <1>6. ASSUME NEW k \in 1 .. Len(b) PROVE x[Len(a) + k] = b[k]
    <2>1. PICK i \in 1 .. Len(a) + Len(b) :
            i = Len(a) + k /\ ~(i <= Len(a)) /\ i - Len(a) = k
      BY <1>4
    <2>2. x[i] = b[i - Len(a)]
      BY <1>1, <1>3, <2>1
    <2>3. QED
      BY <2>1, <2>2
  <1>7. QED
    BY <1>1, <1>2, <1>5, <1>6 DEF Together

\* What follows the records that were written first, if anything does, is the
\* beginning of the next one.
LEMMA UptoBegins ==
  ASSUME NEW records, WholeRecords(records), NEW ors \in LineEnds,
         NEW n \in 0 .. Len(records)
  PROVE  \E tail \in Seq(Char) :
           /\ Upto(records, ors, Len(records)) = Upto(records, ors, n) \o tail
           /\ tail # <<>> => tail[1] # LF
  <1> DEFINE Is(m) ==
               \E tail \in Seq(Char) :
                 /\ Upto(records, ors, m) = Upto(records, ors, n) \o tail
                 /\ tail # <<>> => tail[1] # LF
             T == {m \in Nat : n + m <= Len(records) => Is(n + m)}
  <1>1. Len(records) \in Nat /\ n \in Nat
    BY DEF WholeRecords
  <1>2. PICK first \in Seq(Char) : first = Upto(records, ors, n)
    BY UptoNext
  <1>3. Is(n)
    <2>1. first = first \o <<>> /\ <<>> \in Seq(Char)
      BY ConcatEmptySeq, EmptySeq
    <2>2. QED
      BY <1>2, <2>1
  <1>4. ASSUME NEW m \in 0 .. Len(records), Is(m), m < Len(records)
        PROVE  Is(m + 1)
    <2>1. PICK tail \in Seq(Char) :
            /\ Upto(records, ors, m) = first \o tail
            /\ tail # <<>> => tail[1] # LF
      BY <1>2, <1>4
    <2>2. m + 1 \in 1 .. Len(records)
      BY <1>1, <1>4
    <2>3. PICK body : body = csvcompose(records[m + 1]) /\ ReadWhole(body)
      BY <2>2 DEF WholeRecords
    <2>4. body \in Seq(Char) /\ ors \in Seq(Char)
      BY <2>3, LineEndsTyped DEF ReadWhole, LineEnds
    <2>5. body[1] # LF /\ Len(body) \in Nat /\ Len(body) >= 1
      BY <2>3, WholeFirst
    <2>6. PICK x \in Seq(Char) : x = body \o ors /\ x[1] = body[1]
      <3>1. Len(ors) \in Nat
        BY <2>4
      <3>2. /\ body \o ors \in Seq(Char)
            /\ \A i \in 1 .. Len(body) + Len(ors) :
                 (body \o ors)[i] =
                   IF i <= Len(body) THEN body[i] ELSE ors[i - Len(body)]
        BY <2>4, ConcatProperties
      <3>3. 1 \in 1 .. Len(body) + Len(ors)
        BY <2>5, <3>1
      <3>4. QED
        BY <2>5, <3>2, <3>3
    <2>7. Upto(records, ors, m + 1) = Upto(records, ors, m) \o (body \o ors)
      BY <1>4, <2>3, UptoNext
    <2>8. Upto(records, ors, m + 1) = (first \o tail) \o x
      BY <2>1, <2>6, <2>7
    <2>9. (first \o tail) \o x = first \o (tail \o x)
      BY ConcatTogether
    <2>10. tail \o x \in Seq(Char)
      BY ConcatProperties
    <2>11. (tail \o x)[1] # LF
      <3>1. CASE tail = <<>>
        <4>1. tail \o x = x
          BY <3>1, ConcatEmptySeq
        <4>2. QED
          BY <2>5, <2>6, <4>1
      <3>2. CASE tail # <<>>
        <4>1. Len(tail) \in Nat /\ Len(tail) >= 1 /\ Len(x) \in Nat
          BY <3>2, EmptySeq
        <4>2. \A i \in 1 .. Len(tail) + Len(x) :
                (tail \o x)[i] =
                  IF i <= Len(tail) THEN tail[i] ELSE x[i - Len(tail)]
          BY ConcatProperties
        <4>3. 1 \in 1 .. Len(tail) + Len(x)
          BY <4>1
        <4>4. (tail \o x)[1] = tail[1]
          BY <4>1, <4>2, <4>3
        <4>5. QED
          BY <2>1, <3>2, <4>4
      <3>3. QED
        BY <3>1, <3>2
    <2>12. PICK y \in Seq(Char) : y = tail \o x
      BY <2>10
    <2>13. QED
      BY <1>2, <2>8, <2>9, <2>11, <2>12
  <1> HIDE DEF Is
  <1>5. 0 \in T
    <2>1. n + 0 = n
      BY <1>1
    <2>2. QED
      BY <1>3, <2>1
  <1>6. ASSUME NEW m \in T PROVE m + 1 \in T
    <2>1. SUFFICES ASSUME n + (m + 1) <= Len(records) PROVE Is(n + (m + 1))
      OBVIOUS
    <2>2. PICK k : k = n + m
      OBVIOUS
    <2>3. k \in 0 .. Len(records) /\ k < Len(records) /\ k + 1 = n + (m + 1)
      BY <1>1, <2>1, <2>2
    <2>4. Is(k)
      BY <2>2, <2>3
    <2>5. QED
      BY <1>4, <2>3, <2>4
  <1>7. T = Nat
    <2>1. T \in SUBSET Nat
      OBVIOUS
    <2> HIDE DEF T
    <2>2. QED
      BY <1>5, <1>6, <2>1, NatByStep
  <1>8. Is(Len(records))
    <2>1. Len(records) - n \in Nat /\ n + (Len(records) - n) = Len(records)
      BY <1>1
    <2>2. Len(records) - n \in T
      BY <1>7, <2>1
    <2>3. Len(records) <= Len(records)
      BY <1>1
    <2>4. QED
      BY <2>1, <2>2, <2>3
  <1>9. QED
    BY <1>8 DEF Is

\* The places of a record that was written in a text.
LEMMA WrittenAt ==
  ASSUME NEW a \in Seq(Char), NEW body \in Seq(Char), NEW ors \in LineEnds,
         NEW tail \in Seq(Char), tail # <<>> => tail[1] # LF,
         NEW text, text = (a \o (body \o ors)) \o tail
  PROVE  /\ text \in Seq(Char) /\ HasAt(text, Len(a), body)
         /\ Len(a \o (body \o ors)) = Len(a) + Len(body) + Len(ors)
         /\ EndsAt(text, Len(a) + Len(body), ors)
  <1>1. ors \in Seq(Char)
    BY LineEndsTyped DEF LineEnds
  <1>2. PICK x \in Seq(Char) : Together(body, ors, x)
    BY <1>1, ConcatPlaces, Zenon
  <1>3. PICK y \in Seq(Char) : Together(a, x, y)
    BY ConcatPlaces, Zenon
  <1>4. PICK z \in Seq(Char) : Together(y, tail, z)
    BY ConcatPlaces, Zenon
  <1>5. PICK la \in Nat, lb \in Nat, lo \in Nat, lt \in Nat :
          la = Len(a) /\ lb = Len(body) /\ lo = Len(ors) /\ lt = Len(tail)
    BY <1>1
  <1>6. /\ Len(x) = lb + lo /\ Len(y) = la + (lb + lo)
        /\ Len(z) = la + (lb + lo) + lt /\ z = text
    BY <1>2, <1>3, <1>4, <1>5 DEF Together
  <1>7. ASSUME NEW k \in 1 .. lb + lo PROVE text[la + k] = x[k]
    <2>1. la + k \in 1 .. Len(y) /\ k \in 1 .. Len(x)
      BY <1>6
    <2>2. z[la + k] = y[la + k] /\ y[la + k] = x[k]
      BY <1>3, <1>4, <1>5, <2>1 DEF Together
    <2>3. QED
      BY <1>6, <2>2
  <1>8. ASSUME NEW k \in 1 .. lb PROVE text[la + k] = body[k]
    <2>1. k \in 1 .. lb + lo /\ k \in 1 .. Len(body)
      BY <1>5
    <2>2. QED
      BY <1>2, <1>7, <2>1 DEF Together
  <1>9. ASSUME NEW k \in 1 .. lo PROVE text[(la + lb) + k] = ors[k]
    <2>1. lb + k \in 1 .. lb + lo /\ (la + lb) + k = la + (lb + k)
      BY <1>5
    <2>2. x[lb + k] = ors[k]
      BY <1>2, <1>5 DEF Together
    <2>3. QED
      BY <1>7, <2>1, <2>2
  <1>10. ASSUME lt >= 1 PROVE text[(la + lb) + (lo + 1)] # LF
    <2>1. (la + lb) + (lo + 1) = Len(y) + 1 /\ 1 \in 1 .. Len(tail)
      BY <1>5, <1>6, <1>10
    <2>2. z[Len(y) + 1] = tail[1]
      BY <1>4, <2>1 DEF Together
    <2>3. tail # <<>>
      BY <1>5, <1>10
    <2>4. QED
      BY <1>6, <2>1, <2>2, <2>3
  <1>11. EndsAt(text, la + lb, ors)
    <2>1. CASE ors = <<LF>>
      <3>1. lo = 1 /\ ors[1] = LF /\ 1 \in 1 .. lo
        BY <1>5, <2>1
      <3>2. text[(la + lb) + 1] = LF
        BY <1>9, <3>1
      <3>3. la + lb < Len(text)
        BY <1>6, <3>1
      <3>4. QED
        BY <2>1, <3>2, <3>3 DEF EndsAt
    <2>2. CASE ors = <<CR, LF>>
      <3>1. lo = 2 /\ ors[1] = CR /\ ors[2] = LF /\ 1 \in 1 .. lo /\ 2 \in 1 .. lo
        BY <1>5, <2>2
      <3>2. text[(la + lb) + 1] = CR /\ text[(la + lb) + 2] = LF
        BY <1>9, <3>1
      <3>3. (la + lb) + 1 < Len(text)
        BY <1>6, <3>1
      <3>4. QED
        BY <2>2, <3>2, <3>3 DEF EndsAt
    <2>3. CASE ors = <<CR>>
      <3>1. lo = 1 /\ ors[1] = CR /\ 1 \in 1 .. lo /\ lo + 1 = 2
        BY <1>5, <2>3
      <3>2. text[(la + lb) + 1] = CR
        BY <1>9, <3>1
      <3>3. la + lb < Len(text)
        BY <1>6, <3>1
      <3>4. (la + lb) + 1 < Len(text) => text[(la + lb) + 2] # LF
        <4>1. (la + lb) + 1 < Len(text) => lt >= 1
          BY <1>6, <3>1
        <4>2. QED
          BY <1>10, <3>1, <4>1
      <3>5. QED
        BY <2>3, <3>2, <3>3, <3>4 DEF EndsAt
    <2>4. QED
      BY <2>1, <2>2, <2>3 DEF LineEnds
  <1>12. Len(a) + Len(body) <= Len(text)
    BY <1>5, <1>6
  <1>13. Len(a \o (body \o ors)) = Len(a) + Len(body) + Len(ors)
    BY <1>2, <1>3, <1>5 DEF Together
  <1>14. HasAt(text, Len(a), body)
    BY <1>5, <1>8, <1>12 DEF HasAt
  <1>15. QED
    BY <1>5, <1>6, <1>11, <1>13, <1>14

\* A reader that has used the first n records reads the next one.
LEMMA NextIsRead ==
  ASSUME NULL \notin Char, NEW records, WholeRecords(records),
         NEW ors \in LineEnds, NEW text, text = Upto(records, ors, Len(records)),
         NEW reader \in Readers, Placed(text, reader),
         NEW n \in 0 .. Len(records), n < Len(records),
         From(reader) = Len(Upto(records, ors, n))
  PROVE  LET r == RecordRead(text, Started(reader)) IN
           /\ r.input = csvcompose(records[n + 1])
           /\ From(r) = Len(Upto(records, ors, n + 1))
  <1>1. n + 1 \in 0 .. Len(records) /\ n + 1 \in 1 .. Len(records)
    BY DEF WholeRecords
  <1>2. PICK body : body = csvcompose(records[n + 1]) /\ ReadWhole(body)
    BY <1>1 DEF WholeRecords
  <1>3. body \in Seq(Char) /\ Passes(Before, body) /\ ~Inside(After(Before, body))
    BY <1>2 DEF ReadWhole
  <1>4. PICK a \in Seq(Char) : a = Upto(records, ors, n)
    BY UptoNext
  <1>5. Upto(records, ors, n + 1) = a \o (body \o ors)
    BY <1>2, <1>4, UptoNext
  <1>6. PICK tail \in Seq(Char) :
          /\ Upto(records, ors, Len(records)) = Upto(records, ors, n + 1) \o tail
          /\ tail # <<>> => tail[1] # LF
    BY <1>1, UptoBegins
  <1>7. text = (a \o (body \o ors)) \o tail
    BY <1>5, <1>6
  <1>8. /\ text \in Seq(Char) /\ HasAt(text, Len(a), body)
        /\ Len(a \o (body \o ors)) = Len(a) + Len(body) + Len(ors)
        /\ EndsAt(text, Len(a) + Len(body), ors)
    BY <1>3, <1>6, <1>7, WrittenAt
  <1>9. From(reader) = Len(a)
    BY <1>4
  <1>10. ReadAs(text, reader, body, ors)
    <2>1. /\ HasAt(text, From(reader), body)
          /\ EndsAt(text, From(reader) + Len(body), ors)
      BY <1>8, <1>9
    <2>2. text \in Seq(Char)
      BY <1>8
    <2>3. QED
      BY <1>3, <2>1, <2>2, RecordIsRead
  <1>11. QED
    BY <1>2, <1>5, <1>8, <1>9, <1>10 DEF ReadAs

\* At the end of the file there is nothing left to read for a record.
LEMMA NoneIsRead ==
  ASSUME NULL \notin Char, NEW text \in Seq(Char), NEW reader \in Readers,
         Placed(text, reader), From(reader) = Len(text)
  PROVE  RecordRead(text, Started(reader)).input = <<>>
  <1>1. PICK start : start = Started(reader)
    OBVIOUS
  <1>2. start \in Reads(text, From(reader)) /\ From(reader) \in Nat
    BY <1>1, StartedReads
  <1>3. PICK r : r = RecordRead(text, start)
    OBVIOUS
  <1>4. /\ r \in Finished(text) /\ From(reader) <= From(r)
        /\ SubSeq(text, From(reader) + 1, From(r)) = r.input \o r.rt
    <2>1. LET s == RecordRead(text, start) IN
            /\ s \in Finished(text) /\ From(reader) <= From(s)
            /\ SubSeq(text, From(reader) + 1, From(s)) = s.input \o s.rt
      BY <1>2, RecordFacts
    <2>2. QED
      BY <1>3, <2>1
  <1>5. Placed(text, r) /\ r.input \in Seq(Char) /\ r.rt \in Seq(Char)
    BY <1>4 DEF Finished
  <1>6. From(r) = Len(text)
    <2>1. From(r) \in 0 .. Len(text)
      BY <1>5, FromRange
    <2>2. QED
      BY <1>4, <2>1
  <1>7. r.input \o r.rt = <<>>
    <2>1. SubSeq(text, Len(text) + 1, Len(text)) = <<>>
      BY SubSeqEmpty
    <2>2. QED
      BY <1>4, <1>6, <2>1
  <1>8. r.input = <<>>
    <2>1. Len(r.input \o r.rt) = Len(r.input) + Len(r.rt)
      BY <1>5, ConcatProperties
    <2>2. Len(r.input) \in Nat /\ Len(r.rt) \in Nat /\ Len(<<>>) = 0
      BY <1>5
    <2>3. Len(r.input) = 0
      BY <1>7, <2>1, <2>2
    <2>4. QED
      BY <1>5, <2>3, EmptySeq
  <1>9. QED
    BY <1>1, <1>3, <1>8

\* A record is empty when it has no field, or one that is empty.
LEMMA JoinedSome ==
  ASSUME NEW S, NEW F \in Seq(Seq(S)), NEW sep \in S, F # <<>>, F # <<<<>>>>
  PROVE  Joined(F, sep) # <<>>
  <1>1. PICK a \in Seq(Seq(S)), f \in Seq(S) : F = Append(a, f)
    BY SequenceEmptyOrAppend
  <1>2. /\ Joined(a, sep) \in Seq(S)
        /\ Joined(F, sep) = (IF a # <<>> THEN Append(Joined(a, sep), sep) ELSE <<>>) \o f
    BY <1>1, JoinedAppend
  <1>3. CASE a = <<>>
    <2>1. Joined(F, sep) = f
      <3>1. Joined(F, sep) = <<>> \o f
        BY <1>2, <1>3
      <3>2. QED
        BY <3>1, ConcatEmptySeq
    <2>2. F = <<f>>
      BY <1>1, <1>3
    <2>3. QED
      BY <2>1, <2>2
  <1>4. CASE a # <<>>
    <2>1. PICK j \in Seq(S) : j = Joined(a, sep)
      BY <1>2
    <2>2. PICK t \in Seq(S) : t = Append(j, sep)
      BY AppendProperties
    <2>3. Len(t) \in Nat /\ Len(t) >= 1
      <3>1. Len(j) \in Nat /\ Len(t) = Len(j) + 1
        BY <2>2, AppendProperties
      <3>2. QED
        BY <3>1
    <2>4. Joined(F, sep) = t \o f
      BY <1>2, <1>4, <2>1, <2>2
    <2>5. PICK x : x = t \o f
      OBVIOUS
    <2>6. Len(x) = Len(t) + Len(f) /\ Len(f) \in Nat
      BY <2>5, ConcatProperties
    <2>7. Len(x) # Len(<<>>)
      BY <2>3, <2>6
    <2>8. QED
      BY <2>4, <2>5, <2>7
  <1>5. QED
    BY <1>3, <1>4

-----------------------------------------------------------------------------
(* The files that were written.                                            *)

\* The records of a file that were read are the first of those written, and
\* the next one begins where the file is read.
Follows(records, ors, reader, g) ==
  /\ Len(g) <= Len(records)
  /\ \A i \in 1 .. Len(g) : g[i].csv = csvcompose(records[i])
  /\ reader.state \in {"closed", "open"} =>
       From(reader) = Len(Upto(records, ors, Len(g)))
  /\ reader.state = "ended" => Len(g) = Len(records)

AllReadable(d) ==
  d.records # NULL /\ \A i \in 1 .. Len(d.records) : Readable(d.records[i])

AsWritten(d, reader, g) ==
  AllReadable(d) =>
    \E ors \in LineEnds : /\ d.text = Upto(d.records, ors, Len(d.records))
                          /\ Follows(d.records, ors, reader, g)

CsvWritten ==
  CsvInv /\ \A f \in Csvs : AsWritten(docs[f], readers[f], got[f])

LEMMA AllWhole ==
  ASSUME DocumentsWritten, docs \in Documents, NEW f \in Csvs,
         AllReadable(docs[f])
  PROVE  /\ WholeRecords(docs[f].records)
         /\ \E ors \in LineEnds :
              docs[f].text = Upto(docs[f].records, ors, Len(docs[f].records))
  <1>1. PICK records : records = docs[f].records
    OBVIOUS
  <1>2. /\ records \in Seq(Seq(Seq(Char)))
        /\ \E ors \in LineEnds : docs[f].text = Written(records, ors).text
    BY <1>1 DEF DocumentsWritten, AllReadable
  <1>3. PICK ors \in LineEnds : docs[f].text = Written(records, ors).text
    BY <1>2
  <1>4. docs[f].text = Upto(records, ors, Len(records))
    BY <1>3 DEF Written, Upto, Lines
  <1>5. ASSUME NEW i \in 1 .. Len(records)
        PROVE  ReadWhole(csvcompose(records[i]))
    <2>1. records[i] \in Seq(Seq(Char)) /\ Readable(records[i])
      BY <1>1, <1>2 DEF AllReadable
    <2>2. QED
      BY <2>1, ReadableWhole
  <1>6. WholeRecords(records)
    BY <1>2, <1>5 DEF WholeRecords
  <1>7. QED
    BY <1>1, <1>4, <1>6

\* A step that changes neither the position of the reader nor what was
\* returned, and does not end the file.
LEMMA StillAsWritten ==
  ASSUME NEW d, NEW reader, NEW g, AsWritten(d, reader, g), NEW later,
         later.pos = reader.pos, later.after = reader.after,
         later.state \in {"closed", "open"} => reader.state \in {"closed", "open"},
         later.state = "ended" => reader.state = "ended"
  PROVE  AsWritten(d, later, g)
  <1>1. From(later) = From(reader)
    BY DEF From
  <1>2. SUFFICES ASSUME AllReadable(d)
                 PROVE  \E ors \in LineEnds :
                          /\ d.text = Upto(d.records, ors, Len(d.records))
                          /\ Follows(d.records, ors, later, g)
    BY DEF AsWritten
  <1>3. PICK ors \in LineEnds : /\ d.text = Upto(d.records, ors, Len(d.records))
                                /\ Follows(d.records, ors, reader, g)
    BY <1>2 DEF AsWritten
  <1>4. Follows(d.records, ors, later, g)
    BY <1>1, <1>3 DEF Follows
  <1>5. QED
    BY <1>3, <1>4

\* The record that is next is returned, and after the last one the file ends.
LEMMA NextAsWritten ==
  ASSUME NULL \notin Char, NEW records, WholeRecords(records),
         \A i \in 1 .. Len(records) : Readable(records[i]),
         NEW ors \in LineEnds, NEW text \in Seq(Char),
         text = Upto(records, ors, Len(records)),
         NEW reader \in Readers, Placed(text, reader), reader.state = "open",
         NEW g \in Seq(Results), Follows(records, ors, reader, g),
         NEW written, NEW r, r = RecordRead(text, Started(reader)),
         r \in Finished(text), NEW x, x = Result(r, reader, written),
         NEW later, From(later) = From(r),
         later.state = IF x.record = <<>> THEN "ended" ELSE "open",
         NEW h, h = IF x.record = <<>> THEN g ELSE Append(g, x), x \in Results
  PROVE  Follows(records, ors, later, h)
  <1>1. PICK n \in Nat : n = Len(g)
    OBVIOUS
  <1>2. /\ n \in 0 .. Len(records) /\ Len(records) \in Nat
        /\ From(reader) = Len(Upto(records, ors, n))
        /\ \A i \in 1 .. n : g[i].csv = csvcompose(records[i])
    BY <1>1 DEF Follows, WholeRecords
  <1>3. /\ x.record = Joined(r.parser.fields, written) /\ x.csv = r.input
        /\ r.parser.fields = Split(r.input)
    BY DEF Result, Finished, Split
  <1>4. CASE n = Len(records)
    <2>1. From(reader) = Len(text)
      BY <1>2, <1>4
    <2>2. r.input = <<>>
      BY <2>1, NoneIsRead
    <2>3. Split(<<>>) = <<>>
      <3>1. After(Before, <<>>) = Before
        BY BeforeTyped, AfterNone
      <3>2. Finish(Before) = Before /\ Before.fields = <<>>
        BY DEF Finish, Before
      <3>3. QED
        BY <3>1, <3>2 DEF Split, Parsed
    <2>4. x.record = <<>>
      BY <1>3, <2>2, <2>3, JoinedNone
    <2>5. later.state = "ended" /\ h = g
      BY <2>4
    <2>6. QED
      BY <1>1, <1>2, <1>4, <2>5 DEF Follows
  <1>5. CASE n < Len(records)
    <2>1. n + 1 \in 1 .. Len(records)
      BY <1>2, <1>5
    <2>2. /\ r.input = csvcompose(records[n + 1])
          /\ From(r) = Len(Upto(records, ors, n + 1))
      BY <1>2, <1>5, NextIsRead
    <2>3. records[n + 1] \in Seq(Seq(Char)) /\ Readable(records[n + 1])
      BY <2>1 DEF WholeRecords
    <2>4. PICK F \in Seq(Seq(Char)) :
            F = records[n + 1] /\ F # <<>> /\ F # <<<<>>>>
      BY <2>3, ReadableWhole
    <2>5. r.parser.fields = F
      BY <1>3, <2>2, <2>4, SplitIsInverse
    <2>6. Joined(F, written) # <<>>
      <3>1. F \in Seq(Seq(Char \cup {written})) /\ written \in Char \cup {written}
        <4>1. \A s \in Seq(Char) : s \in Seq(Char \cup {written})
          BY SeqMonotonic
        <4>2. Seq(Char) \subseteq Seq(Char \cup {written})
          BY <4>1
        <4>3. QED
          BY <4>2, SeqMonotonic
      <3>2. QED
        BY <2>4, <3>1, JoinedSome
    <2>7. x.record # <<>>
      BY <1>3, <2>5, <2>6
    <2>8. later.state = "open" /\ h = Append(g, x)
      BY <2>7
    <2>9. /\ Len(h) = n + 1 /\ h[n + 1] = x
          /\ \A i \in 1 .. n : h[i] = g[i]
      BY <1>1, <2>8, AppendProperties
    <2>10. \A i \in 1 .. n + 1 : i \in 1 .. n \/ i = n + 1
      OBVIOUS
    <2>11. \A i \in 1 .. Len(h) : h[i].csv = csvcompose(records[i])
      <3>1. ASSUME NEW i \in 1 .. n + 1 PROVE h[i].csv = csvcompose(records[i])
        <4>1. CASE i = n + 1
          BY <1>3, <2>2, <2>9, <4>1
        <4>2. CASE i \in 1 .. n
          BY <1>2, <2>9, <4>2
        <4>3. QED
          BY <2>10, <4>1, <4>2
      <3>2. QED
        BY <2>9, <3>1
    <2>12. From(later) = Len(Upto(records, ors, Len(h)))
      BY <2>2, <2>9
    <2>13. Len(h) <= Len(records)
      BY <2>1, <2>9
    <2>14. QED
      BY <2>8, <2>11, <2>12, <2>13 DEF Follows
  <1>6. QED
    BY <1>2, <1>4, <1>5

LEMMA CsvInitWritten ==
  ASSUME DocumentsWritten, CsvInit
  PROVE  CsvWritten
  <1>1. CsvInv
    BY CsvInitInv
  <1>2. ASSUME NEW f \in Csvs, AllReadable(docs[f])
        PROVE  \E ors \in LineEnds :
                 /\ docs[f].text =
                      Upto(docs[f].records, ors, Len(docs[f].records))
                 /\ Follows(docs[f].records, ors, readers[f], got[f])
    <2>1. PICK records : records = docs[f].records
      OBVIOUS
    <2>2. PICK ors \in LineEnds : docs[f].text = Upto(records, ors, Len(records))
      BY <1>2, <2>1, AllWhole DEF CsvInit
    <2>3. Len(records) \in Nat
      BY <1>2, <2>1, AllWhole DEF CsvInit, WholeRecords
    <2>4. /\ got[f] = <<>> /\ readers[f].pos = 0 /\ readers[f].after = NULL
          /\ readers[f].state = "closed"
      BY DEF CsvInit
    <2>5. From(readers[f]) = 0 /\ Len(got[f]) = 0
      BY <2>4 DEF From
    <2>6. Len(Upto(records, ors, 0)) = 0
      BY UptoNone
    <2>7. Follows(records, ors, readers[f], got[f])
      BY <2>3, <2>4, <2>5, <2>6 DEF Follows
    <2>8. QED
      BY <2>1, <2>2, <2>7
  <1>3. QED
    BY <1>1, <1>2 DEF CsvWritten, AsWritten

LEMMA OpenCsvWritten ==
  ASSUME DocumentsWritten, CsvWritten, OpenCsv
  PROVE  CsvWritten'
  <1>1. CsvInv /\ CsvInv' /\ readers \in [Csvs -> Readers] /\ UNCHANGED <<docs, got>>
    BY OpenCsvInv DEF CsvWritten, CsvInv, OpenCsv
  <1>2. PICK f \in Csvs :
          /\ readers[f].state = "closed"
          /\ readers' = [readers EXCEPT ![f].state = "open", ![f].fs = csvfs]
    BY DEF OpenCsv
  <1>3. ASSUME NEW g \in Csvs
        PROVE  /\ readers'[g].pos = readers[g].pos
               /\ readers'[g].after = readers[g].after
               /\ readers'[g].state \in {"closed", "open"} =>
                    readers[g].state \in {"closed", "open"}
               /\ readers'[g].state = "ended" => readers[g].state = "ended"
    BY <1>1, <1>2 DEF Readers
  <1>4. ASSUME NEW g \in Csvs PROVE AsWritten(docs[g], readers'[g], got[g])
    BY <1>3, StillAsWritten DEF CsvWritten
  <1>5. QED
    BY <1>1, <1>4 DEF CsvWritten

LEMMA AssignCsvfsWritten ==
  ASSUME DocumentsWritten, CsvWritten, AssignCsvfs
  PROVE  CsvWritten'
  <1>1. /\ CsvInv /\ CsvInv' /\ readers \in [Csvs -> Readers]
        /\ UNCHANGED <<docs, got>>
        /\ readers' = [f \in Csvs |-> [readers[f] EXCEPT
                         !.freed = @ \/ readers[f].state # "closed"]]
    BY AssignCsvfsInv DEF CsvWritten, CsvInv, AssignCsvfs
  <1>2. ASSUME NEW g \in Csvs
        PROVE  /\ readers'[g].pos = readers[g].pos
               /\ readers'[g].after = readers[g].after
               /\ readers'[g].state = readers[g].state
    BY <1>1 DEF Readers
  <1>3. ASSUME NEW g \in Csvs PROVE AsWritten(docs[g], readers'[g], got[g])
    BY <1>2, StillAsWritten DEF CsvWritten
  <1>4. QED
    BY <1>1, <1>3 DEF CsvWritten

LEMMA CloseCsvWritten ==
  ASSUME DocumentsWritten, CsvWritten, CloseCsv
  PROVE  CsvWritten'
  <1>1. CsvInv /\ CsvInv' /\ readers \in [Csvs -> Readers] /\ UNCHANGED <<docs, got>>
    BY CloseCsvInv DEF CsvWritten, CsvInv, CloseCsv
  <1>2. PICK f \in Csvs : readers' = [readers EXCEPT ![f].state = "gone"]
    BY DEF CloseCsv
  <1>3. ASSUME NEW g \in Csvs
        PROVE  /\ readers'[g].pos = readers[g].pos
               /\ readers'[g].after = readers[g].after
               /\ readers'[g].state \in {"closed", "open"} =>
                    readers[g].state \in {"closed", "open"}
               /\ readers'[g].state = "ended" => readers[g].state = "ended"
    BY <1>1, <1>2 DEF Readers
  <1>4. ASSUME NEW g \in Csvs PROVE AsWritten(docs[g], readers'[g], got[g])
    BY <1>3, StillAsWritten DEF CsvWritten
  <1>5. QED
    BY <1>1, <1>4 DEF CsvWritten

LEMMA ReadCsvWritten ==
  ASSUME DocumentsWritten, CsvWritten, ReadCsv
  PROVE  CsvWritten'
  <1>1. CsvInv /\ CsvInv'
    <2>1. CsvInv
      BY DEF CsvWritten
    <2>2. QED
      BY <2>1, ReadCsvInv, Zenon
  <1>2. PICK f \in Csvs :
          /\ readers[f].state = "open"
          /\ \E written \in WrittenFor(readers[f]) :
               Returns(f, RecordRead(docs[f].text, Started(readers[f])), written)
    BY Zenon DEF ReadCsv, Started, Returns
  <1>3. PICK r : r = RecordRead(docs[f].text, Started(readers[f]))
    OBVIOUS
  <1>4. PICK written \in WrittenFor(readers[f]) : Returns(f, r, written)
    BY <1>2, <1>3
  <1>5. PICK x : x = Result(r, readers[f], written)
    OBVIOUS
  <1>6. /\ docs \in Documents /\ readers \in [Csvs -> Readers]
        /\ got \in [Csvs -> Seq(Results)] /\ UNCHANGED docs
        /\ Placed(docs[f].text, readers[f]) /\ readers[f].state = "open"
        /\ NULL \notin Char /\ docs[f].text \in Seq(Char)
    BY <1>1, <1>2, DocumentsTyped DEF CsvInv, ReadCsv
  <1>7. /\ readers'[f].pos = r.pos /\ readers'[f].after = r.after
        /\ readers'[f].state = IF x.record = <<>> THEN "ended" ELSE "open"
        /\ got'[f] = IF x.record = <<>> THEN got[f] ELSE Append(got[f], x)
        /\ \A g \in Csvs : g # f => readers'[g] = readers[g] /\ got'[g] = got[g]
    <2>1. CASE x.record = <<>>
      <3>1. /\ readers' = [readers EXCEPT ![f].state = "ended", ![f].pos = r.pos,
                                          ![f].after = r.after]
            /\ got' = got
        BY <1>4, <1>5, <2>1 DEF Returns
      <3>2. QED
        BY <1>6, <2>1, <3>1 DEF Readers
    <2>2. CASE x.record # <<>>
      <3>1. /\ readers' = [readers EXCEPT ![f].pos = r.pos, ![f].after = r.after]
            /\ got' = [got EXCEPT ![f] = Append(@, x)]
        BY <1>4, <1>5, <2>2 DEF Returns
      <3>2. QED
        BY <1>6, <2>2, <3>1 DEF Readers
    <2>3. QED
      BY <2>1, <2>2
  <1>8. From(readers'[f]) = From(r)
    BY <1>7 DEF From
  <1>9. r \in Finished(docs[f].text)
    <2>1. PICK start : start = Started(readers[f])
      OBVIOUS
    <2>2. PICK from \in Nat : from = From(readers[f]) /\ start \in Reads(docs[f].text, from)
      <3>1. readers[f] \in Readers
        BY <1>6
      <3>2. QED
        BY <1>6, <2>1, <3>1, StartedReads
    <2>3. LET s == RecordRead(docs[f].text, start) IN
            /\ s \in Finished(docs[f].text) /\ from <= From(s)
            /\ SubSeq(docs[f].text, from + 1, From(s)) = s.input \o s.rt
      BY <1>6, <2>2, RecordFacts
    <2>4. QED
      BY <1>3, <2>1, <2>3
  <1>10. x \in Results
    <2>1. PICK c : c = [read |-> r, reader |-> readers[f], written |-> written]
      OBVIOUS
    <2>2. written \in {SEP, NUL} /\ readers[f] \in Readers
      BY <1>6 DEF WrittenFor
    <2>3. r \in UNION {Finished(t) : t \in Seq(Char)}
      BY <1>6, <1>9
    <2>4. c \in Calls
      BY <2>1, <2>2, <2>3 DEF Calls
    <2>5. x = Result(c.read, c.reader, c.written)
      BY <1>5, <2>1
    <2>6. QED
      BY <2>4, <2>5 DEF Results
  <1>11. AsWritten(docs[f], readers'[f], got'[f])
    <2>1. SUFFICES ASSUME AllReadable(docs[f])
                   PROVE  \E ors \in LineEnds :
                            /\ docs[f].text =
                                 Upto(docs[f].records, ors, Len(docs[f].records))
                            /\ Follows(docs[f].records, ors, readers'[f], got'[f])
      BY DEF AsWritten
    <2>2. PICK records : records = docs[f].records
      OBVIOUS
    <2>3. PICK ors \in LineEnds :
            /\ docs[f].text = Upto(records, ors, Len(records))
            /\ Follows(records, ors, readers[f], got[f])
      BY <2>1, <2>2 DEF CsvWritten, AsWritten
    <2>4. WholeRecords(records) /\ \A i \in 1 .. Len(records) : Readable(records[i])
      BY <1>6, <2>1, <2>2, AllWhole DEF AllReadable
    <2>5. PICK later, h : later = readers'[f] /\ h = got'[f]
      OBVIOUS
    <2>6. PICK reader \in Readers, g \in Seq(Results) :
            reader = readers[f] /\ g = got[f]
      BY <1>6
    <2>7. PICK text \in Seq(Char) : text = docs[f].text
      BY <1>6
    <2>8. Follows(records, ors, later, h)
      <3>1. /\ text = Upto(records, ors, Len(records)) /\ Placed(text, reader)
            /\ reader.state = "open" /\ Follows(records, ors, reader, g)
        BY <1>6, <2>3, <2>6, <2>7
      <3>2. /\ r = RecordRead(text, Started(reader)) /\ r \in Finished(text)
            /\ x = Result(r, reader, written)
        BY <1>3, <1>5, <1>9, <2>6, <2>7
      <3>3. /\ From(later) = From(r)
            /\ later.state = IF x.record = <<>> THEN "ended" ELSE "open"
            /\ h = IF x.record = <<>> THEN g ELSE Append(g, x)
        BY <1>7, <1>8, <2>5, <2>6
      <3>4. QED
        BY <1>6, <1>10, <2>4, <3>1, <3>2, <3>3, NextAsWritten
    <2>9. QED
      BY <2>2, <2>3, <2>5, <2>8
  <1>12. ASSUME NEW g \in Csvs PROVE AsWritten(docs[g], readers'[g], got'[g])
    <2>1. CASE g = f
      BY <1>11, <2>1
    <2>2. CASE g # f
      BY <1>7, <2>2 DEF CsvWritten
    <2>3. QED
      BY <2>1, <2>2
  <1>13. QED
    BY <1>1, <1>6, <1>12 DEF CsvWritten

LEMMA CsvStutterWritten ==
  ASSUME CsvWritten, UNCHANGED csvVars
  PROVE  CsvWritten'
  BY CsvStutterInv DEF CsvWritten, csvVars

LEMMA CsvAlwaysWritten ==
  ASSUME DocumentsWritten
  PROVE  CsvSpec => []CsvWritten
  <1>1. CsvInit => CsvWritten
    BY CsvInitWritten
  <1>2. CsvWritten /\ [CsvNext]_csvVars => CsvWritten'
    BY OpenCsvWritten, AssignCsvfsWritten, ReadCsvWritten, CloseCsvWritten,
       CsvStutterWritten DEF CsvNext
  <1>3. QED
    BY <1>1, <1>2, PTL DEF CsvSpec

\* What csvprint of the awk library wrote is read back: record by record and
\* field by field as long as it is read, and to the last when the file ends,
\* for records that have no carriage return and are not blank.
THEOREM WrittenDoesRead ==
  ASSUME DocumentsWritten
  PROVE  CsvSpec => []WrittenIsRead
  <1>1. CsvWritten => WrittenIsRead
    <2>1. SUFFICES ASSUME CsvWritten, NEW f \in Csvs, AllReadable(docs[f])
                   PROVE  /\ \A i \in 1 .. Len(got[f]) : got[f][i].exact =>
                               got[f][i].fields = docs[f].records[i]
                          /\ readers[f].state = "ended" =>
                               Len(got[f]) = Len(docs[f].records)
      BY DEF WrittenIsRead, AllReadable
    <2>2. PICK ors \in LineEnds : Follows(docs[f].records, ors, readers[f], got[f])
      BY <2>1 DEF CsvWritten, AsWritten
    <2>3. PICK records :
            records = docs[f].records /\ WholeRecords(records)
      BY <2>1, AllWhole DEF CsvWritten, CsvInv
    <2>4. Len(got[f]) \in Nat /\ got[f] \in Seq(Results) /\ Len(records) \in Nat
      BY <2>1, <2>3 DEF CsvWritten, CsvInv, WholeRecords
    <2>5. ASSUME NEW i \in 1 .. Len(got[f]), got[f][i].exact
          PROVE  got[f][i].fields = records[i]
      <3>1. got[f][i] \in Results
        BY <2>4
      <3>2. got[f][i].fields = Split(got[f][i].csv)
        BY <2>5, <3>1, ResultAgrees
      <3>3. got[f][i].csv = csvcompose(records[i]) /\ i \in 1 .. Len(records)
        BY <2>2, <2>3, <2>4 DEF Follows
      <3>4. records[i] \in Seq(Seq(Char)) /\ Readable(records[i])
        BY <2>1, <2>3, <3>3 DEF WholeRecords, AllReadable
      <3>5. records[i] # <<>> /\ records[i] # <<<<>>>>
        BY <3>4, ReadableWhole
      <3>6. QED
        BY <3>2, <3>3, <3>4, <3>5, SplitIsInverse
    <2>6. QED
      BY <2>2, <2>3, <2>5 DEF Follows
  <1>2. QED
    BY <1>1, CsvAlwaysWritten, PTL

\* The three properties of records that MCReaders checks on small documents.
THEOREM CsvDoesRead ==
  ASSUME DocumentsWritten
  PROVE  CsvSpec => []CsvRecords
  <1>1. CsvSpec => []InputKept
    BY InputIsKept
  <1>2. CsvSpec => []ReadersAgree
    BY ReadersDoAgree
  <1>3. CsvSpec => []WrittenIsRead
    BY WrittenDoesRead
  <1>4. InputKept /\ ReadersAgree /\ WrittenIsRead => CsvRecords
    BY DEF CsvRecords
  <1>5. QED
    BY <1>1, <1>2, <1>3, <1>4, PTL

-----------------------------------------------------------------------------
(* The puller: what there is at each byte of a stream.                     *)

LEMMA PullerCardinality == \A S : P!Cardinality(S) = Cardinality(S)
  BY DEF P!Cardinality, Cardinality

\* How often there is a byte among the first k.
Count(bytes, b, k) == Cardinality({j \in 1 .. k : bytes[j] = b})

LEMMA CountNext ==
  ASSUME NEW bytes, NEW b, NEW i \in Nat
  PROVE  /\ Count(bytes, b, i) \in Nat /\ Count(bytes, b, 0) = 0
         /\ Count(bytes, b, i + 1) =
              Count(bytes, b, i) + IF bytes[i + 1] = b THEN 1 ELSE 0
  <1> DEFINE Of(k) == {j \in 1 .. k : bytes[j] = b}
  <1>1. IsFiniteSet(1 .. i) /\ Of(i) \in SUBSET (1 .. i)
    BY FS_Interval
  <1>2. IsFiniteSet(Of(i)) /\ Cardinality(Of(i)) \in Nat
    BY <1>1, FS_Subset, FS_CardinalityType
  <1>3. Of(0) = {}
    OBVIOUS
  <1>4. Cardinality(Of(0)) = 0
    BY <1>3, FS_EmptySet
  <1>5. CASE bytes[i + 1] = b
    <2>1. Of(i + 1) = Of(i) \cup {i + 1} /\ i + 1 \notin Of(i)
      BY <1>5
    <2> HIDE DEF Of
    <2>2. QED
      BY <1>2, <1>4, <1>5, <2>1, FS_AddElement DEF Count, Of
  <1>6. CASE bytes[i + 1] # b
    <2>1. Of(i + 1) = Of(i)
      BY <1>6
    <2> HIDE DEF Of
    <2>2. QED
      BY <1>2, <1>4, <1>6, <2>1 DEF Count, Of
  <1>7. QED
    BY <1>5, <1>6

LEMMA DepthNext ==
  ASSUME NEW bytes, NEW i \in Nat
  PROVE  /\ P!Depth(bytes, 0) = 0 /\ P!Depth(bytes, i) \in Int
         /\ bytes[i + 1] = "s1" => P!Depth(bytes, i + 1) = P!Depth(bytes, i) + 1
         /\ bytes[i + 1] = "e1" => P!Depth(bytes, i + 1) = P!Depth(bytes, i) - 1
         /\ bytes[i + 1] \notin {"s1", "e1"} =>
              P!Depth(bytes, i + 1) = P!Depth(bytes, i)
  <1>1. \A k : P!Depth(bytes, k) = Count(bytes, "s1", k) - Count(bytes, "e1", k)
    BY PullerCardinality DEF P!Depth, Count
  <1>2. \A b : /\ Count(bytes, b, i) \in Nat /\ Count(bytes, b, 0) = 0
               /\ Count(bytes, b, i + 1) =
                    Count(bytes, b, i) + IF bytes[i + 1] = b THEN 1 ELSE 0
    BY CountNext
  <1>3. QED
    BY <1>1, <1>2

\* The documents that begin before the place c.
RootsBefore(bytes, c) == Cardinality({i \in P!Roots(bytes) : i < c})

LEMMA BegunNext ==
  ASSUME NEW bytes, Len(bytes) \in Nat, NEW c \in 1 .. Len(bytes)
  PROVE  /\ RootsBefore(bytes, c) \in Nat
         /\ RootsBefore(bytes, c + 1) =
              RootsBefore(bytes, c) + IF c \in P!Roots(bytes) THEN 1 ELSE 0
         /\ RootsBefore(bytes, 1) = 0
         /\ RootsBefore(bytes, c) <= Cardinality(P!Roots(bytes))
         /\ RootsBefore(bytes, Len(bytes) + 1) = Cardinality(P!Roots(bytes))
         /\ Cardinality(P!Roots(bytes)) \in Nat
         /\ c \in P!Roots(bytes) =>
              RootsBefore(bytes, c) < Cardinality(P!Roots(bytes))
  <1> DEFINE Of(k) == {i \in P!Roots(bytes) : i < k}
  <1>1. P!Roots(bytes) \subseteq 1 .. Len(bytes)
    BY DEF P!Roots
  <1>2. IsFiniteSet(P!Roots(bytes)) /\ Cardinality(P!Roots(bytes)) \in Nat
    <2>1. IsFiniteSet(1 .. Len(bytes))
      BY FS_Interval
    <2>2. QED
      BY <1>1, <2>1, FS_Subset, FS_CardinalityType
  <1>3. \A k : Of(k) \in SUBSET P!Roots(bytes)
    OBVIOUS
  <1>4. \A k : /\ IsFiniteSet(Of(k)) /\ Cardinality(Of(k)) \in Nat
               /\ Cardinality(Of(k)) <= Cardinality(P!Roots(bytes))
               /\ Cardinality(Of(k)) = Cardinality(P!Roots(bytes)) =>
                    Of(k) = P!Roots(bytes)
    <2> HIDE DEF Of
    <2>1. QED
      BY <1>2, <1>3, FS_Subset, FS_CardinalityType
  <1>5. Of(1) = {} /\ Of(Len(bytes) + 1) = P!Roots(bytes) /\ c \notin Of(c)
    BY <1>1
  <1>6. Of(c + 1) = IF c \in P!Roots(bytes) THEN Of(c) \cup {c} ELSE Of(c)
    BY <1>1
  <1>7. \A k : RootsBefore(bytes, k) = Cardinality(Of(k))
    BY DEF RootsBefore
  <1> HIDE DEF Of
  <1>8. c \in P!Roots(bytes) => Cardinality(Of(c + 1)) = Cardinality(Of(c)) + 1
    BY <1>4, <1>5, <1>6, FS_AddElement
  <1>9. c \notin P!Roots(bytes) => Cardinality(Of(c + 1)) = Cardinality(Of(c)) + 0
    BY <1>4, <1>6
  <1>10. Cardinality(Of(1)) = 0
    BY <1>5, FS_EmptySet
  <1>11. c \in P!Roots(bytes) =>
           Cardinality(Of(c)) < Cardinality(P!Roots(bytes))
    BY <1>2, <1>4, <1>5
  <1>12. QED
    BY <1>2, <1>4, <1>5, <1>7, <1>8, <1>9, <1>10, <1>11

\* The line ends before a place, with the place 0.
LinesBefore(i) == {0} \cup {j \in 1 .. i - 1 : stream.bytes[j] = "n"}

LEMMA LastLineEnd ==
  ASSUME NEW i \in Nat \ {0}
  PROVE  /\ P!Max(LinesBefore(i)) \in LinesBefore(i)
         /\ \A j \in LinesBefore(i) : j <= P!Max(LinesBefore(i))
         /\ P!Max(LinesBefore(i)) \in 0 .. i - 1
         /\ IsFiniteSet(LinesBefore(i)) /\ Cardinality(LinesBefore(i)) \in Nat \ {0}
  <1> DEFINE S == LinesBefore(i)
             T == {n \in Nat : \A j \in S : j <= n}
  <1>1. S \in SUBSET (0 .. i - 1) /\ 0 \in S
    BY DEF LinesBefore
  <1>2. i - 1 \in T
    BY <1>1
  <1>3. PICK n \in T : \A m \in T : n <= m
    <2>1. T \in SUBSET Nat /\ T # {}
      BY <1>2
    <2> HIDE DEF T
    <2>2. QED
      BY <2>1, LeastExists
  <1>4. n \in S
    <2>1. SUFFICES ASSUME n \notin S PROVE FALSE
      OBVIOUS
    <2>2. n \in Nat /\ n # 0 /\ \A j \in S : j <= n /\ j # n /\ j \in Nat
      BY <1>1, <1>3, <2>1
    <2>3. n - 1 \in T
      BY <2>2
    <2>4. QED
      BY <1>3, <2>2, <2>3
  <1>5. \A j \in S : n >= j
    BY <1>1, <1>3
  <1>6. P!Max(S) \in S /\ \A j \in S : P!Max(S) >= j
    BY <1>4, <1>5 DEF P!Max
  <1>7. IsFiniteSet(S) /\ Cardinality(S) \in Nat
    <2>1. IsFiniteSet(0 .. i - 1)
      BY FS_Interval
    <2> HIDE DEF S
    <2>2. QED
      BY <1>1, <2>1, FS_Subset, FS_CardinalityType
  <1>8. Cardinality(S) # 0
    BY <1>1, <1>7, FS_EmptySet
  <1> HIDE DEF S
  <1>9. P!Max(S) \in 0 .. i - 1
    BY <1>1, <1>6
  <1>10. \A j \in S : j <= P!Max(S)
    BY <1>1, <1>6, <1>9
  <1>11. QED
    BY <1>6, <1>7, <1>8, <1>9, <1>10 DEF S

LEMMA PlaceNext ==
  ASSUME NEW i \in Nat \ {0}
  PROVE  /\ P!Place(i) \in (Nat \ {0}) \X (Nat \ {0})
         /\ P!Place(1) = <<1, 1>>
         /\ stream.bytes[i] = "n" => P!Place(i + 1) = <<P!Place(i)[1] + 1, 1>>
         /\ stream.bytes[i] # "n" =>
              P!Place(i + 1) = <<P!Place(i)[1], P!Place(i)[2] + 1>>
  <1>1. \A k : P!Place(k) = <<Cardinality(LinesBefore(k)), k - P!Max(LinesBefore(k))>>
    BY PullerCardinality DEF P!Place, LinesBefore
  <1>2. /\ Cardinality(LinesBefore(i)) \in Nat \ {0} /\ IsFiniteSet(LinesBefore(i))
        /\ i - P!Max(LinesBefore(i)) \in Nat \ {0} /\ P!Max(LinesBefore(i)) \in Nat
    BY LastLineEnd
  <1>3. P!Place(1) = <<1, 1>>
    <2>1. LinesBefore(1) = {0}
      BY DEF LinesBefore
    <2>2. P!Max(LinesBefore(1)) = 0
      BY LastLineEnd
    <2>3. Cardinality(LinesBefore(1)) = 1
      BY <2>1, FS_Singleton
    <2>4. QED
      BY <1>1, <2>2, <2>3
  <1>4. CASE stream.bytes[i] = "n"
    <2>1. LinesBefore(i + 1) = LinesBefore(i) \cup {i} /\ i \notin LinesBefore(i)
      BY <1>4 DEF LinesBefore
    <2>2. Cardinality(LinesBefore(i + 1)) = Cardinality(LinesBefore(i)) + 1
      BY <1>2, <2>1, FS_AddElement
    <2>3. P!Max(LinesBefore(i + 1)) = i
      <3>1. i \in LinesBefore(i + 1) /\ i + 1 \in Nat \ {0}
        BY <2>1
      <3>2. /\ P!Max(LinesBefore(i + 1)) \in 0 .. (i + 1) - 1
            /\ \A j \in LinesBefore(i + 1) : j <= P!Max(LinesBefore(i + 1))
        BY <3>1, LastLineEnd
      <3>3. QED
        BY <3>1, <3>2
    <2>4. QED
      BY <1>1, <1>2, <1>3, <1>4, <2>2, <2>3
  <1>5. CASE stream.bytes[i] # "n"
    <2>1. LinesBefore(i + 1) = LinesBefore(i)
      BY <1>5 DEF LinesBefore
    <2>2. (i + 1) - P!Max(LinesBefore(i)) = (i - P!Max(LinesBefore(i))) + 1
      BY <1>2
    <2>3. QED
      BY <1>1, <1>2, <1>3, <1>5, <2>1, <2>2
  <1>6. QED
    BY <1>4, <1>5

-----------------------------------------------------------------------------
(* The puller: expat.  u is the state of the puller, of which only the     *)
(* place where the document begins counts here.                            *)

EventKinds == {"START_ELEMENT", "END_ELEMENT", "CHARDATA", "UNPARSED", "DECL"}

Events == [kind : EventKinds, from : Nat, to : Nat, row : Nat, col : Nat]

ExpatParsers ==
  [rest : Seq(Nat), offset : Nat, row : Nat \ {0}, col : Nat, depth : Nat,
   root : BOOLEAN, handler : BOOLEAN, status : {"ok", "error"},
   events : Seq(Events)]

\* The place of the first byte that p has not consumed, of those before b.
Next(p, b) == b - Len(p.rest)

Ahead(p, b) ==
  /\ Next(p, b) > 0
  /\ \A i \in 1 .. Len(p.rest) : p.rest[i] = (Next(p, b) + i) - 1

\* The row and column of an event or of the parser in the file.
Spot(u, e) == <<P!Placed(u, e).row, P!Placed(u, e).col>>

Starts(u) == u.prev_row \in Nat \ {0} /\ u.prev_col \in Nat \ {0}

\* An element more or less after the event.
Change(kind) ==
  CASE kind = "START_ELEMENT" -> 1 [] kind = "END_ELEMENT" -> -1 [] OTHER -> 0

EventRight(u, e) ==
  /\ e \in Events
  /\ e.from > 0 /\ e.from < e.to /\ e.to <= Len(stream.bytes) + 1
  /\ P!Spelling(e.kind, SubSeq(stream.bytes, e.from, e.to - 1))
  /\ <<P!Placed(u, e).row, P!Placed(u, e).col>> = P!Place(e.from)
  /\ P!Depth(stream.bytes, e.to - 1) =
       P!Depth(stream.bytes, e.from - 1) + Change(e.kind)

\* The end of a sequence of events that begins at c.
EndOf(events, c) == IF events = <<>> THEN c ELSE events[Len(events)].to

EventsRight(u, events, c) ==
  \A i \in 1 .. Len(events) :
    /\ EventRight(u, events[i])
    /\ events[i].from = IF i = 1 THEN c ELSE events[i - 1].to

\* What is promised of a stream whose delivery is: documents, one unless several
\* are read, the later ones in an encoding that expat knows.
Promised ==
  /\ stream.good /\ (multi \/ stream.docs = 1)
  /\ \A i \in 2 .. Len(stream.bytes) : stream.bytes[i] # "x"

\* The place is behind a whole tag or one byte, and the parser knows where it is:
\* from the document's first byte, in the file, and how deep.  Of the documents
\* that began before it all but the current one have ended.
ParserRight(u, p, b, start, ends) ==
  LET c == Next(p, b) IN
  /\ p \in ExpatParsers /\ Ahead(p, b)
  /\ c = start + p.offset
  /\ c > 1 => stream.bytes[c - 1] \notin {"s1", "e1"}
  /\ c = 1 => p.handler /\ p.offset = 0
  /\ Spot(u, p) = P!Place(c)
  /\ p.depth = P!Depth(stream.bytes, c - 1)
  /\ p.depth > 0 => p.root
  /\ p.root => c > 1
  /\ RootsBefore(stream.bytes, c) = ends + IF p.root THEN 1 ELSE 0
  /\ Promised /\ ends > 0 /\ ~p.root => c \in P!Roots(stream.bytes)

\* What stops the parser is another document.
StoppedAt(p, b) ==
  /\ Next(p, b) \in P!Roots(stream.bytes)
  /\ p.root /\ p.depth = 0 /\ p.rest # <<>>

Stuck(p) == p.status = "error" \/ p.rest = <<>> \/ Len(p.rest) < P!Size(p)

LEMMA SubSeqOne ==
  ASSUME NEW S, NEW s \in Seq(S), NEW i \in 1 .. Len(s)
  PROVE  SubSeq(s, i, i) = <<s[i]>>
  <1>1. /\ Len(SubSeq(s, i, i)) = 1 /\ SubSeq(s, i, i)[1] = s[i]
        /\ SubSeq(s, i, i) \in Seq(S)
    OBVIOUS
  <1>2. s[i] \in S
    OBVIOUS
  <1>3. PICK t \in Seq(S) : t = <<s[i]>> /\ Len(t) = 1 /\ t[1] = s[i]
    <2>1. PICK x \in S : x = s[i]
      BY <1>2
    <2>2. <<x>> \in Seq(S) /\ Len(<<x>>) = 1 /\ <<x>>[1] = x
      OBVIOUS
    <2>3. QED
      BY <2>1, <2>2
  <1>4. PICK r \in Seq(S) : r = SubSeq(s, i, i) /\ Len(r) = 1 /\ r[1] = s[i]
    BY <1>1
  <1>5. Len(r) = Len(t) /\ \A j \in 1 .. Len(r) : r[j] = t[j]
    BY <1>3, <1>4
  <1>6. QED
    BY <1>3, <1>4, <1>5, SeqEqual

LEMMA SubSeqTwo ==
  ASSUME NEW S, NEW s \in Seq(S), NEW i \in 1 .. Len(s), i + 1 \in 1 .. Len(s)
  PROVE  SubSeq(s, i, i + 1) = <<s[i], s[i + 1]>>
  <1>1. /\ Len(SubSeq(s, i, i + 1)) = 2 /\ SubSeq(s, i, i + 1) \in Seq(S)
        /\ SubSeq(s, i, i + 1)[1] = s[i] /\ SubSeq(s, i, i + 1)[2] = s[i + 1]
    OBVIOUS
  <1>2. s[i] \in S /\ s[i + 1] \in S
    OBVIOUS
  <1>3. PICK t \in Seq(S) : /\ t = <<s[i], s[i + 1]>> /\ Len(t) = 2
                            /\ t[1] = s[i] /\ t[2] = s[i + 1]
    <2>1. PICK x \in S, y \in S : x = s[i] /\ y = s[i + 1]
      BY <1>2
    <2>2. /\ <<x, y>> \in Seq(S) /\ Len(<<x, y>>) = 2
          /\ <<x, y>>[1] = x /\ <<x, y>>[2] = y
      OBVIOUS
    <2>3. QED
      BY <2>1, <2>2
  <1>4. PICK r \in Seq(S) : /\ r = SubSeq(s, i, i + 1) /\ Len(r) = 2
                            /\ r[1] = s[i] /\ r[2] = s[i + 1]
    BY <1>1
  <1>5. Len(r) = Len(t) /\ \A j \in 1 .. Len(r) : r[j] = t[j]
    BY <1>3, <1>4
  <1>6. QED
    BY <1>3, <1>4, <1>5, SeqEqual

LEMMA StreamFacts ==
  ASSUME stream \in Streams
  PROVE  /\ stream.bytes \in Seq(P!Bytes) /\ Len(stream.bytes) \in Nat
         /\ \A i \in 1 .. Len(stream.bytes) - 1 :
              /\ stream.bytes[i] = "s1" => stream.bytes[i + 1] = "s2"
              /\ stream.bytes[i] = "e1" => stream.bytes[i + 1] = "e2"
         /\ stream.good => /\ P!WellFormed(stream.bytes)
                           /\ stream.docs = Cardinality(P!Roots(stream.bytes))
                           /\ stream.docs > 0
  BY StreamsAssumption, PullerCardinality DEF P!StreamsSpelt

\* The next token, when it is one and whole.
CanConsume(p) ==
  /\ p.status = "ok" /\ p.rest # <<>> /\ Len(p.rest) >= P!Size(p)
  /\ P!Kind(p) # "none"

LEMMA KindFacts ==
  ASSUME stream \in Streams, NEW b \in 1 .. Len(stream.bytes) + 1,
         NEW p \in ExpatParsers, Ahead(p, b), CanConsume(p),
         NEW c, c = Next(p, b)
  PROVE  /\ c \in 1 .. Len(stream.bytes) /\ P!Byte(p) = stream.bytes[c]
         /\ p.rest[1] = c
         /\ P!Kind(p) \in EventKinds
         /\ P!Size(p) = IF stream.bytes[c] \in {"s1", "e1"} THEN 2 ELSE 1
         /\ c + P!Size(p) <= b /\ Len(p.rest) \in Nat /\ c = b - Len(p.rest)
         /\ P!Kind(p) = "START_ELEMENT" =>
              /\ stream.bytes[c] = "s1" /\ stream.bytes[c + 1] = "s2"
              /\ p.depth > 0 \/ ~p.root
         /\ P!Kind(p) = "END_ELEMENT" =>
              /\ stream.bytes[c] = "e1" /\ stream.bytes[c + 1] = "e2"
              /\ p.depth > 0
         /\ P!Kind(p) \in {"CHARDATA", "UNPARSED"} => stream.bytes[c] \in {"t", "n"}
         /\ P!Kind(p) = "DECL" => stream.bytes[c] = "x"
  <1>1. /\ p.rest \in Seq(Nat) /\ Len(p.rest) \in Nat /\ Len(p.rest) > 0
        /\ Len(stream.bytes) \in Nat /\ b \in Nat
    <2>1. p.rest \in Seq(Nat) /\ p.rest # <<>> /\ Len(stream.bytes) \in Nat
      BY StreamFacts DEF ExpatParsers, CanConsume
    <2>2. Len(p.rest) \in Nat /\ Len(p.rest) # 0
      BY <2>1, EmptySeq
    <2>3. QED
      BY <2>1, <2>2
  <1>2. c \in 1 .. Len(stream.bytes) /\ c = b - Len(p.rest) /\ c \in Nat
    BY <1>1 DEF Ahead, Next
  <1>3. p.rest[1] = c
    <2>1. p.rest[1] = (c + 1) - 1
      BY <1>1 DEF Ahead
    <2>2. QED
      BY <1>2, <2>1
  <1>4. P!Byte(p) = stream.bytes[c]
    BY <1>3 DEF P!Byte
  <1>5. P!Size(p) = IF stream.bytes[c] \in {"s1", "e1"} THEN 2 ELSE 1
    BY <1>4 DEF P!Size
  <1>6. c + P!Size(p) <= b
    BY <1>1, <1>2, <1>5 DEF CanConsume
  <1>7. stream.bytes[c] \in {"s1", "e1"} => c \in 1 .. Len(stream.bytes) - 1
    BY <1>1, <1>2, <1>5, <1>6
  <1>8. /\ stream.bytes[c] = "s1" => stream.bytes[c + 1] = "s2"
        /\ stream.bytes[c] = "e1" => stream.bytes[c + 1] = "e2"
    BY <1>7, StreamFacts
  <1>9. P!Kind(p) \in EventKinds
    BY DEF CanConsume, P!Kind, EventKinds
  <1>10. QED
    BY <1>1, <1>2, <1>3, <1>4, <1>5, <1>6, <1>8, <1>9 DEF P!Kind

LEMMA SpellingFacts ==
  ASSUME stream \in Streams, NEW b \in 1 .. Len(stream.bytes) + 1,
         NEW p \in ExpatParsers, Ahead(p, b), CanConsume(p),
         NEW c, c = Next(p, b)
  PROVE  /\ P!Spelling(P!Kind(p), SubSeq(stream.bytes, c, (c + P!Size(p)) - 1))
         /\ P!Depth(stream.bytes, (c + P!Size(p)) - 1) =
              P!Depth(stream.bytes, c - 1) + Change(P!Kind(p))
         /\ stream.bytes[(c + P!Size(p)) - 1] \notin {"s1", "e1"}
  <1> DEFINE B == stream.bytes
             k == P!Kind(p)
  <1>1. /\ c \in 1 .. Len(B) /\ Len(B) \in Nat /\ B \in Seq(P!Bytes) /\ b \in Nat
        /\ k \in EventKinds
        /\ P!Size(p) = IF B[c] \in {"s1", "e1"} THEN 2 ELSE 1
        /\ c + P!Size(p) <= b
        /\ k = "START_ELEMENT" => B[c] = "s1" /\ B[c + 1] = "s2"
        /\ k = "END_ELEMENT" => B[c] = "e1" /\ B[c + 1] = "e2"
        /\ k \in {"CHARDATA", "UNPARSED"} => B[c] \in {"t", "n"}
        /\ k = "DECL" => B[c] = "x"
    BY KindFacts, StreamFacts
  <1>2. c - 1 \in Nat /\ (c - 1) + 1 = c /\ c \in Nat /\ (c + 1) - 1 = c
        /\ (c + 2) - 1 = c + 1
    BY <1>1
  <1>3. /\ P!Depth(B, c - 1) \in Int
        /\ B[c] = "s1" => P!Depth(B, c) = P!Depth(B, c - 1) + 1
        /\ B[c] = "e1" => P!Depth(B, c) = P!Depth(B, c - 1) - 1
        /\ B[c] \notin {"s1", "e1"} => P!Depth(B, c) = P!Depth(B, c - 1)
    BY <1>2, DepthNext
  <1>4. B[c + 1] \notin {"s1", "e1"} => P!Depth(B, c + 1) = P!Depth(B, c)
    BY <1>2, DepthNext
  <1>5. CASE k \in {"START_ELEMENT", "END_ELEMENT"}
    <2>1. P!Size(p) = 2 /\ c + 1 \in 1 .. Len(B) /\ B[c + 1] \notin {"s1", "e1"}
      BY <1>1, <1>5
    <2>2. SubSeq(B, c, c + 1) = <<B[c], B[c + 1]>>
      BY <1>1, <2>1, SubSeqTwo
    <2>3. Change(k) = IF k = "START_ELEMENT" THEN 1 ELSE -1
      BY <1>5 DEF Change
    <2>4. P!Depth(B, c + 1) = P!Depth(B, c - 1) + Change(k)
      <3>1. P!Depth(B, c + 1) = P!Depth(B, c)
        BY <1>4, <2>1
      <3>2. CASE k = "START_ELEMENT"
        BY <1>1, <1>3, <2>3, <3>1, <3>2
      <3>3. CASE k = "END_ELEMENT"
        <4>1. PICK d \in Int : d = P!Depth(B, c - 1)
          BY <1>3
        <4>2. P!Depth(B, c) = d - 1 /\ Change(k) = -1
          BY <1>1, <1>3, <2>3, <3>3, <4>1
        <4>3. QED
          BY <3>1, <4>1, <4>2
      <3>4. QED
        BY <1>5, <3>2, <3>3
    <2>5. P!Spelling(k, SubSeq(B, c, c + 1))
      BY <1>1, <1>5, <2>2 DEF P!Spelling
    <2>6. QED
      BY <1>2, <2>1, <2>4, <2>5
  <1>6. CASE k \in {"CHARDATA", "UNPARSED", "DECL"}
    <2>1. P!Size(p) = 1 /\ B[c] \in {"t", "n", "x"}
      BY <1>1, <1>6
    <2>2. PICK x : x = B[c] /\ x \in P!Bytes
      BY <1>1
    <2>3. SubSeq(B, c, c) = <<x>>
      BY <1>1, <2>2, SubSeqOne
    <2>4. Change(k) = 0
      BY <1>6 DEF Change
    <2>5. P!Depth(B, c) = P!Depth(B, c - 1) + Change(k)
      <3>1. PICK d \in Int : d = P!Depth(B, c - 1)
        BY <1>3
      <3>2. P!Depth(B, c) = d
        BY <1>3, <2>1, <3>1
      <3>3. QED
        BY <2>4, <3>1, <3>2
    <2>6. P!Spelling(k, <<x>>)
      <3>1. k = "DECL" => x = "x"
        BY <1>1, <2>2
      <3>2. k # "DECL" => x \in {"t", "n"}
        BY <1>1, <1>6, <2>2
      <3>3. P!ToSet(<<x>>) = {x} /\ <<x>> # <<>>
        BY DEF P!ToSet
      <3>4. QED
        BY <1>6, <3>1, <3>2, <3>3 DEF P!Spelling
    <2>7. QED
      BY <1>2, <2>1, <2>2, <2>3, <2>5, <2>6
  <1>7. QED
    BY <1>1, <1>5, <1>6 DEF EventKinds

\* There is an element in the events.
HasStart(events) ==
  \E i \in 1 .. Len(events) : events[i].kind = "START_ELEMENT"

\* The parser has made events of the bytes from c on; root tells if the document
\* had an element before.
Running(u, p, b, start, ends, c, root) ==
  /\ ParserRight(u, p, b, start, ends)
  /\ EventsRight(u, p.events, c)
  /\ EndOf(p.events, c) = Next(p, b) /\ c <= Next(p, b)
  /\ p.root <=> (root \/ HasStart(p.events))

LEMMA SpotOf ==
  ASSUME NEW u, NEW e, {"row", "col"} \subseteq DOMAIN e
  PROVE  Spot(u, e) = <<u.prev_row + (e.row - 1),
                        IF e.row = 1 THEN u.prev_col + e.col ELSE e.col + 1>>
  <1> DEFINE row == u.prev_row + (e.row - 1)
             col == IF e.row = 1 THEN u.prev_col + e.col ELSE e.col + 1
  <1>1. P!Placed(u, e) = [e EXCEPT !.row = row, !.col = col]
    BY DEF P!Placed
  <1> HIDE DEF row, col
  <1>2. P!Placed(u, e).row = row /\ P!Placed(u, e).col = col
    BY <1>1
  <1>3. QED
    BY <1>2 DEF Spot, row, col

LEMMA ConsumedPlace ==
  ASSUME stream \in Streams, NEW b \in 1 .. Len(stream.bytes) + 1,
         NEW p \in ExpatParsers, Ahead(p, b), CanConsume(p), NEW u, Starts(u),
         Spot(u, p) = P!Place(Next(p, b))
  PROVE  Spot(u, P!Consumed(p)) = P!Place(Next(p, b) + P!Size(p))
  <1> DEFINE q == P!Consumed(p)
             c == Next(p, b)
             B == stream.bytes
  <1>1. /\ c \in 1 .. Len(B) /\ Len(B) \in Nat /\ P!Byte(p) = B[c]
        /\ P!Size(p) = IF B[c] \in {"s1", "e1"} THEN 2 ELSE 1
        /\ B[c] = "s1" => B[c + 1] = "s2"
        /\ B[c] = "e1" => B[c + 1] = "e2"
    <2>1. /\ P!Kind(p) = "START_ELEMENT" => B[c] = "s1" /\ B[c + 1] = "s2"
          /\ P!Kind(p) = "END_ELEMENT" => B[c] = "e1" /\ B[c + 1] = "e2"
          /\ P!Kind(p) \in {"CHARDATA", "UNPARSED"} => B[c] \in {"t", "n"}
          /\ P!Kind(p) = "DECL" => B[c] = "x"
          /\ P!Kind(p) \in EventKinds
      BY KindFacts
    <2>2. /\ c \in 1 .. Len(B) /\ P!Byte(p) = B[c]
          /\ P!Size(p) = IF B[c] \in {"s1", "e1"} THEN 2 ELSE 1
      BY KindFacts
    <2>3. QED
      BY <2>1, <2>2, StreamFacts DEF EventKinds
  <1>2. /\ q.row = IF B[c] = "n" THEN p.row + 1 ELSE p.row
        /\ q.col = IF B[c] = "n" THEN 0 ELSE p.col + P!Size(p)
    BY <1>1 DEF P!Consumed, ExpatParsers
  <1>3. p.row \in Nat \ {0} /\ p.col \in Nat /\ u.prev_row \in Nat \ {0}
        /\ u.prev_col \in Nat \ {0}
    BY DEF ExpatParsers, Starts
  <1>4. \A e \in {p, q} :
          Spot(u, e) = <<u.prev_row + (e.row - 1),
                         IF e.row = 1 THEN u.prev_col + e.col ELSE e.col + 1>>
    <2>1. DOMAIN p = DOMAIN q
      BY DEF P!Consumed
    <2>2. {"row", "col"} \subseteq DOMAIN p
      BY DEF ExpatParsers
    <2> HIDE DEF q
    <2>3. QED
      BY <2>1, <2>2, SpotOf
  <1> HIDE DEF q
  <1>5. CASE B[c] = "n"
    <2>1. P!Place(c + 1) = <<P!Place(c)[1] + 1, 1>>
      BY <1>1, <1>5, PlaceNext
    <2>2. P!Place(c)[1] = u.prev_row + (p.row - 1)
      BY <1>4
    <2>3. Spot(u, q) = <<u.prev_row + ((p.row + 1) - 1), 0 + 1>>
      BY <1>2, <1>3, <1>4, <1>5
    <2>4. u.prev_row + ((p.row + 1) - 1) = (u.prev_row + (p.row - 1)) + 1
      BY <1>3
    <2>5. P!Size(p) = 1
      BY <1>1, <1>5
    <2>6. QED
      BY <2>1, <2>2, <2>3, <2>4, <2>5 DEF q
  <1>6. CASE B[c] # "n"
    <2>1. P!Place(c)[1] = u.prev_row + (p.row - 1)
          /\ P!Place(c)[2] = IF p.row = 1 THEN u.prev_col + p.col ELSE p.col + 1
      BY <1>4
    <2>2. P!Place(c + P!Size(p)) = <<P!Place(c)[1], P!Place(c)[2] + P!Size(p)>>
      <3>1. P!Place(c + 1) = <<P!Place(c)[1], P!Place(c)[2] + 1>>
        BY <1>1, <1>6, PlaceNext
      <3>2. CASE P!Size(p) = 1
        BY <3>1, <3>2
      <3>3. CASE P!Size(p) = 2
        <4>1. B[c + 1] # "n" /\ c + 1 \in Nat \ {0} /\ (c + 1) + 1 = c + 2
          BY <1>1, <3>3
        <4>2. P!Place(c + 2) = <<P!Place(c + 1)[1], P!Place(c + 1)[2] + 1>>
          BY <4>1, PlaceNext
        <4>3. P!Place(c + 2) = <<P!Place(c)[1], (P!Place(c)[2] + 1) + 1>>
          BY <3>1, <4>2
        <4>4. P!Place(c)[2] \in Nat
          BY <1>3, <2>1
        <4>5. QED
          BY <3>3, <4>3, <4>4
      <3>4. QED
        BY <1>1, <3>2, <3>3
    <2>3. Spot(u, q) = <<u.prev_row + (p.row - 1),
                        IF p.row = 1 THEN u.prev_col + (p.col + P!Size(p))
                        ELSE (p.col + P!Size(p)) + 1>>
      BY <1>2, <1>4, <1>6
    <2>4. P!Size(p) \in Nat
      BY <1>1
    <2>5. QED
      BY <1>3, <2>1, <2>2, <2>3, <2>4 DEF q
  <1>7. QED
    BY <1>5, <1>6

LEMMA ConsumedFields ==
  ASSUME NEW p \in ExpatParsers, NEW q, q = P!Consumed(p)
  PROVE  /\ q.events = Append(p.events, P!Event(p, P!Kind(p)))
         /\ q.rest = SubSeq(p.rest, P!Size(p) + 1, Len(p.rest))
         /\ q.offset = p.offset + P!Size(p)
         /\ q.depth = CASE P!Kind(p) = "START_ELEMENT" -> p.depth + 1
                        [] P!Kind(p) = "END_ELEMENT" -> p.depth - 1
                        [] OTHER -> p.depth
         /\ q.root = (p.root \/ P!Kind(p) = "START_ELEMENT")
         /\ q.status = IF P!Kind(p) = "DECL" /\ ~p.handler THEN "error"
                       ELSE p.status
         /\ q.row = IF P!Byte(p) = "n" THEN p.row + 1 ELSE p.row
         /\ q.col = IF P!Byte(p) = "n" THEN 0 ELSE p.col + P!Size(p)
         /\ q.handler = p.handler
         /\ q = [rest |-> q.rest, offset |-> q.offset, row |-> q.row,
                 col |-> q.col, depth |-> q.depth, root |-> q.root,
                 handler |-> q.handler, status |-> q.status, events |-> q.events]
  <1> DEFINE D == {"rest", "offset", "row", "col", "depth", "root", "handler",
                   "status", "events"}
  <1>1. DOMAIN p = D
    BY DEF ExpatParsers
  <1>2. q = [x \in D |->
              CASE x = "events" -> Append(p.events, P!Event(p, P!Kind(p)))
                [] x = "rest" -> SubSeq(p.rest, P!Size(p) + 1, Len(p.rest))
                [] x = "offset" -> p.offset + P!Size(p)
                [] x = "row" -> IF P!Byte(p) = "n" THEN p.row + 1 ELSE p.row
                [] x = "col" -> IF P!Byte(p) = "n" THEN 0 ELSE p.col + P!Size(p)
                [] x = "depth" ->
                     CASE P!Kind(p) = "START_ELEMENT" -> p.depth + 1
                       [] P!Kind(p) = "END_ELEMENT" -> p.depth - 1
                       [] OTHER -> p.depth
                [] x = "root" -> (p.root \/ P!Kind(p) = "START_ELEMENT")
                [] x = "status" ->
                     IF P!Kind(p) = "DECL" /\ ~p.handler THEN "error" ELSE p.status
                [] OTHER -> p.handler]
    BY <1>1 DEF P!Consumed
  <1>3. QED
    BY <1>2


LEMMA EventAppended ==
  ASSUME NEW events \in Seq(Events), NEW e \in Events, NEW c, NEW u,
         EventsRight(u, events, c), EventRight(u, e), e.from = EndOf(events, c)
  PROVE  /\ Append(events, e) \in Seq(Events)
         /\ EventsRight(u, Append(events, e), c)
         /\ EndOf(Append(events, e), c) = e.to
         /\ HasStart(Append(events, e)) <=>
              (HasStart(events) \/ e.kind = "START_ELEMENT")
  <1> DEFINE s == Append(events, e)
             n == Len(events)
  <1>1. /\ s \in Seq(Events) /\ Len(s) = n + 1 /\ n \in Nat /\ s # <<>>
        /\ s[n + 1] = e /\ \A i \in 1 .. n : s[i] = events[i]
    OBVIOUS
  <1>2. n = 0 <=> events = <<>>
    BY EmptySeq
  <1>3. EndOf(s, c) = e.to
    BY <1>1 DEF EndOf
  <1>4. HasStart(s) <=> (HasStart(events) \/ e.kind = "START_ELEMENT")
    BY <1>1 DEF HasStart
  <1>5. ASSUME NEW i \in 1 .. n + 1
        PROVE  /\ EventRight(u, s[i])
               /\ s[i].from = IF i = 1 THEN c ELSE s[i - 1].to
    <2>1. CASE i \in 1 .. n
      BY <1>1, <2>1 DEF EventsRight
    <2>2. CASE i = n + 1
      BY <1>1, <1>2, <2>2 DEF EndOf
    <2>3. QED
      BY <1>1, <2>1, <2>2
  <1>6. EventsRight(u, s, c)
    BY <1>1, <1>5 DEF EventsRight
  <1>7. QED
    BY <1>1, <1>3, <1>4, <1>6

LEMMA Rest ==
  ASSUME NEW s \in Seq(Nat), NEW n \in 1 .. Len(s), NEW r,
         r = SubSeq(s, n + 1, Len(s))
  PROVE  /\ r \in Seq(Nat) /\ Len(r) = Len(s) - n
         /\ \A i \in 1 .. Len(r) : r[i] = s[n + i]
  OBVIOUS

LEMMA ConsumedRight ==
  ASSUME stream \in Streams, NEW b \in 1 .. Len(stream.bytes) + 1,
         NEW u, Starts(u), NEW start \in Nat, NEW ends \in Nat, NEW from,
         NEW root, NEW p, Running(u, p, b, start, ends, from, root),
         CanConsume(p)
  PROVE  /\ Running(u, P!Consumed(p), b, start, ends, from, root)
         /\ Len(P!Consumed(p).rest) < Len(p.rest)
         /\ Promised => P!Consumed(p).status = "ok"
  <1> DEFINE B == stream.bytes
             c == Next(p, b)
             k == P!Kind(p)
             size == P!Size(p)
             e == P!Event(p, k)
  <1>a. PICK q : q = P!Consumed(p)
    OBVIOUS
  <1>1. /\ p \in ExpatParsers /\ Ahead(p, b) /\ c = start + p.offset
        /\ c = 1 => p.handler /\ p.offset = 0
        /\ Spot(u, p) = P!Place(c) /\ p.depth = P!Depth(B, c - 1)
        /\ p.depth > 0 => p.root
        /\ RootsBefore(B, c) = ends + IF p.root THEN 1 ELSE 0
        /\ Promised /\ ends > 0 /\ ~p.root => c \in P!Roots(B)
    BY DEF Running, ParserRight
  <1>2. /\ c \in 1 .. Len(B) /\ P!Byte(p) = B[c] /\ p.rest[1] = c
        /\ size = IF B[c] \in {"s1", "e1"} THEN 2 ELSE 1
        /\ c + size <= b /\ Len(p.rest) \in Nat /\ c = b - Len(p.rest)
    <2>0. p \in ExpatParsers /\ Ahead(p, b)
      BY <1>1
    <2>1. PICK d : d = c
      OBVIOUS
    <2>2. /\ d \in 1 .. Len(B) /\ P!Byte(p) = B[d] /\ p.rest[1] = d
          /\ size = IF B[d] \in {"s1", "e1"} THEN 2 ELSE 1
          /\ d + size <= b /\ Len(p.rest) \in Nat /\ d = b - Len(p.rest)
      BY <2>0, <2>1, KindFacts
    <2>3. QED
      BY <2>1, <2>2
  <1>k. /\ k \in EventKinds
        /\ k = "START_ELEMENT" => B[c] = "s1"
        /\ k = "START_ELEMENT" => p.depth > 0 \/ ~p.root
        /\ k = "END_ELEMENT" => B[c] = "e1" /\ p.depth > 0
        /\ k \in {"CHARDATA", "UNPARSED"} => B[c] \in {"t", "n"}
        /\ k = "DECL" => B[c] = "x"
    <2>0. p \in ExpatParsers /\ Ahead(p, b)
      BY <1>1
    <2>1. PICK d : d = c
      OBVIOUS
    <2>2. /\ k \in EventKinds
          /\ k = "START_ELEMENT" => B[d] = "s1"
          /\ k = "START_ELEMENT" => p.depth > 0 \/ ~p.root
          /\ k = "END_ELEMENT" => B[d] = "e1" /\ p.depth > 0
          /\ k \in {"CHARDATA", "UNPARSED"} => B[d] \in {"t", "n"}
          /\ k = "DECL" => B[d] = "x"
      BY <2>0, <2>1, KindFacts
    <2>3. QED
      BY <2>1, <2>2
  <1>3. /\ P!Spelling(k, SubSeq(B, c, (c + size) - 1))
        /\ P!Depth(B, (c + size) - 1) = P!Depth(B, c - 1) + Change(k)
        /\ B[(c + size) - 1] \notin {"s1", "e1"}
    BY <1>1, SpellingFacts
  <1>4. /\ q.events = Append(p.events, e)
        /\ q.rest = SubSeq(p.rest, size + 1, Len(p.rest))
        /\ q.offset = p.offset + size
        /\ q.depth = CASE k = "START_ELEMENT" -> p.depth + 1
                       [] k = "END_ELEMENT" -> p.depth - 1
                       [] OTHER -> p.depth
        /\ q.root = (p.root \/ k = "START_ELEMENT")
        /\ q.status = IF k = "DECL" /\ ~p.handler THEN "error" ELSE p.status
        /\ q.row = IF P!Byte(p) = "n" THEN p.row + 1 ELSE p.row
        /\ q.col = IF P!Byte(p) = "n" THEN 0 ELSE p.col + size
        /\ q.handler = p.handler
        /\ q = [rest |-> q.rest, offset |-> q.offset, row |-> q.row,
                col |-> q.col, depth |-> q.depth, root |-> q.root,
                handler |-> q.handler, status |-> q.status, events |-> q.events]
    BY <1>1, <1>a, ConsumedFields
  <1>5. Spot(u, q) = P!Place(c + size)
    BY <1>1, <1>a, ConsumedPlace
  <1> HIDE DEF c, k, size, e
  <1>5a. /\ p.rest \in Seq(Nat) /\ p.offset \in Nat /\ p.row \in Nat \ {0}
         /\ p.col \in Nat /\ p.depth \in Nat /\ p.root \in BOOLEAN
         /\ p.handler \in BOOLEAN /\ p.status \in {"ok", "error"}
         /\ p.events \in Seq(Events)
    <2>1. p \in ExpatParsers
      BY <1>1
    <2>2. QED
      BY <2>1 DEF ExpatParsers
  <1>6. /\ Len(B) \in Nat /\ b \in Nat /\ size \in {1, 2} /\ c \in Nat /\ c > 0
        /\ size \in 1 .. Len(p.rest) /\ b <= Len(B) + 1
    <2>1. Len(B) \in Nat
      BY StreamFacts
    <2>2. b \in Nat /\ b <= Len(B) + 1
      BY <2>1
    <2>3. size \in {1, 2} /\ c \in Nat /\ c > 0
      BY <1>2, <2>1
    <2>4. size \in 1 .. Len(p.rest)
      BY <1>2, <2>2, <2>3
    <2>5. QED
      BY <2>1, <2>2, <2>3, <2>4
  <1>7. /\ q.rest \in Seq(Nat) /\ Len(q.rest) = Len(p.rest) - size
        /\ \A i \in 1 .. Len(q.rest) : q.rest[i] = p.rest[size + i]
    <2>1. q.rest = SubSeq(p.rest, size + 1, Len(p.rest))
      BY <1>4
    <2>2. QED
      BY <1>5a, <1>6, <2>1, Rest
  <1>8. Next(q, b) = c + size /\ Ahead(q, b)
    <2>1. Next(q, b) = c + size
      BY <1>2, <1>6, <1>7 DEF Next, c
    <2>2. ASSUME NEW i \in 1 .. Len(q.rest)
          PROVE  q.rest[i] = (Next(q, b) + i) - 1
      <3>1. size + i \in 1 .. Len(p.rest)
        BY <1>6, <1>7
      <3>2. p.rest[size + i] = (c + (size + i)) - 1
        BY <1>1, <3>1 DEF Ahead, c
      <3>3. QED
        BY <1>6, <1>7, <2>1, <3>2
    <2>3. QED
      BY <1>6, <2>1, <2>2 DEF Ahead
  <1>9. q.depth = P!Depth(B, (c + size) - 1) /\ q.depth \in Nat
    <2>1. Change(k) = IF k = "START_ELEMENT" THEN 1
                      ELSE IF k = "END_ELEMENT" THEN -1 ELSE 0
      BY DEF Change
    <2>2. q.depth = p.depth + Change(k) /\ q.depth \in Nat
      <3>1. p.depth \in Nat /\ (k = "END_ELEMENT" => p.depth > 0)
        BY <1>5a, <1>k
      <3>2. q.depth = CASE k = "START_ELEMENT" -> p.depth + 1
                        [] k = "END_ELEMENT" -> p.depth - 1
                        [] OTHER -> p.depth
        BY <1>4
      <3>3. QED
        BY <2>1, <3>1, <3>2
    <2>3. QED
      BY <1>1, <1>3, <2>2
  <1>10. e \in Events /\ e.from = c /\ e.to = c + size /\ e.kind = k
    <2>1. e = [kind |-> k, from |-> c, to |-> c + size, row |-> p.row,
               col |-> p.col]
      BY <1>2 DEF P!Event, e, k, size
    <2>2. k \in EventKinds /\ c \in Nat /\ c + size \in Nat
      BY <1>k, <1>6
    <2>3. p.row \in Nat /\ p.col \in Nat
      BY <1>5a
    <2>4. QED
      BY <2>1, <2>2, <2>3 DEF Events
  <1>11. EventRight(u, e)
    <2>1. Spot(u, e) = Spot(u, p)
      <3>1. {"row", "col"} \subseteq DOMAIN e /\ e.row = p.row /\ e.col = p.col
        BY DEF P!Event, e
      <3>2. {"row", "col"} \subseteq DOMAIN p
        BY <1>1 DEF ExpatParsers
      <3>3. QED
        BY <3>1, <3>2, SpotOf
    <2>2. c < c + size /\ c + size <= Len(B) + 1
      <3>1. c + size <= b
        BY <1>2
      <3>2. QED
        BY <1>6, <3>1
    <2>3. QED
      BY <1>1, <1>3, <1>6, <1>10, <2>1, <2>2 DEF EventRight, Spot
  <1>12. /\ q.events \in Seq(Events) /\ EventsRight(u, q.events, from)
         /\ EndOf(q.events, from) = c + size
         /\ HasStart(q.events) <=> (HasStart(p.events) \/ k = "START_ELEMENT")
    <2>1. EventsRight(u, p.events, from) /\ EndOf(p.events, from) = c
      BY DEF Running, c
    <2>2. QED
      BY <1>4, <1>5a, <1>10, <1>11, <2>1, EventAppended
  <1>13. q \in ExpatParsers
    <2>1. /\ q.rest \in Seq(Nat) /\ q.offset \in Nat /\ q.row \in Nat \ {0}
          /\ q.col \in Nat /\ q.depth \in Nat /\ q.root \in BOOLEAN
          /\ q.handler \in BOOLEAN /\ q.status \in {"ok", "error"}
          /\ q.events \in Seq(Events)
      <3>1. q.rest \in Seq(Nat) /\ q.depth \in Nat /\ q.events \in Seq(Events)
        BY <1>7, <1>9, <1>12
      <3>2. /\ q.offset = p.offset + size
            /\ q.row = IF P!Byte(p) = "n" THEN p.row + 1 ELSE p.row
            /\ q.col = IF P!Byte(p) = "n" THEN 0 ELSE p.col + size
        BY <1>4
      <3>3. q.offset \in Nat /\ q.row \in Nat \ {0} /\ q.col \in Nat
        <4>1. p.offset \in Nat /\ p.row \in Nat \ {0} /\ p.col \in Nat
          BY <1>5a
        <4>2. size \in Nat
          BY <1>6
        <4>3. QED
          BY <3>2, <4>1, <4>2
      <3>4. /\ q.root = (p.root \/ k = "START_ELEMENT")
            /\ q.status = IF k = "DECL" /\ ~p.handler THEN "error" ELSE p.status
            /\ q.handler = p.handler
        BY <1>4
      <3>5. q.root \in BOOLEAN /\ q.status \in {"ok", "error"}
            /\ q.handler \in BOOLEAN
        BY <1>5a, <3>4
      <3>6. QED
        BY <3>1, <3>3, <3>5
    <2>2. QED
      BY <1>4, <2>1 DEF ExpatParsers
  <1>14. /\ k = "START_ELEMENT" => (c \in P!Roots(B) <=> p.depth = 0)
         /\ k # "START_ELEMENT" => c \notin P!Roots(B)
         /\ size = 2 => c + 1 \in 1 .. Len(B) /\ c + 1 \notin P!Roots(B)
    <2>1. k # "START_ELEMENT" => B[c] # "s1"
      BY <1>k DEF EventKinds
    <2>2. size = 2 => c + 1 \in 1 .. Len(B) /\ B[c + 1] # "s1"
      <3>1. size = 2 => c + 1 \in 1 .. Len(B) /\ (c + 2) - 1 = c + 1
        <4>1. c + size <= b
          BY <1>2
        <4>2. QED
          BY <1>6, <4>1
      <3>2. QED
        BY <1>3, <3>1
    <2>3. QED
      BY <1>1, <1>2, <1>k, <2>1, <2>2 DEF P!Roots
  <1>15. RootsBefore(B, c + size) = RootsBefore(B, c) + IF k = "START_ELEMENT" /\ p.depth = 0
                                           THEN 1 ELSE 0
    <2>1. /\ RootsBefore(B, c) \in Nat
          /\ RootsBefore(B, c + 1) = RootsBefore(B, c) + IF c \in P!Roots(B) THEN 1 ELSE 0
      BY <1>2, <1>6, BegunNext
    <2>2. size = 2 => RootsBefore(B, (c + 1) + 1) = RootsBefore(B, c + 1) + 0
      BY <1>6, <1>14, BegunNext
    <2>3. (c + 1) + 1 = c + 2
      BY <1>6
    <2>4. CASE size = 1
      BY <1>14, <2>1, <2>4
    <2>5. CASE size = 2
      BY <1>14, <2>1, <2>2, <2>3, <2>5
    <2>6. QED
      BY <1>6, <2>4, <2>5
  <1>16. RootsBefore(B, c + size) = ends + IF q.root THEN 1 ELSE 0
    <2>1. p.root \/ p.depth = 0
      BY <1>1, <1>5a
    <2>2. k = "START_ELEMENT" /\ p.root => p.depth # 0
      BY <1>k
    <2>3. RootsBefore(B, c) = ends + IF p.root THEN 1 ELSE 0
      BY <1>1
    <2>4. q.root = (p.root \/ k = "START_ELEMENT")
      BY <1>4
    <2>5. CASE k = "START_ELEMENT" /\ p.depth = 0
      <3>1. RootsBefore(B, c + size) = ends + 0 + 1 /\ q.root
        BY <1>15, <2>2, <2>3, <2>4, <2>5
      <3>2. QED
        BY <3>1
    <2>6. CASE ~(k = "START_ELEMENT" /\ p.depth = 0)
      <3>1. q.root = p.root
        BY <1>5a, <2>1, <2>4, <2>6
      <3>2. RootsBefore(B, c + size) = RootsBefore(B, c)
        BY <1>15, <2>3, <2>6
      <3>3. QED
        BY <2>3, <3>1, <3>2
    <2>7. QED
      BY <2>5, <2>6
  <1>17. Promised /\ ends > 0 => q.root
    <2>1. c \in P!Roots(B) => k = "START_ELEMENT"
      BY <1>14
    <2>2. QED
      BY <1>1, <1>4, <2>1
  <1>18. q.depth > 0 => q.root
    <2>1. p.depth = 0 /\ k # "START_ELEMENT" => q.depth = 0
      BY <1>4, <1>5a, <1>k
    <2>2. p.depth > 0 => p.root
      BY <1>1
    <2>3. q.root = (p.root \/ k = "START_ELEMENT")
      BY <1>4
    <2>4. QED
      <3>1. p.depth \in Nat /\ q.depth \in Nat
        BY <1>5a, <1>9
      <3>2. p.root \/ k = "START_ELEMENT" => q.root
        BY <2>3
      <3>3. p.depth > 0 \/ k = "START_ELEMENT" \/ ~(q.depth > 0)
        BY <2>1, <3>1
      <3>4. QED
        BY <2>2, <3>2, <3>3
  <1>19. c + size > 1 /\ c + size = start + q.offset
    <2>1. c = start + p.offset /\ q.offset = p.offset + size
      BY <1>1, <1>4
    <2>2. p.offset \in Nat
      BY <1>5a
    <2>3. QED
      BY <1>6, <2>1, <2>2
  <1>20. ParserRight(u, q, b, start, ends)
    <2>1. QED
      BY <1>3, <1>5, <1>8, <1>9, <1>13, <1>16, <1>17, <1>18, <1>19
      DEF ParserRight
  <1>21. Promised => q.status = "ok"
    <2>1. Promised /\ B[c] = "x" => c = 1
      <3>1. c \in 1 .. Len(B) /\ Len(B) \in Nat
        BY <1>2, <1>6
      <3>2. c # 1 => c \in 2 .. Len(B)
        BY <3>1
      <3>3. QED
        BY <3>2 DEF Promised
    <2>2. Promised /\ k = "DECL" => p.handler
      BY <1>1, <1>k, <2>1
    <2>3. QED
      BY <1>4, <2>2 DEF CanConsume
  <1>22. from <= c + size
    <2>1. from <= c /\ EndOf(p.events, from) = c
      BY DEF Running, c
    <2>2. from \in Int
      <3>1. CASE p.events = <<>>
        BY <1>6, <2>1, <3>1 DEF EndOf
      <3>2. CASE p.events # <<>>
        <4>1. 1 \in 1 .. Len(p.events)
          BY <1>5a, <3>2, EmptySeq
        <4>2. p.events[1].from = from /\ p.events[1] \in Events
          BY <4>1 DEF Running, EventsRight, EventRight
        <4>3. QED
          BY <4>2 DEF Events
      <3>3. QED
        BY <3>1, <3>2
    <2>3. QED
      BY <1>6, <2>1, <2>2
  <1>23. Len(q.rest) < Len(p.rest)
    BY <1>6, <1>7
  <1>24. Running(u, q, b, start, ends, from, root)
    <2>1. p.root <=> (root \/ HasStart(p.events))
      BY DEF Running
    <2>2. QED
      BY <1>4, <1>8, <1>12, <1>20, <1>22, <2>1 DEF Running
  <1>25. QED
    BY <1>a, <1>21, <1>23, <1>24


\* The parser is as right with other events, another status or a puller whose
\* document begins at the same place.
LEMMA ParserSame ==
  ASSUME NEW p \in ExpatParsers, NEW q \in ExpatParsers, NEW u, NEW v, NEW b, NEW start,
         NEW ends, q.rest = p.rest, q.offset = p.offset, q.row = p.row,
         q.col = p.col, q.depth = p.depth, q.root = p.root,
         q.handler = p.handler, v.prev_row = u.prev_row, v.prev_col = u.prev_col,
         ParserRight(u, p, b, start, ends)
  PROVE  /\ ParserRight(v, q, b, start, ends)
         /\ Next(q, b) = Next(p, b) /\ P!Size(q) = P!Size(p)
  <1>1. Next(q, b) = Next(p, b) /\ P!Size(q) = P!Size(p)
    BY DEF Next, P!Size, P!Byte
  <1>2. Spot(v, q) = Spot(u, p)
    <2>1. {"row", "col"} \subseteq DOMAIN p /\ {"row", "col"} \subseteq DOMAIN q
      BY DEF ExpatParsers
    <2>2. QED
      BY <2>1, SpotOf
  <1>3. Ahead(p, b) => Ahead(q, b)
    BY <1>1 DEF Ahead
  <1>4. QED
    BY <1>1, <1>2, <1>3 DEF ParserRight

LEMMA EventsSame ==
  ASSUME NEW u, NEW v, v.prev_row = u.prev_row, v.prev_col = u.prev_col,
         NEW events, NEW c, EventsRight(u, events, c)
  PROVE  EventsRight(v, events, c)
  <1>1. ASSUME NEW e, EventRight(u, e) PROVE EventRight(v, e)
    <2>1. {"row", "col"} \subseteq DOMAIN e
      BY <1>1 DEF EventRight, Events
    <2>2. Spot(v, e) = Spot(u, e)
      BY <2>1, SpotOf
    <2>3. QED
      BY <1>1, <2>2 DEF EventRight, Spot
  <1>2. QED
    BY <1>1 DEF EventsRight

LEMMA ByteFacts ==
  ASSUME stream \in Streams, NEW b \in 1 .. Len(stream.bytes) + 1,
         NEW p \in ExpatParsers, Ahead(p, b), p.rest # <<>>, NEW c, c = Next(p, b)
  PROVE  /\ c \in 1 .. Len(stream.bytes) /\ P!Byte(p) = stream.bytes[c]
         /\ p.rest[1] = c /\ c < b
  <1>1. /\ p.rest \in Seq(Nat) /\ Len(stream.bytes) \in Nat /\ b \in Nat
        /\ b <= Len(stream.bytes) + 1
    BY StreamFacts DEF ExpatParsers
  <1>2. Len(p.rest) \in Nat /\ Len(p.rest) # 0
    BY <1>1, EmptySeq
  <1>3. c = b - Len(p.rest) /\ c > 0
    BY DEF Ahead, Next
  <1>4. p.rest[1] = (c + 1) - 1
    BY <1>2 DEF Ahead
  <1>5. c \in Nat /\ c < b /\ c \in 1 .. Len(stream.bytes) /\ (c + 1) - 1 = c
    BY <1>1, <1>2, <1>3
  <1>6. QED
    BY <1>4, <1>5 DEF P!Byte

\* In what is promised the parser does not stop before the next document.
LEMMA NoneStopped ==
  ASSUME stream \in Streams, NEW b \in 1 .. Len(stream.bytes) + 1, NEW u,
         NEW start \in Nat, NEW ends \in Nat, NEW p,
         ParserRight(u, p, b, start, ends), p.rest # <<>>,
         P!Kind(p) = "none", Promised
  PROVE  StoppedAt(p, b)
  <1> DEFINE B == stream.bytes
  <1>1. PICK c : c = Next(p, b)
    OBVIOUS
  <1>2. /\ p \in ExpatParsers /\ Ahead(p, b) /\ p.depth = P!Depth(B, c - 1)
        /\ c = start + p.offset
        /\ c > 1 => B[c - 1] \notin {"s1", "e1"}
    BY <1>1 DEF ParserRight
  <1>3. c = 1 => p.offset = 0
    BY <1>1 DEF ParserRight
  <1>4. c \in 1 .. Len(B) /\ P!Byte(p) = B[c]
    BY <1>1, <1>2, ByteFacts
  <1>5. p.depth \in Nat /\ p.root \in BOOLEAN
    BY <1>2 DEF ExpatParsers
  <1>6. /\ B \in Seq(P!Bytes) /\ Len(B) \in Nat
        /\ P!WellFormed(B)
    BY StreamFacts DEF Promised
  <1>7. B[c] \in P!Bytes
    BY <1>4, <1>6
  <1>8. /\ B[c] \in {"t", "e1"} => p.depth > 0
        /\ B[c] = "s2" => c > 1 /\ B[c - 1] = "s1"
        /\ B[c] = "e2" => c > 1 /\ B[c - 1] = "e1"
    BY <1>2, <1>4, <1>6 DEF P!WellFormed
  <1>9. B[c] = "x" => c = 1
    BY <1>4, <1>6 DEF Promised
  <1>10. B[c] = "s1"
    <2>1. B[c] \notin {"s2", "e2"}
      BY <1>2, <1>8
    <2>2. B[c] # "e1"
      BY <1>4, <1>8 DEF P!Kind
    <2>3. B[c] # "t"
      BY <1>4, <1>8 DEF P!Kind
    <2>4. B[c] # "n"
      BY <1>4, <1>5 DEF P!Kind
    <2>5. B[c] # "x"
      BY <1>3, <1>4, <1>9 DEF P!Kind
    <2>6. QED
      BY <1>7, <2>1, <2>2, <2>3, <2>4, <2>5 DEF P!Bytes
  <1>11. p.depth = 0 /\ p.root
    BY <1>4, <1>5, <1>10 DEF P!Kind
  <1>12. c \in P!Roots(B)
    BY <1>2, <1>4, <1>10, <1>11 DEF P!Roots
  <1>13. QED
    BY <1>1, <1>11, <1>12 DEF StoppedAt

\* A parser that has failed in what is promised has met the next document.
Stopped(p, b) == Promised /\ p.status = "error" => StoppedAt(p, b)

LEMMA TokenRight ==
  ASSUME stream \in Streams, NEW b \in 1 .. Len(stream.bytes) + 1,
         NEW u, Starts(u), NEW start \in Nat, NEW ends \in Nat, NEW from,
         NEW root, NEW p, Running(u, p, b, start, ends, from, root), Stopped(p, b)
  PROVE  /\ Running(u, P!Token(p), b, start, ends, from, root)
         /\ Stopped(P!Token(p), b)
         /\ Stuck(p) => P!Token(p) = p
         /\ ~Stuck(p) => \/ Stuck(P!Token(p))
                         \/ Len(P!Token(p).rest) < Len(p.rest)
  <1>0. p \in ExpatParsers /\ ParserRight(u, p, b, start, ends)
    BY DEF Running, ParserRight
  <1>1. CASE Stuck(p)
    <2>1. P!Token(p) = p
      BY <1>1 DEF P!Token, Stuck
    <2>2. QED
      BY <1>1, <2>1
  <1>2. CASE ~Stuck(p) /\ P!Kind(p) = "none"
    <2>1. PICK q : q = [p EXCEPT !.status = "error"]
      OBVIOUS
    <2>2. P!Token(p) = q
      BY <1>2, <2>1 DEF P!Token, Stuck
    <2>3. /\ q \in ExpatParsers /\ q.rest = p.rest /\ q.offset = p.offset
          /\ q.row = p.row /\ q.col = p.col /\ q.depth = p.depth
          /\ q.root = p.root /\ q.handler = p.handler /\ q.events = p.events
          /\ q.status = "error"
      BY <1>0, <2>1 DEF ExpatParsers
    <2>4. ParserRight(u, q, b, start, ends) /\ Next(q, b) = Next(p, b)
      BY <1>0, <2>3, ParserSame
    <2>5. Running(u, q, b, start, ends, from, root)
      BY <2>3, <2>4 DEF Running
    <2>6. Promised => StoppedAt(p, b)
      <3>1. p.rest # <<>>
        BY <1>2 DEF Stuck
      <3>2. QED
        BY <1>0, <1>2, <3>1, NoneStopped
    <2>7. Stopped(q, b)
      BY <2>3, <2>4, <2>6 DEF Stopped, StoppedAt
    <2>8. Stuck(q)
      BY <2>3 DEF Stuck
    <2>9. QED
      BY <1>2, <2>2, <2>5, <2>7, <2>8
  <1>3. CASE ~Stuck(p) /\ P!Kind(p) # "none"
    <2>1. P!Token(p) = P!Consumed(p)
      BY <1>3 DEF P!Token, Stuck
    <2>2. CanConsume(p)
      <3>1. p.status \in {"ok", "error"} /\ p.rest \in Seq(Nat)
        BY <1>0 DEF ExpatParsers
      <3>2. Len(p.rest) \in Int /\ P!Size(p) \in Int
        BY <3>1 DEF P!Size
      <3>3. QED
        BY <1>3, <3>1, <3>2 DEF Stuck, CanConsume
    <2>3. /\ Running(u, P!Consumed(p), b, start, ends, from, root)
          /\ Len(P!Consumed(p).rest) < Len(p.rest)
          /\ Promised => P!Consumed(p).status = "ok"
      BY <2>2, ConsumedRight
    <2>4. Stopped(P!Consumed(p), b)
      BY <2>3 DEF Stopped
    <2>5. QED
      BY <1>3, <2>1, <2>3, <2>4
  <1>4. QED
    BY <1>1, <1>2, <1>3


LEMMA Joint ==
  ASSUME NEW S, NEW s \in Seq(S), NEW t \in Seq(S), NEW r, r = s \o t
  PROVE  /\ r \in Seq(S) /\ Len(r) = Len(s) + Len(t)
         /\ \A i \in 1 .. Len(s) : r[i] = s[i]
         /\ \A i \in 1 .. Len(t) : r[Len(s) + i] = t[i]
         /\ \A i \in 1 .. Len(r) : i > Len(s) =>
              i - Len(s) \in 1 .. Len(t) /\ r[i] = t[i - Len(s)]
  <1>1. r \in Seq(S) /\ Len(r) = Len(s) + Len(t) /\ Len(s) \in Nat /\ Len(t) \in Nat
    OBVIOUS
  <1>2. \A i \in 1 .. Len(s) + Len(t) :
          r[i] = IF i <= Len(s) THEN s[i] ELSE t[i - Len(s)]
    OBVIOUS
  <1>3. ASSUME NEW i \in 1 .. Len(t) PROVE r[Len(s) + i] = t[i]
    <2>1. /\ Len(s) + i \in 1 .. Len(s) + Len(t) /\ ~(Len(s) + i <= Len(s))
          /\ (Len(s) + i) - Len(s) = i
      BY <1>1
    <2>2. QED
      BY <1>2, <2>1
  <1>4. ASSUME NEW i \in 1 .. Len(r), i > Len(s)
        PROVE  i - Len(s) \in 1 .. Len(t) /\ r[i] = t[i - Len(s)]
    BY <1>1, <1>2, <1>4
  <1>5. QED
    BY <1>1, <1>2, <1>3, <1>4

\* The parser with the bytes from old on added.
Added(p, bytes) == [p EXCEPT !.rest = p.rest \o bytes, !.events = <<>>]

LEMMA BytesAdded ==
  ASSUME NEW u, NEW start \in Nat, NEW ends \in Nat, NEW p, NEW b \in Nat,
         NEW old \in Nat, ParserRight(u, p, old, start, ends),
         NEW bytes \in Seq(Nat), b = old + Len(bytes),
         \A i \in 1 .. Len(bytes) : bytes[i] = old + (i - 1),
         NEW q, q = Added(p, bytes)
  PROVE  /\ Running(u, q, b, start, ends, Next(p, old), p.root)
         /\ q.status = p.status
  <1>1. p \in ExpatParsers /\ Ahead(p, old)
    BY DEF ParserRight
  <1>2. p.rest \in Seq(Nat) /\ Len(p.rest) \in Nat /\ Len(bytes) \in Nat
    BY <1>1 DEF ExpatParsers
  <1>3. /\ p.rest \o bytes \in Seq(Nat)
        /\ Len(p.rest \o bytes) = Len(p.rest) + Len(bytes)
        /\ \A i \in 1 .. Len(p.rest) : (p.rest \o bytes)[i] = p.rest[i]
        /\ \A i \in 1 .. Len(p.rest \o bytes) : i > Len(p.rest) =>
             /\ i - Len(p.rest) \in 1 .. Len(bytes)
             /\ (p.rest \o bytes)[i] = bytes[i - Len(p.rest)]
    BY <1>2, Joint
  <1>4. <<>> \in Seq(Events) /\ Len(<<>>) = 0
    OBVIOUS
  <1>5. /\ q \in ExpatParsers /\ q.rest = p.rest \o bytes /\ q.offset = p.offset
        /\ q.row = p.row /\ q.col = p.col /\ q.depth = p.depth
        /\ q.root = p.root /\ q.handler = p.handler /\ q.events = <<>>
        /\ q.status = p.status
    BY <1>1, <1>3, <1>4 DEF ExpatParsers, Added
  <1>6. Next(q, b) = Next(p, old)
    <2>1. PICK m \in Nat, n \in Nat : m = Len(p.rest) /\ n = Len(bytes)
      BY <1>2
    <2>2. Len(q.rest) = m + n
      BY <1>3, <1>5, <2>1
    <2>3. Next(q, b) = b - (m + n) /\ Next(p, old) = old - m /\ b = old + n
      BY <2>1, <2>2 DEF Next
    <2>4. QED
      BY <2>3
  <1>7. Ahead(q, b)
    <2>1. PICK c : c = Next(p, old)
      OBVIOUS
    <2>2. c = old - Len(p.rest) /\ c > 0 /\ c \in Nat
          /\ \A i \in 1 .. Len(p.rest) : p.rest[i] = (c + i) - 1
      <3>1. c = old - Len(p.rest)
        BY <2>1 DEF Next
      <3>2. c > 0 /\ \A i \in 1 .. Len(p.rest) : p.rest[i] = (c + i) - 1
        BY <1>1, <2>1 DEF Ahead
      <3>3. c \in Nat
        BY <1>2, <3>1, <3>2
      <3>4. QED
        BY <3>1, <3>2, <3>3
    <2>3. ASSUME NEW i \in 1 .. Len(p.rest \o bytes)
          PROVE  (p.rest \o bytes)[i] = (c + i) - 1
      <3>1. CASE i \in 1 .. Len(p.rest)
        BY <1>3, <2>2, <3>1
      <3>2. CASE i \notin 1 .. Len(p.rest)
        <4>1. PICK m \in Nat : m = Len(p.rest)
          BY <1>2
        <4>2. i > m /\ i \in Nat
          BY <1>2, <3>2, <4>1
        <4>3. i - m \in 1 .. Len(bytes) /\ (p.rest \o bytes)[i] = bytes[i - m]
          BY <1>3, <4>1, <4>2
        <4>4. (p.rest \o bytes)[i] = old + ((i - m) - 1)
          BY <4>3
        <4>5. QED
          BY <2>2, <4>1, <4>2, <4>4
      <3>3. QED
        BY <3>1, <3>2
    <2>4. Next(q, b) = c /\ q.rest = p.rest \o bytes
      BY <1>5, <1>6, <2>1
    <2>5. QED
      BY <2>2, <2>3, <2>4 DEF Ahead
  <1>8. Spot(u, q) = Spot(u, p)
    <2>1. {"row", "col"} \subseteq DOMAIN p /\ {"row", "col"} \subseteq DOMAIN q
      BY <1>1, <1>5 DEF ExpatParsers
    <2>2. QED
      BY <1>5, <2>1, SpotOf
  <1>9. ParserRight(u, q, b, start, ends)
    BY <1>5, <1>6, <1>7, <1>8 DEF ParserRight
  <1>10. /\ EventsRight(u, q.events, Next(p, old))
         /\ EndOf(q.events, Next(p, old)) = Next(p, old) /\ ~HasStart(q.events)
    BY <1>4, <1>5 DEF EventsRight, EndOf, HasStart
  <1>11. Next(p, old) <= Next(q, b)
    <2>1. PICK m \in Nat : m = Len(p.rest)
      BY <1>2
    <2>2. Next(p, old) = old - m
      BY <2>1 DEF Next
    <2>3. QED
      BY <1>6, <2>2
  <1>12. QED
    BY <1>5, <1>6, <1>9, <1>10, <1>11 DEF Running

LEMMA ParsedRight ==
  ASSUME stream \in Streams, NEW b \in 1 .. Len(stream.bytes) + 1,
         NEW u, Starts(u), NEW start \in Nat, NEW ends \in Nat, NEW p,
         NEW old \in Nat, ParserRight(u, p, old, start, ends), p.status = "ok",
         NEW bytes \in Seq(Nat), b = old + Len(bytes),
         \A i \in 1 .. Len(bytes) : bytes[i] = old + (i - 1),
         NEW c, c = Next(p, old), NEW root, root = p.root
  PROVE  /\ Running(u, P!Parsed(p, bytes), b, start, ends, c, root)
         /\ Stopped(P!Parsed(p, bytes), b)
         /\ Stuck(P!Parsed(p, bytes))
  <1> DEFINE rest == p.rest \o bytes
             L == Len(rest)
             p0 == [p EXCEPT !.rest = rest, !.events = <<>>]
             X == {q \in ExpatParsers : /\ Running(u, q, b, start, ends, c, root)
                                   /\ Stopped(q, b)}
             F == [i \in 1 .. L |-> [q \in X |-> P!Token(q)]]
             Is(f) == f = [i \in 0 .. L |-> IF i = 0 THEN p0
                                            ELSE P!Token(f[i - 1])]
  <1>1. p \in ExpatParsers /\ p.rest \in Seq(Nat) /\ rest \in Seq(Nat) /\ L \in Nat
    <2>1. p \in ExpatParsers
      BY DEF ParserRight
    <2>2. p.rest \in Seq(Nat)
      BY <2>1 DEF ExpatParsers
    <2>3. QED
      BY <2>1, <2>2
  <1>2. p0 \in X /\ p0.rest = rest
    <2>1. Running(u, p0, b, start, ends, c, root) /\ p0.status = "ok"
      <3>1. PICK q : q = p0
        OBVIOUS
      <3>2. b \in Nat
        BY StreamFacts
      <3>3. /\ Running(u, q, b, start, ends, Next(p, old), p.root)
            /\ q.status = p.status
        <4>1. q = Added(p, bytes)
          BY <3>1 DEF Added
        <4> HIDE DEF p0, X, F, L
        <4>2. QED
          BY <3>2, <4>1, BytesAdded
      <3>4. QED
        BY <3>1, <3>3
    <2>2. Stopped(p0, b)
      BY <2>1 DEF Stopped
    <2>3. p0 \in ExpatParsers
      BY <2>1 DEF Running, ParserRight
    <2>4. p0.rest = rest
      BY <1>1 DEF ExpatParsers
    <2> HIDE DEF p0
    <2>5. QED
      BY <2>1, <2>2, <2>3, <2>4
  <1>3. ASSUME NEW q \in X
        PROVE  /\ P!Token(q) \in X
               /\ Stuck(q) => P!Token(q) = q
               /\ ~Stuck(q) => \/ Stuck(P!Token(q))
                               \/ Len(P!Token(q).rest) < Len(q.rest)
    <2>1. /\ Running(u, P!Token(q), b, start, ends, c, root)
          /\ Stopped(P!Token(q), b)
          /\ Stuck(q) => P!Token(q) = q
          /\ ~Stuck(q) => \/ Stuck(P!Token(q))
                          \/ Len(P!Token(q).rest) < Len(q.rest)
      BY TokenRight
    <2>2. P!Token(q) \in ExpatParsers
      BY <2>1 DEF Running, ParserRight
    <2>3. QED
      BY <2>1, <2>2
  <1>4. F \in [1 .. L -> [X -> X]]
    <2> HIDE DEF X
    <2>1. QED
      BY <1>3
  <1> HIDE DEF p0, X
  <1>5. PICK g \in [0 .. L -> X] :
          /\ g[0] = p0
          /\ \A i \in 1 .. L : g[i] = F[i][g[i - 1]]
    <2> HIDE DEF F, L
    <2>1. Runs(L, X, p0, F) # {}
      BY <1>1, <1>2, <1>4, RecursionExists
    <2>2. QED
      BY <2>1 DEF Runs
  <1>6. ASSUME NEW i \in 1 .. L PROVE g[i - 1] \in X /\ g[i] = P!Token(g[i - 1])
    <2> HIDE DEF L
    <2>1. i - 1 \in 0 .. L
      BY <1>1
    <2>2. g[i - 1] \in X /\ g[i] = F[i][g[i - 1]]
      BY <1>5, <2>1
    <2>3. QED
      BY <2>2
  <1> HIDE DEF L, F
  <1>7. Is(g)
    BY <1>1, <1>5, <1>6
  <1>8. PICK f : Is(f) /\ P!Parsed(p, bytes) = f[L]
    <2>1. Is(CHOOSE f : Is(f))
      <3> HIDE DEF Is
      <3>1. QED
        BY <1>7
    <2>2. QED
      BY <2>1 DEF P!Parsed, L, p0
  <1>9. g[0] = f[0]
    BY <1>1, <1>5, <1>8
  <1>10. ASSUME NEW i \in 0 + 1 .. L, g[i - 1] = f[i - 1]
         PROVE  g[i] = f[i]
    <2>1. i \in 1 .. L /\ i \in 0 .. L /\ i # 0
      BY <1>1
    <2>2. QED
      BY <1>6, <1>8, <1>10, <2>1
  <1>11. g[L] = f[L]
    <2>1. SameOver(0, L, g, f)
      BY <1>1, <1>9, <1>10, SameByStep
    <2>2. QED
      BY <1>1, <2>1 DEF SameOver
  \* After i tokens the parser is stuck or has lost i bytes.
  <1> DEFINE T == {i \in Nat : i <= L => \/ Stuck(g[i])
                                         \/ Len(g[i].rest) + i <= L}
  <1>12. T = Nat
    <2>1. 0 \in T
      BY <1>1, <1>2, <1>5 DEF L
    <2>2. ASSUME NEW i \in T PROVE i + 1 \in T
      <3>1. SUFFICES ASSUME i + 1 <= L
                     PROVE  Stuck(g[i + 1]) \/ Len(g[i + 1].rest) + (i + 1) <= L
        <4>1. i \in Nat /\ i + 1 \in Nat
          OBVIOUS
        <4>2. QED
          BY <4>1
      <3>2. i + 1 \in 1 .. L /\ (i + 1) - 1 = i /\ i \in Nat /\ i <= L
        BY <1>1, <3>1
      <3>3. g[i] \in X /\ g[i + 1] = P!Token(g[i]) /\ g[i + 1] \in X
        BY <1>3, <1>6, <3>2
      <3>4. CASE Stuck(g[i])
        BY <1>3, <3>3, <3>4
      <3>5. CASE ~Stuck(g[i])
        <4>1. Stuck(g[i + 1]) \/ Len(g[i + 1].rest) < Len(g[i].rest)
          BY <1>3, <3>3, <3>5
        <4>2. Len(g[i].rest) + i <= L
          BY <3>2, <3>5
        <4>3. Len(g[i].rest) \in Nat /\ Len(g[i + 1].rest) \in Nat
          <5>1. \A q \in X : q.rest \in Seq(Nat) /\ Len(q.rest) \in Nat
            BY DEF X, ExpatParsers
          <5>2. QED
            BY <3>3, <5>1
        <4>4. PICK m \in Nat, n \in Nat : m = Len(g[i].rest) /\ n = Len(g[i + 1].rest)
          BY <4>3
        <4>5. n < m => n + (i + 1) <= L
          <5>1. m + i <= L /\ i \in Nat /\ L \in Nat
            BY <1>1, <3>2, <4>2, <4>4
          <5> HIDE DEF T
          <5>2. QED
            BY <5>1
        <4>6. QED
          BY <4>1, <4>4, <4>5
      <3>6. QED
        BY <3>4, <3>5
    <2>3. QED
      <3> HIDE DEF T
      <3>1. T \in SUBSET Nat
        BY DEF T
      <3>2. QED
        BY <2>1, <2>2, <3>1, NatByStep
  <1>13. g[L] \in X
    BY <1>1, <1>5
  <1>14. Stuck(g[L])
    <2>1. Stuck(g[L]) \/ Len(g[L].rest) + L <= L
      <3>1. \A i \in T : i <= L => Stuck(g[i]) \/ Len(g[i].rest) + i <= L
        OBVIOUS
      <3> HIDE DEF T
      <3>2. L \in T /\ L <= L
        BY <1>1, <1>12
      <3>3. QED
        BY <3>1, <3>2
    <2>2. g[L].rest \in Seq(Nat)
      BY <1>13 DEF X, ExpatParsers
    <2>3. Len(g[L].rest) + L <= L => g[L].rest = <<>>
      BY <1>1, <2>2, EmptySeq
    <2>4. QED
      BY <2>1, <2>3 DEF Stuck
  <1>15. QED
    BY <1>8, <1>11, <1>13, <1>14 DEF X

-----------------------------------------------------------------------------
(* The puller: the callbacks.                                              *)

TextKinds == {"CHARDATA", "UNPARSED"}

Pullers ==
  [fd : {"open", "ended"}, status : {"ok", "error"}, queue : Seq(P!AnyToken),
   cdata : P!AnyToken \cup {NULL}, depth : Int, elements : Nat,
   prev_row : Nat \ {0}, prev_col : Nat \ {0}]

\* The tokens that are delivered and those that wait.
Queue(u) == tokens \o u.queue

LastKind(q) == IF q = <<>> THEN "none" ELSE q[Len(q)].kind

\* A token after one of the kind before that ends at from.
Tile(t, from, before) ==
  /\ t.from = from /\ from > 0 /\ from <= t.to /\ t.to <= Len(stream.bytes) + 1
  /\ P!Spelling(t.kind, SubSeq(stream.bytes, t.from, t.to - 1))
  /\ <<t.row, t.col>> = P!Place(t.from)
  /\ t.kind \in TextKinds => before # t.kind

Tiles(q) ==
  \A i \in 1 .. Len(q) :
    Tile(q[i], IF i = 1 THEN 1 ELSE q[i - 1].to,
               IF i = 1 THEN "none" ELSE q[i - 1].kind)

\* The documents whose end is in the queue.
Ended(q) == Cardinality({i \in 1 .. Len(q) : q[i].kind = "END_DOCUMENT"})

\* The tokens and the pending text come to the place c.
Open(q, cdata, c) ==
  IF cdata = NULL THEN P!Reached(q) = c /\ LastKind(q) \notin TextKinds
  ELSE /\ cdata \in P!AnyToken /\ cdata.kind \in TextKinds /\ cdata.to = c
       /\ Tile(cdata, P!Reached(q), LastKind(q))

Queued(u, c) ==
  /\ u \in Pullers /\ tokens \in Seq(P!AnyToken)
  /\ Tiles(Queue(u))
  /\ u.status = "ok" => Open(Queue(u), u.cdata, c)

\* What the queue does not touch.
SameElse(u, v) ==
  /\ v.fd = u.fd /\ v.depth = u.depth /\ v.elements = u.elements
  /\ v.prev_row = u.prev_row /\ v.prev_col = u.prev_col

LEMMA TokenAppended ==
  ASSUME NEW q \in Seq(P!AnyToken), NEW t \in P!AnyToken, NEW s, s = Append(q, t)
  PROVE  /\ s \in Seq(P!AnyToken)
         /\ Tiles(q) /\ Tile(t, P!Reached(q), LastKind(q)) => Tiles(s)
         /\ P!Reached(s) = t.to /\ LastKind(s) = t.kind
         /\ Ended(q) \in Nat
         /\ Ended(s) = Ended(q) + IF t.kind = "END_DOCUMENT" THEN 1 ELSE 0
  <1> DEFINE n == Len(q)
             Of(r, k) == {i \in 1 .. k : r[i].kind = "END_DOCUMENT"}
  <1>1. /\ s \in Seq(P!AnyToken) /\ Len(s) = n + 1 /\ n \in Nat /\ s # <<>>
        /\ s[n + 1] = t /\ \A i \in 1 .. n : s[i] = q[i]
    OBVIOUS
  <1>2. n = 0 <=> q = <<>>
    BY EmptySeq
  <1>3. P!Reached(s) = t.to /\ LastKind(s) = t.kind
    BY <1>1 DEF P!Reached, LastKind
  <1>4. ASSUME Tiles(q), Tile(t, P!Reached(q), LastKind(q)), NEW i \in 1 .. n + 1
        PROVE  Tile(s[i], IF i = 1 THEN 1 ELSE s[i - 1].to,
                          IF i = 1 THEN "none" ELSE s[i - 1].kind)
    <2>1. CASE i \in 1 .. n
      <3>1. s[i] = q[i] /\ (i # 1 => s[i - 1] = q[i - 1])
        BY <1>1, <2>1
      <3>2. Tile(q[i], IF i = 1 THEN 1 ELSE q[i - 1].to,
                       IF i = 1 THEN "none" ELSE q[i - 1].kind)
        BY <1>4, <2>1 DEF Tiles
      <3>3. QED
        BY <3>1, <3>2
    <2>2. CASE i = n + 1
      <3>1. CASE n = 0
        BY <1>1, <1>2, <1>4, <2>2, <3>1 DEF P!Reached, LastKind
      <3>2. CASE n # 0
        <4>1. q # <<>> /\ i # 1 /\ s[i] = t /\ i - 1 = n /\ s[n] = q[n]
          BY <1>1, <1>2, <2>2, <3>2
        <4>2. P!Reached(q) = q[n].to /\ LastKind(q) = q[n].kind
          BY <4>1 DEF P!Reached, LastKind
        <4>3. QED
          BY <1>4, <4>1, <4>2
      <3>3. QED
        BY <3>1, <3>2
    <2>3. QED
      BY <1>1, <2>1, <2>2
  <1>5. IsFiniteSet(Of(q, n)) /\ Cardinality(Of(q, n)) \in Nat
    <2>1. IsFiniteSet(1 .. n) /\ Of(q, n) \in SUBSET (1 .. n)
      BY <1>1, FS_Interval
    <2> HIDE DEF Of, n
    <2>2. QED
      BY <2>1, FS_Subset, FS_CardinalityType
  <1>6. Of(s, n + 1) = IF t.kind = "END_DOCUMENT" THEN Of(q, n) \cup {n + 1}
                       ELSE Of(q, n)
    BY <1>1
  <1>7. n + 1 \notin Of(q, n)
    BY <1>1
  <1>8. Ended(q) = Cardinality(Of(q, n)) /\ Ended(s) = Cardinality(Of(s, n + 1))
    BY <1>1 DEF Ended
  <1>9. /\ Ended(q) \in Nat
        /\ Ended(s) = Ended(q) + IF t.kind = "END_DOCUMENT" THEN 1 ELSE 0
    <2> HIDE DEF Of, n
    <2>1. CASE t.kind = "END_DOCUMENT"
      BY <1>5, <1>6, <1>7, <1>8, <2>1, FS_AddElement
    <2>2. CASE t.kind # "END_DOCUMENT"
      BY <1>5, <1>6, <1>8, <2>2
    <2>3. QED
      BY <2>1, <2>2
  <1>10. QED
    BY <1>1, <1>3, <1>4, <1>9 DEF Tiles

LEMMA QueueAppended ==
  ASSUME NEW u \in Pullers, NEW v \in Pullers, tokens \in Seq(P!AnyToken),
         NEW t \in P!AnyToken, v.queue = Append(u.queue, t)
  PROVE  Queue(v) = Append(Queue(u), t) /\ Queue(u) \in Seq(P!AnyToken)
  <1>1. u.queue \in Seq(P!AnyToken) /\ v.queue \in Seq(P!AnyToken)
    BY DEF Pullers
  <1>a. tokens \o v.queue \in Seq(P!AnyToken) /\ tokens \o u.queue \in Seq(P!AnyToken)
    BY <1>1
  <1>b. Append(tokens \o u.queue, t) \in Seq(P!AnyToken)
    BY <1>a
  <1>2. PICK a \in Seq(P!AnyToken) : a = Queue(v)
    BY <1>a DEF Queue
  <1>3. PICK b \in Seq(P!AnyToken) : b = Append(Queue(u), t)
    BY <1>b DEF Queue
  <1>4. Len(a) = Len(b) /\ \A i \in 1 .. Len(a) : a[i] = b[i]
    BY <1>1, <1>2, <1>3 DEF Queue
  <1>5. a = b
    BY <1>4, SeqEqual
  <1>6. QED
    BY <1>1, <1>2, <1>3, <1>5 DEF Queue

\* Text is spelt as text.
LEMMA TextSpelt ==
  ASSUME stream \in Streams, NEW from \in Nat \ {0}, NEW to \in Nat,
         to <= Len(stream.bytes) + 1, NEW kind \in TextKinds
  PROVE  P!Spelling(kind, SubSeq(stream.bytes, from, to - 1)) <=>
           /\ from < to
           /\ \A j \in from .. to - 1 : stream.bytes[j] \in {"t", "n"}
  <1> DEFINE B == stream.bytes
             s == SubSeq(B, from, to - 1)
  <1>1. B \in Seq(P!Bytes) /\ Len(B) \in Nat
    BY StreamFacts
  <1>2. P!Spelling(kind, s) <=> s # <<>> /\ P!ToSet(s) \subseteq {"t", "n"}
    BY DEF P!Spelling, TextKinds
  <1>3. CASE ~(from < to)
    <2>1. s = <<>>
      BY <1>1, <1>3
    <2>2. QED
      BY <1>2, <1>3, <2>1
  <1>4. CASE from < to
    <2>1. from \in 1 .. Len(B) /\ to - 1 \in 1 .. Len(B) /\ from <= to - 1
      BY <1>1, <1>4
    <2>2. /\ s \in Seq(P!Bytes) /\ Len(s) = to - from
          /\ \A i \in 1 .. Len(s) : s[i] = B[(from + i) - 1]
      BY <1>1, <2>1
    <2>3. s # <<>>
      BY <1>4, <2>2
    <2> HIDE DEF s
    <2>4. P!ToSet(s) = {s[i] : i \in 1 .. Len(s)}
      <3>1. DOMAIN s = 1 .. Len(s)
        BY <2>2
      <3>2. QED
        BY <3>1 DEF P!ToSet
    <2>5. ASSUME P!ToSet(s) \subseteq {"t", "n"}, NEW j \in from .. to - 1
          PROVE  B[j] \in {"t", "n"}
      <3>1. (j - from) + 1 \in 1 .. Len(s) /\ (from + ((j - from) + 1)) - 1 = j
        BY <2>2
      <3>2. s[(j - from) + 1] = B[j] /\ s[(j - from) + 1] \in P!ToSet(s)
        BY <2>2, <2>4, <3>1
      <3>3. QED
        BY <2>5, <3>2
    <2>6. ASSUME \A j \in from .. to - 1 : B[j] \in {"t", "n"},
                 NEW i \in 1 .. Len(s)
          PROVE  s[i] \in {"t", "n"}
      <3>1. (from + i) - 1 \in from .. to - 1
        BY <2>2
      <3>2. QED
        BY <2>2, <2>6, <3>1
    <2>7. QED
      BY <1>2, <1>4, <2>3, <2>4, <2>5, <2>6 DEF s
  <1>5. QED
    BY <1>3, <1>4


LEMMA PlacedToken ==
  ASSUME NEW u, u.prev_row \in Nat \ {0}, u.prev_col \in Nat \ {0},
         NEW e \in P!AnyToken, NEW t, t = P!Placed(u, e)
  PROVE  t \in P!AnyToken /\ t.kind = e.kind /\ t.from = e.from /\ t.to = e.to
  <1> DEFINE row == u.prev_row + (e.row - 1)
             col == IF e.row = 1 THEN u.prev_col + e.col ELSE e.col + 1
  <1>1. t = [e EXCEPT !.row = row, !.col = col]
    BY DEF P!Placed
  <1>2. e.row \in Nat /\ e.col \in Nat
    BY DEF P!AnyToken
  <1>3. row \in Nat /\ col \in Nat
    BY <1>2
  <1> HIDE DEF row, col
  <1>4. QED
    BY <1>1, <1>3 DEF P!AnyToken

LEMMA FlushedRight ==
  ASSUME NEW u, NEW c, Queued(u, c), NEW failure, NEW v, v = P!Flushed(u, failure)
  PROVE  /\ v \in Pullers /\ SameElse(u, v) /\ Tiles(Queue(v)) /\ v.cdata = NULL
         /\ Queue(v) \in Seq(P!AnyToken)
         /\ v.status = "ok" =>
              /\ u.status = "ok" /\ Ended(Queue(v)) = Ended(Queue(u))
              /\ P!Reached(Queue(v)) = c
              /\ LastKind(Queue(v)) \in TextKinds =>
                   u.cdata # NULL /\ LastKind(Queue(v)) = u.cdata.kind
         /\ u.status = "ok" /\ (failure # "flush" \/ u.cdata = NULL) =>
              v.status = "ok"
         /\ u.status # "ok" => Queue(v) = Queue(u)
  <1>1. /\ u \in Pullers /\ tokens \in Seq(P!AnyToken) /\ Tiles(Queue(u))
        /\ u.status = "ok" => Open(Queue(u), u.cdata, c)
    BY DEF Queued
  <1>2. u.queue \in Seq(P!AnyToken) /\ Queue(u) \in Seq(P!AnyToken)
    <2>1. u.queue \in Seq(P!AnyToken)
      BY <1>1 DEF Pullers
    <2>2. QED
      BY <1>1, <2>1 DEF Queue
  <1>3. CASE u.cdata = NULL
    <2>1. v = u
      BY <1>3 DEF P!Flushed
    <2>2. u.status = "ok" => P!Reached(Queue(u)) = c /\ LastKind(Queue(u)) \notin TextKinds
      BY <1>1, <1>3 DEF Open
    <2>3. QED
      BY <1>1, <1>2, <1>3, <2>1, <2>2 DEF SameElse
  <1>4. CASE u.cdata # NULL /\ (u.status # "ok" \/ failure = "flush")
    <2>1. v = [u EXCEPT !.cdata = NULL, !.status = "error"]
      BY <1>4 DEF P!Flushed
    <2>2. /\ v \in Pullers /\ SameElse(u, v) /\ v.cdata = NULL
          /\ v.status = "error" /\ v.queue = u.queue
      BY <1>1, <2>1 DEF Pullers, SameElse
    <2>3. Queue(v) = Queue(u)
      BY <2>2 DEF Queue
    <2>4. QED
      BY <1>1, <1>2, <1>4, <2>2, <2>3
  <1>5. CASE u.cdata # NULL /\ u.status = "ok" /\ failure # "flush"
    <2>1. /\ u.cdata \in P!AnyToken /\ u.cdata.kind \in TextKinds /\ u.cdata.to = c
          /\ Tile(u.cdata, P!Reached(Queue(u)), LastKind(Queue(u)))
      BY <1>1, <1>5 DEF Open
    <2>2. v = [u EXCEPT !.cdata = NULL, !.queue = Append(@, u.cdata)]
      BY <1>5 DEF P!Flushed
    <2>3. Append(u.queue, u.cdata) \in Seq(P!AnyToken)
      BY <1>2, <2>1
    <2>4. /\ v \in Pullers /\ SameElse(u, v) /\ v.cdata = NULL
          /\ v.status = "ok" /\ v.queue = Append(u.queue, u.cdata)
      BY <1>1, <1>5, <2>2, <2>3 DEF Pullers, SameElse
    <2>5. Queue(v) = Append(Queue(u), u.cdata)
      BY <1>1, <2>1, <2>4, QueueAppended
    <2>6. /\ Queue(v) \in Seq(P!AnyToken) /\ Tiles(Queue(v))
          /\ P!Reached(Queue(v)) = c /\ LastKind(Queue(v)) = u.cdata.kind
          /\ Ended(Queue(v)) =
               Ended(Queue(u)) + IF u.cdata.kind = "END_DOCUMENT" THEN 1 ELSE 0
          /\ Ended(Queue(u)) \in Nat
      BY <1>1, <1>2, <2>1, <2>5, TokenAppended
    <2>7. Ended(Queue(v)) = Ended(Queue(u))
      BY <2>1, <2>6 DEF TextKinds
    <2>8. QED
      BY <1>5, <2>4, <2>6, <2>7
  <1>6. QED
    BY <1>3, <1>4, <1>5

\* A token that is no text comes after what there is.
LEMMA EnqueuedRight ==
  ASSUME stream \in Streams, NEW u, NEW c, Queued(u, c), NEW failure,
         NEW e \in P!AnyToken, e.from = c, c > 0, c <= e.to,
         e.to <= Len(stream.bytes) + 1, e.kind \notin TextKinds,
         P!Spelling(e.kind, SubSeq(stream.bytes, e.from, e.to - 1)),
         Spot(u, e) = P!Place(e.from), NEW v, v = P!Enqueued(u, e, failure)
  PROVE  /\ Queued(v, e.to) /\ SameElse(u, v)
         /\ v.status = "ok" =>
              /\ u.status = "ok" /\ v.cdata = NULL
              /\ P!Reached(Queue(v)) = e.to
              /\ Ended(Queue(v)) =
                   Ended(Queue(u)) + IF e.kind = "END_DOCUMENT" THEN 1 ELSE 0
         /\ u.status = "ok" /\ failure = "none" => v.status = "ok"
         /\ u.status # "ok" => Queue(v) = Queue(u)
  <1>1. PICK w : w = P!Flushed(u, failure)
    OBVIOUS
  <1>2. /\ w \in Pullers /\ SameElse(u, w) /\ Tiles(Queue(w)) /\ w.cdata = NULL
        /\ Queue(w) \in Seq(P!AnyToken)
        /\ w.status = "ok" =>
             /\ u.status = "ok" /\ Ended(Queue(w)) = Ended(Queue(u))
             /\ P!Reached(Queue(w)) = c
        /\ u.status = "ok" /\ failure # "flush" => w.status = "ok"
        /\ u.status # "ok" => Queue(w) = Queue(u)
    BY <1>1, FlushedRight
  <1>3. tokens \in Seq(P!AnyToken) /\ u \in Pullers
    BY DEF Queued
  <1>4. CASE w.status # "ok"
    <2>1. v = w
      BY <1>1, <1>4 DEF P!Enqueued
    <2>2. QED
      BY <1>2, <1>3, <1>4, <2>1 DEF Queued
  <1>5. CASE w.status = "ok" /\ failure = "token"
    <2>1. v = [w EXCEPT !.status = "error"]
      BY <1>1, <1>5 DEF P!Enqueued
    <2>2. /\ v \in Pullers /\ SameElse(w, v) /\ v.status = "error"
          /\ v.queue = w.queue
      BY <1>2, <2>1 DEF Pullers, SameElse
    <2>3. Queue(v) = Queue(w)
      BY <2>2 DEF Queue
    <2>4. SameElse(u, v)
      BY <1>2, <2>2 DEF SameElse
    <2>5. u.status = "ok"
      BY <1>2, <1>5
    <2>6. QED
      BY <1>2, <1>3, <1>5, <2>2, <2>3, <2>4, <2>5 DEF Queued
  <1>6. CASE w.status = "ok" /\ failure # "token"
    <2>1. PICK t : t = P!Placed(u, e)
      OBVIOUS
    <2>2. v = [w EXCEPT !.queue = Append(@, t)]
      <3>1. v = [w EXCEPT !.queue = Append(@, P!Placed(u, e))]
        BY <1>1, <1>6 DEF P!Enqueued
      <3>2. QED
        BY <2>1, <3>1
    <2>3. /\ t \in P!AnyToken /\ t.kind = e.kind /\ t.from = e.from /\ t.to = e.to
          /\ <<t.row, t.col>> = P!Place(e.from)
      <3>1. <<t.row, t.col>> = P!Place(e.from)
        BY <2>1 DEF Spot
      <3>2. u.prev_row \in Nat \ {0} /\ u.prev_col \in Nat \ {0}
        BY <1>3 DEF Pullers
      <3>3. /\ t \in P!AnyToken /\ t.kind = e.kind /\ t.from = e.from
            /\ t.to = e.to
        BY <2>1, <3>2, PlacedToken
      <3>4. QED
        BY <3>1, <3>3
    <2>4. LastKind(Queue(w)) # t.kind \/ t.kind \notin TextKinds
      BY <2>3
    <2>5. Tile(t, P!Reached(Queue(w)), LastKind(Queue(w)))
      BY <1>2, <1>6, <2>3 DEF Tile
    <2>6. w.queue \in Seq(P!AnyToken) /\ Append(w.queue, t) \in Seq(P!AnyToken)
      <3>1. w.queue \in Seq(P!AnyToken)
        BY <1>2 DEF Pullers
      <3>2. QED
        BY <2>3, <3>1
    <2>7. /\ v \in Pullers /\ SameElse(w, v) /\ v.status = "ok"
          /\ v.queue = Append(w.queue, t) /\ v.cdata = NULL
      BY <1>2, <1>6, <2>2, <2>6 DEF Pullers, SameElse
    <2>8. Queue(v) = Append(Queue(w), t)
      BY <1>2, <1>3, <2>3, <2>7, QueueAppended
    <2>9. /\ Tiles(Queue(v))
          /\ P!Reached(Queue(v)) = t.to /\ LastKind(Queue(v)) = t.kind
          /\ Ended(Queue(v)) =
               Ended(Queue(w)) + IF t.kind = "END_DOCUMENT" THEN 1 ELSE 0
      BY <1>2, <2>3, <2>5, <2>8, TokenAppended
    <2>10. Open(Queue(v), v.cdata, e.to)
      BY <2>3, <2>7, <2>9 DEF Open
    <2>11. SameElse(u, v)
      BY <1>2, <2>7 DEF SameElse
    <2>12. Queued(v, e.to)
      BY <1>3, <2>7, <2>9, <2>10 DEF Queued
    <2>13. u.status = "ok"
      BY <1>2, <1>6
    <2>14. QED
      BY <1>2, <1>6, <2>3, <2>7, <2>9, <2>11, <2>12, <2>13
  <1>7. QED
    BY <1>4, <1>5, <1>6

\* Text joins what is pending, or comes after it when it is of the other kind.
LEMMA PendingRight ==
  ASSUME stream \in Streams, NEW u, NEW c, Queued(u, c), NEW failure,
         NEW e \in P!AnyToken, e.from = c, c > 0, c < e.to,
         e.to <= Len(stream.bytes) + 1, e.kind \in TextKinds,
         P!Spelling(e.kind, SubSeq(stream.bytes, e.from, e.to - 1)),
         Spot(u, e) = P!Place(e.from), NEW v, v = P!AddPending(u, e, failure)
  PROVE  /\ Queued(v, e.to) /\ SameElse(u, v)
         /\ v.status = "ok" => /\ u.status = "ok"
                               /\ Ended(Queue(v)) = Ended(Queue(u))
         /\ u.status = "ok" /\ failure = "none" => v.status = "ok"
         /\ u.status # "ok" => Queue(v) = Queue(u)
  <1> DEFINE flush == u.status = "ok" /\ u.cdata # NULL /\ u.cdata.kind # e.kind
  <1>1. PICK w : w = IF flush THEN P!Flushed(u, failure) ELSE u
    OBVIOUS
  <1>2. /\ u \in Pullers /\ tokens \in Seq(P!AnyToken) /\ Tiles(Queue(u))
        /\ u.status = "ok" => Open(Queue(u), u.cdata, c)
    BY DEF Queued
  <1>3. /\ w \in Pullers /\ SameElse(u, w) /\ Tiles(Queue(w))
        /\ w.status = "ok" =>
             /\ u.status = "ok" /\ Ended(Queue(w)) = Ended(Queue(u))
             /\ Open(Queue(w), w.cdata, c) \/ w.cdata = NULL
             /\ w.cdata = NULL => /\ P!Reached(Queue(w)) = c
                                  /\ LastKind(Queue(w)) # e.kind
             /\ w.cdata # NULL => w.cdata.kind = e.kind
        /\ u.status = "ok" /\ failure # "flush" => w.status = "ok"
        /\ u.status # "ok" => Queue(w) = Queue(u)
    <2>1. CASE flush
      <3>1. w = P!Flushed(u, failure)
        BY <1>1, <2>1
      <3>2. /\ w \in Pullers /\ SameElse(u, w) /\ Tiles(Queue(w))
            /\ w.cdata = NULL
            /\ w.status = "ok" =>
                 /\ u.status = "ok" /\ Ended(Queue(w)) = Ended(Queue(u))
                 /\ P!Reached(Queue(w)) = c
                 /\ LastKind(Queue(w)) \in TextKinds =>
                      LastKind(Queue(w)) = u.cdata.kind
            /\ u.status = "ok" /\ failure # "flush" => w.status = "ok"
        BY <3>1, FlushedRight
      <3>3. w.status = "ok" => LastKind(Queue(w)) # e.kind
        BY <2>1, <3>2
      <3>4. QED
        BY <2>1, <3>2, <3>3
    <2>2. CASE ~flush
      <3>1. w = u
        BY <1>1, <2>2
      <3>2. u.status = "ok" /\ u.cdata = NULL =>
              P!Reached(Queue(u)) = c /\ LastKind(Queue(u)) # e.kind
        BY <1>2 DEF Open
      <3>3. QED
        BY <1>2, <2>2, <3>1, <3>2 DEF SameElse
    <2>3. QED
      BY <2>1, <2>2
  <1> HIDE DEF flush
  <1>4. v = IF w.status # "ok" THEN w
            ELSE IF failure = "token"
                 THEN [w EXCEPT !.cdata = NULL, !.status = "error"]
            ELSE IF w.cdata = NULL THEN [w EXCEPT !.cdata = P!Placed(u, e)]
            ELSE [w EXCEPT !.cdata.to = e.to]
    BY <1>1 DEF P!AddPending, flush
  <1>5. CASE w.status # "ok"
    <2>1. v = w
      BY <1>4, <1>5
    <2>2. QED
      BY <1>2, <1>3, <1>5, <2>1 DEF Queued
  <1>6. CASE w.status = "ok" /\ failure = "token"
    <2>1. v = [w EXCEPT !.cdata = NULL, !.status = "error"]
      BY <1>4, <1>6
    <2>2. /\ v \in Pullers /\ SameElse(w, v) /\ v.status = "error"
          /\ v.queue = w.queue
      BY <1>3, <2>1 DEF Pullers, SameElse
    <2>3. Queue(v) = Queue(w) /\ u.status = "ok"
      BY <1>3, <1>6, <2>2 DEF Queue
    <2>4. SameElse(u, v)
      BY <1>3, <2>2 DEF SameElse
    <2>5. QED
      BY <1>2, <1>3, <1>6, <2>2, <2>3, <2>4 DEF Queued
  <1>7. CASE w.status = "ok" /\ failure # "token" /\ w.cdata = NULL
    <2>1. PICK t : t = P!Placed(u, e)
      OBVIOUS
    <2>2. v = [w EXCEPT !.cdata = t]
      BY <1>4, <1>7, <2>1
    <2>3. /\ t \in P!AnyToken /\ t.kind = e.kind /\ t.from = e.from /\ t.to = e.to
          /\ <<t.row, t.col>> = P!Place(e.from)
      <3>1. <<t.row, t.col>> = P!Place(e.from)
        BY <2>1 DEF Spot
      <3>2. u.prev_row \in Nat \ {0} /\ u.prev_col \in Nat \ {0}
        BY <1>2 DEF Pullers
      <3>3. /\ t \in P!AnyToken /\ t.kind = e.kind /\ t.from = e.from
            /\ t.to = e.to
        BY <2>1, <3>2, PlacedToken
      <3>4. QED
        BY <3>1, <3>3
    <2>4. /\ v \in Pullers /\ SameElse(w, v) /\ v.status = "ok"
          /\ v.queue = w.queue /\ v.cdata = t
      BY <1>3, <1>7, <2>2, <2>3 DEF Pullers, SameElse
    <2>5. Queue(v) = Queue(w)
      BY <2>4 DEF Queue
    <2>6. Tile(t, P!Reached(Queue(w)), LastKind(Queue(w)))
      <3>1. P!Reached(Queue(w)) = c /\ LastKind(Queue(w)) # e.kind
        BY <1>3, <1>7
      <3>2. c <= e.to
        BY DEF P!AnyToken
      <3>3. QED
        BY <2>3, <3>1, <3>2 DEF Tile
    <2>7. t # NULL
      BY <2>3, NullAssumption
    <2>8. Open(Queue(v), v.cdata, e.to)
      BY <2>3, <2>4, <2>5, <2>6, <2>7 DEF Open
    <2>9. SameElse(u, v)
      BY <1>3, <2>4 DEF SameElse
    <2>10. Queued(v, e.to)
      BY <1>2, <1>3, <2>4, <2>5, <2>8 DEF Queued
    <2>11. QED
      BY <1>3, <1>7, <2>4, <2>5, <2>9, <2>10
  <1>8. CASE w.status = "ok" /\ failure # "token" /\ w.cdata # NULL
    <2>1. PICK t : t = [w.cdata EXCEPT !.to = e.to]
      OBVIOUS
    <2>2. v = [w EXCEPT !.cdata = t]
      <3>1. v = [w EXCEPT !.cdata.to = e.to]
        BY <1>4, <1>8
      <3>2. QED
        BY <2>1, <3>1
    <2>3. /\ w.cdata \in P!AnyToken /\ w.cdata.kind = e.kind /\ w.cdata.to = c
          /\ Tile(w.cdata, P!Reached(Queue(w)), LastKind(Queue(w)))
      BY <1>3, <1>8 DEF Open
    <2>4. /\ t \in P!AnyToken /\ t.kind = e.kind /\ t.from = w.cdata.from
          /\ t.to = e.to /\ t.row = w.cdata.row /\ t.col = w.cdata.col
      BY <2>1, <2>3 DEF P!AnyToken
    <2>5. /\ v \in Pullers /\ SameElse(w, v) /\ v.status = "ok"
          /\ v.queue = w.queue /\ v.cdata = t
      BY <1>3, <1>8, <2>2, <2>4 DEF Pullers, SameElse
    <2>6. Queue(v) = Queue(w)
      BY <2>5 DEF Queue
    <2>7. P!Spelling(t.kind, SubSeq(stream.bytes, t.from, t.to - 1))
      <3>1. t.from \in Nat \ {0} /\ t.to \in Nat /\ c \in Nat
            /\ c <= Len(stream.bytes) + 1 /\ Len(stream.bytes) \in Nat
        <4>1. t.from \in Nat /\ t.to \in Nat /\ c \in Nat
          BY <2>3, <2>4 DEF P!AnyToken
        <4>2. Len(stream.bytes) \in Nat
          BY StreamFacts
        <4>3. t.from > 0
          BY <2>3, <2>4 DEF Tile
        <4>4. QED
          BY <2>4, <4>1, <4>2, <4>3
      <3>2. /\ t.from < c
            /\ \A j \in t.from .. c - 1 : stream.bytes[j] \in {"t", "n"}
        <4>1. P!Spelling(e.kind, SubSeq(stream.bytes, t.from, c - 1))
          BY <2>3, <2>4 DEF Tile
        <4>2. QED
          BY <3>1, <4>1, TextSpelt
      <3>3. \A j \in c .. e.to - 1 : stream.bytes[j] \in {"t", "n"}
        <4>1. c \in Nat \ {0} /\ e.to \in Nat
          BY <2>4, <3>1
        <4>2. QED
          BY <4>1, TextSpelt
      <3>4. /\ t.from < e.to
            /\ \A j \in t.from .. e.to - 1 : stream.bytes[j] \in {"t", "n"}
        <4>1. e.to \in Nat
          BY <2>4, <3>1
        <4>2. QED
          BY <3>1, <3>2, <3>3, <4>1
      <3>5. QED
        BY <2>4, <3>1, <3>4, TextSpelt
    <2>8. Tile(t, P!Reached(Queue(w)), LastKind(Queue(w)))
      <3>1. t.from <= t.to
        <4>1. w.cdata.from <= c /\ t.from \in Nat /\ t.to \in Nat /\ c \in Nat
          BY <2>3, <2>4 DEF Tile, P!AnyToken
        <4>2. QED
          BY <2>4, <4>1
      <3>2. QED
        BY <2>3, <2>4, <2>7, <3>1 DEF Tile
    <2>9. t # NULL
      BY <2>4, NullAssumption
    <2>10. Open(Queue(v), v.cdata, e.to)
      BY <2>4, <2>5, <2>6, <2>8, <2>9 DEF Open
    <2>11. SameElse(u, v)
      BY <1>3, <2>5 DEF SameElse
    <2>12. Queued(v, e.to)
      BY <1>2, <1>3, <2>5, <2>6, <2>10 DEF Queued
    <2>13. QED
      BY <1>3, <1>8, <2>5, <2>6, <2>11, <2>12
  <1>9. QED
    BY <1>5, <1>6, <1>7, <1>8


\* A tag changes the counters first.
LEMMA CountersRight ==
  ASSUME NEW u, NEW c, Queued(u, c), NEW w,
         w = P!StartElement(u) \/ w = P!EndElement(u)
  PROVE  /\ Queued(w, c) /\ Queue(w) = Queue(u) /\ w.status = u.status
         /\ w.fd = u.fd /\ w.prev_row = u.prev_row /\ w.prev_col = u.prev_col
         /\ w = P!StartElement(u) =>
              w.depth = u.depth + 1 /\ w.elements = u.elements + 1
         /\ w = P!EndElement(u) =>
              w.depth = u.depth - 1 /\ w.elements = u.elements
  <1>1. u \in Pullers
    BY DEF Queued
  <1>2. u.depth \in Int /\ u.elements \in Nat
    BY <1>1 DEF Pullers
  <1>3. CASE w = P!StartElement(u)
    <2>1. /\ w.status = u.status /\ w.queue = u.queue /\ w.cdata = u.cdata
          /\ w.fd = u.fd /\ w.prev_row = u.prev_row /\ w.prev_col = u.prev_col
          /\ w.depth = u.depth + 1 /\ w.elements = u.elements + 1
          /\ w \in Pullers
      <3>1. PICK d \in Int, n \in Nat : d = u.depth + 1 /\ n = u.elements + 1
        BY <1>2
      <3>2. w = [u EXCEPT !.depth = d, !.elements = n]
        BY <1>3, <3>1 DEF P!StartElement
      <3>3. w \in Pullers
        BY <1>1, <3>2 DEF Pullers
      <3>4. QED
        BY <1>1, <3>1, <3>2, <3>3 DEF Pullers
    <2>2. w # P!EndElement(u)
      <3>1. P!EndElement(u).elements = u.elements
        BY <1>1 DEF P!EndElement, Pullers
      <3>2. QED
        BY <1>2, <2>1, <3>1
    <2>3. QED
      BY <2>1, <2>2 DEF Queued, Queue
  <1>4. CASE w = P!EndElement(u)
    <2>1. /\ w.status = u.status /\ w.queue = u.queue /\ w.cdata = u.cdata
          /\ w.fd = u.fd /\ w.prev_row = u.prev_row /\ w.prev_col = u.prev_col
          /\ w.depth = u.depth - 1 /\ w.elements = u.elements
          /\ w \in Pullers
      <3>1. PICK d \in Int : d = u.depth - 1
        BY <1>2
      <3>2. w = [u EXCEPT !.depth = d]
        BY <1>4, <3>1 DEF P!EndElement
      <3>3. QED
        BY <1>1, <3>1, <3>2 DEF Pullers
    <2>2. w # P!StartElement(u)
      <3>1. P!StartElement(u).elements = u.elements + 1
        BY <1>1 DEF P!StartElement, Pullers
      <3>2. QED
        BY <1>2, <2>1, <3>1
    <2>3. QED
      BY <2>1, <2>2 DEF Queued, Queue
  <1>5. QED
    BY <1>3, <1>4

LEMMA HandledRight ==
  ASSUME stream \in Streams, NEW u, NEW c, Queued(u, c), NEW failure,
         NEW e, EventRight(u, e), e.from = c, NEW v, v = P!Handled(u, e, failure)
  PROVE  /\ Queued(v, e.to)
         /\ v.fd = u.fd /\ v.prev_row = u.prev_row /\ v.prev_col = u.prev_col
         /\ v.depth = u.depth + Change(e.kind)
         /\ v.elements = u.elements + IF e.kind = "START_ELEMENT" THEN 1 ELSE 0
         /\ v.status = "ok" => /\ u.status = "ok"
                               /\ Ended(Queue(v)) = Ended(Queue(u))
         /\ u.status = "ok" /\ failure = "none" => v.status = "ok"
         /\ u.status # "ok" => Queue(v) = Queue(u)
  <1>1. /\ e \in P!AnyToken /\ e.kind \in EventKinds /\ c > 0 /\ c < e.to /\ c <= e.to
        /\ e.to <= Len(stream.bytes) + 1
        /\ P!Spelling(e.kind, SubSeq(stream.bytes, e.from, e.to - 1))
        /\ Spot(u, e) = P!Place(e.from)
    <2>1. e \in Events
      BY DEF EventRight
    <2>2. e \in P!AnyToken /\ e.kind \in EventKinds
      BY <2>1 DEF Events, EventKinds, P!AnyToken
    <2>3. c \in Nat /\ e.to \in Nat
      BY <2>1 DEF Events
    <2>4. QED
      BY <2>2, <2>3 DEF EventRight, Spot
  <1>2. u \in Pullers /\ u.depth \in Int /\ u.elements \in Nat
    <2>1. u \in Pullers
      BY DEF Queued
    <2>2. QED
      BY <2>1 DEF Pullers
  <1>3. CASE e.kind \in TextKinds
    <2>1. v = P!AddPending(u, e, failure)
      BY <1>3 DEF P!Handled, TextKinds
    <2>2. /\ Queued(v, e.to) /\ SameElse(u, v)
          /\ v.status = "ok" => /\ u.status = "ok"
                                /\ Ended(Queue(v)) = Ended(Queue(u))
          /\ u.status = "ok" /\ failure = "none" => v.status = "ok"
          /\ u.status # "ok" => Queue(v) = Queue(u)
      BY <1>1, <1>3, <2>1, PendingRight
    <2>3. Change(e.kind) = 0 /\ e.kind # "START_ELEMENT"
      BY <1>3 DEF TextKinds, Change
    <2>4. QED
      BY <1>2, <2>2, <2>3 DEF SameElse
  <1>4. CASE e.kind \notin TextKinds
    <2>1. PICK w : w = CASE e.kind = "START_ELEMENT" -> P!StartElement(u)
                         [] e.kind = "END_ELEMENT" -> P!EndElement(u)
                         [] OTHER -> u
      OBVIOUS
    <2>2. v = P!Enqueued(w, e, failure)
      <3>1. CASE e.kind = "START_ELEMENT"
        BY <2>1, <3>1 DEF P!Handled
      <3>2. CASE e.kind = "END_ELEMENT"
        BY <2>1, <3>2 DEF P!Handled
      <3>3. CASE e.kind \notin {"START_ELEMENT", "END_ELEMENT"}
        BY <1>4, <2>1, <3>3 DEF P!Handled, TextKinds
      <3>4. QED
        BY <3>1, <3>2, <3>3
    <2>3. /\ Queued(w, c) /\ Queue(w) = Queue(u) /\ w.status = u.status
          /\ w.fd = u.fd /\ w.prev_row = u.prev_row /\ w.prev_col = u.prev_col
          /\ w.depth = u.depth + Change(e.kind)
          /\ w.elements = u.elements + IF e.kind = "START_ELEMENT" THEN 1 ELSE 0
      <3>1. CASE e.kind = "START_ELEMENT"
        <4>1. w = P!StartElement(u) /\ Change(e.kind) = 1
          BY <2>1, <3>1 DEF Change
        <4>2. QED
          BY <3>1, <4>1, CountersRight
      <3>2. CASE e.kind = "END_ELEMENT"
        <4>1. w = P!EndElement(u) /\ Change(e.kind) = -1
          BY <2>1, <3>2 DEF Change
        <4>2. /\ Queued(w, c) /\ Queue(w) = Queue(u) /\ w.status = u.status
              /\ w.fd = u.fd /\ w.prev_row = u.prev_row /\ w.prev_col = u.prev_col
              /\ w.depth = u.depth - 1 /\ w.elements = u.elements
          BY <4>1, CountersRight
        <4>3. QED
          BY <1>2, <3>2, <4>1, <4>2
      <3>3. CASE e.kind \notin {"START_ELEMENT", "END_ELEMENT"}
        <4>1. w = u /\ Change(e.kind) = 0
          BY <2>1, <3>3 DEF Change
        <4>2. QED
          BY <1>2, <3>3, <4>1
      <3>4. QED
        BY <3>1, <3>2, <3>3
    <2>4. Spot(w, e) = P!Place(e.from)
      <3>1. {"row", "col"} \subseteq DOMAIN e
        BY <1>1 DEF P!AnyToken
      <3>2. Spot(w, e) = Spot(u, e)
        BY <2>3, <3>1, SpotOf
      <3>3. QED
        BY <1>1, <3>2
    <2>5. /\ Queued(v, e.to) /\ SameElse(w, v)
          /\ v.status = "ok" =>
               /\ w.status = "ok"
               /\ Ended(Queue(v)) =
                    Ended(Queue(w)) + IF e.kind = "END_DOCUMENT" THEN 1 ELSE 0
          /\ w.status = "ok" /\ failure = "none" => v.status = "ok"
          /\ w.status # "ok" => Queue(v) = Queue(w)
      BY <1>1, <1>4, <2>2, <2>3, <2>4, EnqueuedRight
    <2>6. e.kind # "END_DOCUMENT" /\ Ended(Queue(w)) \in Nat
      <3>1. Queue(w) \in Seq(P!AnyToken)
        <4>1. w.queue \in Seq(P!AnyToken) /\ tokens \in Seq(P!AnyToken)
          BY <2>3 DEF Queued, Pullers
        <4>2. QED
          BY <4>1 DEF Queue
      <3>2. Ended(Queue(w)) \in Nat
        BY <1>1, <3>1, TokenAppended
      <3>3. QED
        BY <1>1, <3>2 DEF EventKinds
    <2>7. v.status = "ok" => Ended(Queue(v)) = Ended(Queue(u))
      BY <2>3, <2>5, <2>6
    <2>8. QED
      BY <2>3, <2>5, <2>7 DEF SameElse
  <1>5. QED
    BY <1>3, <1>4

LEMMA AllHandledRight ==
  ASSUME stream \in Streams, NEW u, NEW c, Queued(u, c),
         NEW events \in Seq(Events), EventsRight(u, events, c),
         u.depth = P!Depth(stream.bytes, c - 1), NEW k, NEW failure,
         NEW v, v = P!AllHandled(u, events, k, failure),
         NEW end, end = EndOf(events, c)
  PROVE  /\ Queued(v, end)
         /\ v.fd = u.fd /\ v.prev_row = u.prev_row /\ v.prev_col = u.prev_col
         /\ v.depth = P!Depth(stream.bytes, end - 1)
         /\ v.elements > 0 <=> (u.elements > 0 \/ HasStart(events))
         /\ v.status = "ok" => /\ u.status = "ok"
                               /\ Ended(Queue(v)) = Ended(Queue(u))
         /\ u.status = "ok" /\ k = 0 => v.status = "ok"
         /\ u.status # "ok" => Queue(v) = Queue(u)
  <1> DEFINE L == Len(events)
             At(i) == IF i = 0 THEN c ELSE events[i].to
             UpTo(i, w) == P!Handled(w, events[i], IF i = k THEN failure ELSE "none")
             F == [i \in 1 .. L |->
                     [w \in Pullers |-> IF UpTo(i, w) \in Pullers THEN UpTo(i, w) ELSE w]]
             Is(f) == f = [i \in 0 .. L |-> IF i = 0 THEN u ELSE UpTo(i, f[i - 1])]
             Right(i, w) ==
               /\ Queued(w, At(i))
               /\ w.fd = u.fd /\ w.prev_row = u.prev_row /\ w.prev_col = u.prev_col
               /\ w.depth = P!Depth(stream.bytes, At(i) - 1)
               /\ w.elements > 0 <=>
                    (u.elements > 0 \/ \E j \in 1 .. i : events[j].kind = "START_ELEMENT")
               /\ w.status = "ok" => /\ u.status = "ok"
                                     /\ Ended(Queue(w)) = Ended(Queue(u))
               /\ u.status = "ok" /\ k = 0 => w.status = "ok"
               /\ u.status # "ok" => Queue(w) = Queue(u)
  <1>1. L \in Nat /\ u \in Pullers
    BY DEF Queued
  <1>2. F \in [1 .. L -> [Pullers -> Pullers]]
    <2> HIDE DEF UpTo
    <2>1. QED
      OBVIOUS
  <1>3. PICK g \in [0 .. L -> Pullers] :
          /\ g[0] = u
          /\ \A i \in 1 .. L : g[i] = F[i][g[i - 1]]
    <2> HIDE DEF F, L
    <2>1. Runs(L, Pullers, u, F) # {}
      BY <1>1, <1>2, RecursionExists
    <2>2. QED
      BY <2>1 DEF Runs
  <1>4. ASSUME NEW i \in 1 .. L
        PROVE  /\ g[i - 1] \in Pullers
               /\ UpTo(i, g[i - 1]) \in Pullers => g[i] = UpTo(i, g[i - 1])
    <2> HIDE DEF L, UpTo
    <2>1. i - 1 \in 0 .. L
      BY <1>1
    <2>2. g[i - 1] \in Pullers /\ g[i] = F[i][g[i - 1]]
      BY <1>3, <2>1
    <2>3. QED
      BY <2>2
  <1> HIDE DEF F
  <1>5. ASSUME NEW i \in 1 .. L, Right(i - 1, g[i - 1])
        PROVE  g[i] = UpTo(i, g[i - 1]) /\ Right(i, g[i])
    <2>1. PICK w : w = g[i - 1]
      OBVIOUS
    <2>2. PICK e : e = events[i]
      OBVIOUS
    <2>3. PICK x : x = UpTo(i, w)
      OBVIOUS
    <2>4. EventRight(u, e) /\ e.from = At(i - 1)
      <3>1. i \in Nat /\ i # 0 /\ (i = 1 <=> i - 1 = 0)
        BY <1>1
      <3>2. QED
        BY <2>2, <3>1 DEF EventsRight
    <2>5. EventRight(w, e)
      <3>1. {"row", "col"} \subseteq DOMAIN e
        BY <2>4 DEF EventRight, Events
      <3>2. w.prev_row = u.prev_row /\ w.prev_col = u.prev_col
        BY <1>5, <2>1
      <3>3. Spot(w, e) = Spot(u, e)
        BY <3>1, <3>2, SpotOf
      <3>4. QED
        BY <2>4, <3>3 DEF EventRight, Spot
    <2>6. Queued(w, At(i - 1))
      BY <1>5, <2>1
    <2>7. x = P!Handled(w, e, IF i = k THEN failure ELSE "none")
      BY <2>2, <2>3
    <2> HIDE DEF At
    <2>8. /\ Queued(x, e.to)
          /\ x.fd = w.fd /\ x.prev_row = w.prev_row /\ x.prev_col = w.prev_col
          /\ x.depth = w.depth + Change(e.kind)
          /\ x.elements = w.elements + IF e.kind = "START_ELEMENT" THEN 1 ELSE 0
          /\ x.status = "ok" => /\ w.status = "ok"
                                /\ Ended(Queue(x)) = Ended(Queue(w))
          /\ w.status = "ok" /\ (IF i = k THEN failure ELSE "none") = "none" =>
               x.status = "ok"
          /\ w.status # "ok" => Queue(x) = Queue(w)
      BY <2>4, <2>5, <2>6, <2>7, HandledRight
    <2>9. g[i] = x
      <3>1. x \in Pullers
        BY <2>8 DEF Queued
      <3> HIDE DEF UpTo
      <3>2. QED
        BY <1>4, <2>1, <2>3, <3>1
    <2>10. At(i) = e.to
      BY <1>1, <2>2 DEF At
    <2>11. x.depth = P!Depth(stream.bytes, At(i) - 1)
      <3>1. w.depth = P!Depth(stream.bytes, At(i - 1) - 1)
        BY <1>5, <2>1
      <3>2. P!Depth(stream.bytes, e.to - 1) =
              P!Depth(stream.bytes, At(i - 1) - 1) + Change(e.kind)
        BY <2>4 DEF EventRight
      <3>3. QED
        BY <2>8, <2>10, <3>1, <3>2
    <2>12. x.elements > 0 <=>
             (u.elements > 0 \/ \E j \in 1 .. i : events[j].kind = "START_ELEMENT")
      <3>1. w.elements \in Nat
        <4>1. w \in Pullers
          BY <2>6 DEF Queued
        <4>2. QED
          BY <4>1 DEF Pullers
      <3>2. w.elements > 0 <=>
              (u.elements > 0 \/ \E j \in 1 .. i - 1 : events[j].kind = "START_ELEMENT")
        BY <1>5, <2>1
      <3>3. x.elements > 0 <=> (w.elements > 0 \/ events[i].kind = "START_ELEMENT")
        BY <2>2, <2>8, <3>1
      <3>4. 1 .. i = (1 .. i - 1) \cup {i}
        BY <1>1
      <3>5. QED
        BY <3>2, <3>3, <3>4
    <2>13. u.status = "ok" /\ k = 0 => x.status = "ok"
      <3>1. i # 0
        BY <1>1
      <3>2. k = 0 => (IF i = k THEN failure ELSE "none") = "none"
        BY <3>1
      <3>3. u.status = "ok" /\ k = 0 => w.status = "ok"
        BY <1>5, <2>1
      <3>4. QED
        BY <2>8, <3>2, <3>3
    <2>14. /\ w.fd = u.fd /\ w.prev_row = u.prev_row /\ w.prev_col = u.prev_col
           /\ w.status = "ok" => /\ u.status = "ok"
                                 /\ Ended(Queue(w)) = Ended(Queue(u))
           /\ u.status # "ok" => Queue(w) = Queue(u)
      BY <1>5, <2>1
    <2>15. Right(i, x)
      BY <2>8, <2>10, <2>11, <2>12, <2>13, <2>14
    <2>16. QED
      BY <2>1, <2>3, <2>9, <2>15
  <1>6. Right(0, g[0])
    BY <1>3
  <1> DEFINE T == {i \in Nat : i <= L => Right(i, g[i])}
  <1>7. T = Nat
    <2> HIDE DEF Right, L
    <2>1. 0 \in T
      BY <1>6
    <2>2. ASSUME NEW i \in T PROVE i + 1 \in T
      <3>1. CASE i + 1 <= L
        <4>1. i + 1 \in 1 .. L /\ (i + 1) - 1 = i /\ i \in Nat /\ i <= L
          BY <1>1, <3>1
        <4>2. Right(i, g[i])
          BY <4>1
        <4>3. QED
          BY <1>5, <4>1, <4>2
      <3>2. CASE ~(i + 1 <= L)
        BY <3>2
      <3>3. QED
        BY <3>1, <3>2
    <2>3. QED
      <3> HIDE DEF T
      <3>1. T \in SUBSET Nat
        BY DEF T
      <3>2. QED
        BY <2>1, <2>2, <3>1, NatByStep
  <1>8. ASSUME NEW i \in 0 .. L PROVE Right(i, g[i])
    <2> HIDE DEF Right
    <2>1. i \in T
      BY <1>1, <1>7
    <2>2. QED
      BY <2>1
  <1>9. ASSUME NEW i \in 1 .. L PROVE g[i] = UpTo(i, g[i - 1])
    <2> HIDE DEF Right, UpTo, L
    <2>1. i - 1 \in 0 .. L
      BY <1>1
    <2>2. QED
      BY <1>5, <1>8, <2>1
  <1> HIDE DEF UpTo, L, Right, At, T
  <1>10. Is(g)
    BY <1>1, <1>3, <1>9
  <1>11. PICK f : Is(f) /\ v = f[L]
    <2>1. Is(CHOOSE f : Is(f))
      <3> HIDE DEF Is
      <3>1. QED
        BY <1>10
    <2>2. QED
      BY <2>1 DEF P!AllHandled, L, UpTo
  <1>12. g[0] = f[0]
    BY <1>1, <1>3, <1>11
  <1>13. ASSUME NEW i \in 0 + 1 .. L, g[i - 1] = f[i - 1]
         PROVE  g[i] = f[i]
    <2>1. i \in 1 .. L /\ i \in 0 .. L /\ i # 0
      BY <1>1
    <2>2. QED
      BY <1>9, <1>11, <1>13, <2>1
  <1>14. g[L] = f[L]
    <2>1. SameOver(0, L, g, f)
      BY <1>1, <1>12, <1>13, SameByStep
    <2>2. QED
      BY <1>1, <2>1 DEF SameOver
  <1>15. Right(L, v)
    BY <1>1, <1>8, <1>11, <1>14
  <1>16. At(L) = end
    <2>1. L = 0 <=> events = <<>>
      BY EmptySeq DEF L
    <2>2. QED
      BY <2>1 DEF At, EndOf, L
  <1>17. QED
    BY <1>15, <1>16 DEF Right, HasStart, L


LEMMA Unmoved ==
  ASSUME stream' = stream, multi' = multi
  PROVE  /\ \A u, p, b, start, ends :
              ParserRight(u, p, b, start, ends)' <=> ParserRight(u, p, b, start, ends)
         /\ \A p : Stuck(p)' <=> Stuck(p)
         /\ \A q : Tiles(q)' <=> Tiles(q)
         /\ \A q, cdata, c : Open(q, cdata, c)' <=> Open(q, cdata, c)
         /\ Promised' <=> Promised
         /\ tokens' = tokens =>
              /\ \A u : Queue(u)' = Queue(u)
              /\ \A u, c : Queued(u, c)' <=> Queued(u, c)
  <1>1. \A c : P!Place(c)' = P!Place(c)
    BY DEF P!Place
  <1>2. Promised' <=> Promised
    BY DEF Promised
  <1>3. ASSUME NEW u, NEW p, NEW b, NEW start, NEW ends
        PROVE ParserRight(u, p, b, start, ends)' <=> ParserRight(u, p, b, start, ends)
    BY <1>1, <1>2 DEF ParserRight, Ahead, Next, Spot
  <1>4. ASSUME NEW p PROVE Stuck(p)' <=> Stuck(p)
    BY DEF Stuck, P!Size, P!Byte
  <1>5. ASSUME NEW t, NEW from, NEW before
        PROVE  Tile(t, from, before)' <=> Tile(t, from, before)
    BY <1>1 DEF Tile
  <1>6. ASSUME NEW q PROVE Tiles(q)' <=> Tiles(q)
    BY <1>5 DEF Tiles
  <1>7. ASSUME NEW q, NEW cdata, NEW c PROVE Open(q, cdata, c)' <=> Open(q, cdata, c)
    BY <1>5 DEF Open
  <1>8. ASSUME tokens' = tokens, NEW u PROVE Queue(u)' = Queue(u)
    BY <1>8 DEF Queue
  <1>9. ASSUME tokens' = tokens, NEW u, NEW c PROVE Queued(u, c)' <=> Queued(u, c)
    BY <1>6, <1>7, <1>8, <1>9 DEF Queued
  <1>10. QED
    BY <1>2, <1>3, <1>4, <1>6, <1>7, <1>8, <1>9

-----------------------------------------------------------------------------
(* The puller: the buffer and the invariant.                               *)

Inputs ==
  [buf : Seq(Nat), doc_offset : Nat, saved_start : Nat, saved_bytes : Nat,
   new_start : Nat, new_bytes : Nat]

\* The bytes in the buffer, the end of those expat has, and where the document
\* begins; a is the next byte of the file.
Held(in) == in.saved_bytes + in.new_bytes

Base(in, a) == a - in.new_bytes

StartOf(in, a) == (a - Held(in)) - in.doc_offset

\* The buffer holds the last bytes of the file: those that expat has kept, when
\* there may be another document, and the new ones.
BufferRight(in, p, a) ==
  /\ in \in Inputs
  /\ in.new_start = in.saved_start + in.saved_bytes
  /\ in.saved_start + Held(in) <= Len(in.buf) /\ ReadSize <= Len(in.buf)
  /\ \A j \in 1 .. Held(in) : in.buf[in.saved_start + j] = (a - Held(in)) + (j - 1)
  /\ StartOf(in, a) \in Nat \ {0}
  /\ multi => in.saved_bytes = Len(p.rest)
  /\ ~multi => in.saved_bytes = 0 /\ StartOf(in, a) = 1

Roomy(in) == in.new_bytes = 0 /\ in.new_start + ReadSize <= Len(in.buf)

\* The parser, the puller and the buffer agree; what has been parsed is in the
\* tokens, and the documents that have ended too.
WorkRight(in, u, p, a) ==
  /\ BufferRight(in, p, a)
  /\ ParserRight(u, p, Base(in, a), StartOf(in, a),
                 RootsBefore(stream.bytes, StartOf(in, a)))
  /\ p.status = "ok"
  /\ u.depth = p.depth /\ (u.elements > 0 <=> p.root)
  /\ Queued(u, Next(p, Base(in, a)))
  /\ u.status = "ok" /\ multi =>
       Ended(Queue(u)) = RootsBefore(stream.bytes, StartOf(in, a))

Working == pc = "parse" \/ (puller.status = "ok" /\ puller.fd = "open")

Delivered(q) ==
  /\ P!Reached(q) = Len(stream.bytes) + 1
  /\ multi => Ended(q) = stream.docs

PullerInv ==
  /\ stream \in Streams /\ multi \in BOOLEAN /\ at \in 1 .. Len(stream.bytes) + 1
  /\ puller \in Pullers /\ tokens \in Seq(P!AnyToken)
  /\ failed \in BOOLEAN /\ pc \in {"next", "parse"}
  /\ Tiles(Queue(puller))
  /\ Working => WorkRight(input, puller, expat, at)
  /\ pc = "next" /\ Working => Roomy(input) /\ Stuck(expat)
  /\ pc = "parse" => puller.fd = "open"
  /\ Promised /\ puller.status # "ok" => failed
  /\ Promised /\ ~failed /\ puller.fd = "ended" => Delivered(Queue(puller))

LEMMA BegunFacts ==
  ASSUME NEW bytes, Len(bytes) \in Nat
  PROVE  /\ \A c : RootsBefore(bytes, c) \in Nat
         /\ RootsBefore(bytes, 1) = 0
         /\ RootsBefore(bytes, Len(bytes) + 1) = Cardinality(P!Roots(bytes))
  <1> DEFINE Of(k) == {i \in P!Roots(bytes) : i < k}
  <1>1. P!Roots(bytes) \subseteq 1 .. Len(bytes)
    BY DEF P!Roots
  <1>2. IsFiniteSet(P!Roots(bytes))
    <2>1. IsFiniteSet(1 .. Len(bytes))
      BY FS_Interval
    <2>2. QED
      BY <1>1, <2>1, FS_Subset
  <1>3. \A k : Of(k) \in SUBSET P!Roots(bytes)
    OBVIOUS
  <1>4. Of(1) = {} /\ Of(Len(bytes) + 1) = P!Roots(bytes)
    BY <1>1
  <1>5. \A k : RootsBefore(bytes, k) = Cardinality(Of(k))
    BY DEF RootsBefore
  <1> HIDE DEF Of
  <1>6. \A k : Cardinality(Of(k)) \in Nat
    BY <1>2, <1>3, FS_Subset, FS_CardinalityType
  <1>7. QED
    BY <1>4, <1>5, <1>6, FS_EmptySet

LEMMA MinTwo ==
  ASSUME NEW a \in Int, NEW b \in Int
  PROVE  /\ P!Min({a, b}) \in {a, b}
         /\ P!Min({a, b}) <= a /\ P!Min({a, b}) <= b
  <1>1. CASE a <= b
    <2>1. a \in {a, b} /\ \A y \in {a, b} : a <= y
      BY <1>1
    <2>2. QED
      BY <2>1 DEF P!Min
  <1>2. CASE ~(a <= b)
    <2>1. b \in {a, b} /\ \A y \in {a, b} : b <= y
      BY <1>2
    <2>2. QED
      BY <2>1 DEF P!Min
  <1>3. QED
    BY <1>1, <1>2

LEMMA PullerInitInv == P!PullerInit => PullerInv
  <1>1. SUFFICES ASSUME P!PullerInit PROVE PullerInv
    OBVIOUS
  <1> DEFINE B == stream.bytes
  <1>2. /\ stream \in Streams /\ multi \in BOOLEAN /\ at = 1
        /\ input = [buf |-> [i \in 1 .. ReadSize |-> 0], doc_offset |-> 0,
                    saved_start |-> 0, saved_bytes |-> 0, new_start |-> 0,
                    new_bytes |-> 0]
        /\ puller = [fd |-> "open", status |-> "ok", queue |-> <<>>,
                     cdata |-> NULL, depth |-> 0, elements |-> 0,
                     prev_row |-> 1, prev_col |-> 1]
        /\ expat = P!NewParser(TRUE)
        /\ pc = "next" /\ tokens = <<>> /\ failed = FALSE
    BY <1>1 DEF P!PullerInit
  <1>3. Len(B) \in Nat
    BY <1>2, StreamFacts
  <1>4. /\ <<>> \in Seq(P!AnyToken) /\ <<>> \in Seq(Nat) /\ <<>> \in Seq(Events)
        /\ Len(<<>>) = 0
    OBVIOUS
  <1>5. puller \in Pullers
    BY <1>2, <1>4 DEF Pullers
  <1>a. /\ puller.prev_row = 1 /\ puller.prev_col = 1 /\ puller.depth = 0
        /\ puller.elements = 0 /\ puller.status = "ok" /\ puller.queue = <<>>
        /\ puller.cdata = NULL /\ puller.fd = "open"
    BY <1>2
  <1>b. /\ input.saved_start = 0 /\ input.saved_bytes = 0 /\ input.new_start = 0
        /\ input.new_bytes = 0 /\ input.doc_offset = 0
    BY <1>2
  <1>6. Queue(puller) = <<>>
    BY <1>2 DEF Queue
  <1>7. /\ [i \in 1 .. ReadSize |-> 0] \in Seq(Nat)
        /\ Len([i \in 1 .. ReadSize |-> 0]) = ReadSize
    BY BlocksAssumption
  <1>8. input \in Inputs /\ Len(input.buf) = ReadSize
    BY <1>2, <1>7 DEF Inputs
  <1>9. /\ expat \in ExpatParsers /\ expat.rest = <<>> /\ expat.offset = 0
        /\ expat.row = 1 /\ expat.col = 0 /\ expat.depth = 0 /\ ~expat.root
        /\ expat.handler = TRUE /\ expat.status = "ok"
    BY <1>2, <1>4 DEF P!NewParser, ExpatParsers
  <1>10. Held(input) = 0 /\ Base(input, at) = 1 /\ StartOf(input, at) = 1
    BY <1>2 DEF Held, Base, StartOf
  <1>11. Next(expat, 1) = 1 /\ Ahead(expat, 1)
    BY <1>4, <1>9 DEF Next, Ahead
  <1>12. Spot(puller, expat) = P!Place(1)
    <2>1. {"row", "col"} \subseteq DOMAIN expat
      BY <1>9 DEF ExpatParsers
    <2>2. Spot(puller, expat) = <<1, 1>>
      BY <1>9, <1>a, <2>1, SpotOf
    <2>3. QED
      BY <2>2, PlaceNext
  <1>13. RootsBefore(B, 1) = 0 /\ P!Depth(B, 1 - 1) = 0
    <2>1. P!Depth(B, 0) = 0
      BY DepthNext
    <2>2. QED
      BY <1>3, <2>1, BegunFacts
  <1>14. ParserRight(puller, expat, 1, 1, 0)
    BY <1>9, <1>11, <1>12, <1>13 DEF ParserRight
  <1>15. BufferRight(input, expat, at)
    <2>1. Len(expat.rest) = 0 /\ 1 .. Held(input) = {}
      BY <1>4, <1>9, <1>10
    <2>2. QED
      BY <1>8, <1>10, <1>b, <2>1, BlocksAssumption DEF BufferRight
  <1>16. Queued(puller, 1) /\ Tiles(Queue(puller)) /\ Ended(<<>>) = 0
    <2>1. Tiles(<<>>)
      BY <1>4 DEF Tiles
    <2>2. Open(<<>>, NULL, 1)
      BY DEF Open, P!Reached, LastKind, TextKinds
    <2>3. {i \in 1 .. Len(<<>>) : <<>>[i].kind = "END_DOCUMENT"} = {}
      BY <1>4
    <2>4. Ended(<<>>) = 0
      BY <2>3, FS_EmptySet DEF Ended
    <2>5. QED
      BY <1>2, <1>4, <1>5, <1>6, <2>1, <2>2, <2>4 DEF Queued
  <1>17. WorkRight(input, puller, expat, at)
    <2>1. puller.depth = expat.depth /\ (puller.elements > 0 <=> expat.root)
      BY <1>9, <1>a
    <2>2. QED
      BY <1>6, <1>9, <1>10, <1>11, <1>13, <1>14, <1>15, <1>16, <2>1 DEF WorkRight
  <1>18. Roomy(input) /\ Stuck(expat)
    BY <1>8, <1>9, <1>b, BlocksAssumption DEF Roomy, Stuck
  <1>19. at \in 1 .. Len(B) + 1
    BY <1>2, <1>3
  <1>20. QED
    BY <1>2, <1>4, <1>5, <1>16, <1>17, <1>18, <1>19 DEF PullerInv


LEMMA UnmovedWork ==
  ASSUME stream' = stream, multi' = multi
  PROVE  /\ \A in, p, a : BufferRight(in, p, a)' <=> BufferRight(in, p, a)
         /\ \A q : Delivered(q)' <=> Delivered(q)
         /\ tokens' = tokens =>
              \A in, u, p, a : WorkRight(in, u, p, a)' <=> WorkRight(in, u, p, a)
  <1>1. ASSUME NEW in, NEW p, NEW a
        PROVE  BufferRight(in, p, a)' <=> BufferRight(in, p, a)
    BY DEF BufferRight
  <1>2. ASSUME NEW q PROVE Delivered(q)' <=> Delivered(q)
    BY DEF Delivered
  <1>3. ASSUME tokens' = tokens, NEW in, NEW u, NEW p, NEW a
        PROVE  WorkRight(in, u, p, a)' <=> WorkRight(in, u, p, a)
    BY <1>1, <1>3, Unmoved DEF WorkRight
  <1>4. QED
    BY <1>1, <1>2, <1>3

LEMMA HeadMoved ==
  ASSUME NEW S, NEW t \in Seq(S), NEW s \in Seq(S), s # <<>>
  PROVE  Append(t, Head(s)) \o Tail(s) = t \o s
  <1>1. Len(s) \in Nat /\ Len(s) > 0 /\ Len(t) \in Nat
    BY EmptySeq
  <1>2. PICK x \in S : x = Head(s) /\ x = s[1]
    BY <1>1
  <1>3. Tail(s) \in Seq(S) /\ Append(t, x) \in Seq(S)
    BY <1>1
  <1>4. t \o s \in Seq(S) /\ Append(t, x) \o Tail(s) \in Seq(S)
    BY <1>3
  <1>5. PICK a \in Seq(S) : a = Append(t, x) \o Tail(s)
    BY <1>4
  <1>6. PICK b \in Seq(S) : b = t \o s
    BY <1>4
  <1>7. Len(a) = Len(b)
    BY <1>1, <1>2, <1>3, <1>5, <1>6
  <1>8. ASSUME NEW i \in 1 .. Len(a) PROVE a[i] = b[i]
    BY <1>1, <1>2, <1>3, <1>5, <1>6
  <1>9. a = b
    BY <1>7, <1>8, SeqEqual
  <1>10. QED
    BY <1>2, <1>5, <1>6, <1>9

LEMMA DeliverInv == PullerInv /\ P!Deliver => PullerInv'
  <1>1. SUFFICES ASSUME PullerInv, P!Deliver PROVE PullerInv'
    OBVIOUS
  <1>2. /\ pc = "next" /\ puller.queue # <<>>
        /\ tokens' = Append(tokens, Head(puller.queue))
        /\ puller' = [puller EXCEPT !.queue = Tail(@)]
        /\ UNCHANGED <<stream, multi, at, input, expat, pc, failed>>
    BY <1>1 DEF P!Deliver
  <1>3. puller \in Pullers /\ tokens \in Seq(P!AnyToken)
    BY <1>1 DEF PullerInv
  <1>4. puller.queue \in Seq(P!AnyToken)
    BY <1>3 DEF Pullers
  <1>5. /\ Tail(puller.queue) \in Seq(P!AnyToken) /\ Head(puller.queue) \in P!AnyToken
        /\ Append(tokens, Head(puller.queue)) \in Seq(P!AnyToken)
    BY <1>2, <1>3, <1>4
  <1>6. /\ puller' \in Pullers /\ tokens' \in Seq(P!AnyToken)
        /\ puller'.status = puller.status /\ puller'.fd = puller.fd
        /\ puller'.cdata = puller.cdata /\ puller'.depth = puller.depth
        /\ puller'.elements = puller.elements
        /\ puller'.prev_row = puller.prev_row /\ puller'.prev_col = puller.prev_col
        /\ puller'.queue = Tail(puller.queue)
    BY <1>2, <1>3, <1>5 DEF Pullers
  <1>7. Queue(puller)' = Queue(puller)
    <2>1. PICK s \in Seq(P!AnyToken) : s = puller.queue /\ s # <<>>
      BY <1>2, <1>4
    <2>2. PICK t \in Seq(P!AnyToken) : t = tokens
      BY <1>3
    <2>3. Append(t, Head(s)) \o Tail(s) = t \o s
      BY <2>1, HeadMoved
    <2>7. QED
      BY <1>2, <1>6, <2>1, <2>2, <2>3 DEF Queue
  <1>8. Tiles(Queue(puller))'
    BY <1>1, <1>2, <1>7, Unmoved DEF PullerInv
  <1>9. ASSUME Working'
        PROVE  WorkRight(input, puller, expat, at)' /\ Roomy(input)' /\ Stuck(expat)'
    <2>1. Working
      BY <1>2, <1>6, <1>9 DEF Working
    <2>2. WorkRight(input, puller, expat, at) /\ Roomy(input) /\ Stuck(expat)
      BY <1>1, <1>2, <2>1 DEF PullerInv
    <2>3. /\ BufferRight(input, expat, at)'
          /\ expat'.status = "ok" /\ puller'.depth = expat'.depth
          /\ puller'.elements > 0 <=> expat'.root
      BY <1>2, <1>6, <2>2, UnmovedWork DEF WorkRight
    <2>4. ParserRight(puller, expat, Base(input, at), StartOf(input, at),
                      RootsBefore(stream.bytes, StartOf(input, at)))'
      <3>1. ParserRight(puller, expat, Base(input, at), StartOf(input, at),
                        RootsBefore(stream.bytes, StartOf(input, at)))
        BY <2>2 DEF WorkRight
      <3>2. expat \in ExpatParsers
        BY <3>1 DEF ParserRight
      <3>3. ParserRight(puller', expat, Base(input, at), StartOf(input, at),
                        RootsBefore(stream.bytes, StartOf(input, at)))
        BY <1>6, <3>1, <3>2, ParserSame
      <3>4. QED
        BY <1>2, <3>3, Unmoved
    <2>5. Queued(puller, Next(expat, Base(input, at)))'
      <3>1. puller.status = "ok" =>
              Open(Queue(puller), puller.cdata, Next(expat, Base(input, at)))
        BY <2>2 DEF WorkRight, Queued
      <3>2. puller'.status = "ok" =>
              Open(Queue(puller), puller.cdata, Next(expat, Base(input, at)))'
        BY <1>2, <1>6, <1>7, <3>1, Unmoved
      <3>3. QED
        BY <1>6, <1>8, <3>2 DEF Queued
    <2>6. puller'.status = "ok" /\ multi' =>
            Ended(Queue(puller))' = RootsBefore(stream'.bytes, StartOf(input, at)')
      BY <1>2, <1>6, <1>7, <2>2 DEF WorkRight
    <2>7. Roomy(input)' /\ Stuck(expat)'
      BY <1>2, <2>2, Unmoved DEF Roomy
    <2>8. QED
      BY <2>3, <2>4, <2>5, <2>6, <2>7 DEF WorkRight
  <1>10. /\ Promised' /\ puller'.status # "ok" => failed'
         /\ Promised' /\ ~failed' /\ puller'.fd = "ended" => Delivered(Queue(puller))'
    BY <1>1, <1>2, <1>6, <1>7, Unmoved, UnmovedWork DEF PullerInv
  <1>11. /\ stream' \in Streams /\ multi' \in BOOLEAN
         /\ at' \in 1 .. Len(stream'.bytes) + 1
         /\ failed' \in BOOLEAN /\ pc' = "next"
    BY <1>1, <1>2 DEF PullerInv
  <1>12. QED
    BY <1>6, <1>8, <1>9, <1>10, <1>11 DEF PullerInv

LEMMA ReadErrorInv == PullerInv /\ P!ReadError => PullerInv'
  <1>1. SUFFICES ASSUME PullerInv, P!ReadError PROVE PullerInv'
    OBVIOUS
  <1>2. /\ pc = "next"
        /\ puller' = [puller EXCEPT !.fd = "ended", !.status = "error"]
        /\ failed' = TRUE
        /\ UNCHANGED <<stream, multi, at, input, expat, pc, tokens>>
    BY <1>1 DEF P!ReadError, P!Wanting
  <1>3. puller \in Pullers
    BY <1>1 DEF PullerInv
  <1>4. /\ puller' \in Pullers /\ puller'.status = "error"
        /\ puller'.queue = puller.queue
    BY <1>2, <1>3 DEF Pullers
  <1>5. Queue(puller)' = Queue(puller)
    BY <1>2, <1>4 DEF Queue
  <1>6. Tiles(Queue(puller))'
    BY <1>1, <1>2, <1>5, Unmoved DEF PullerInv
  <1>7. ~Working'
    BY <1>2, <1>4 DEF Working
  <1>8. /\ stream' \in Streams /\ multi' \in BOOLEAN
        /\ at' \in 1 .. Len(stream'.bytes) + 1 /\ tokens' \in Seq(P!AnyToken)
    BY <1>1, <1>2 DEF PullerInv
  <1>9. QED
    BY <1>2, <1>4, <1>6, <1>7, <1>8 DEF PullerInv

\* The buffer with a block of n bytes, of which the first is a.
Filled(in, a, n) ==
  [in EXCEPT !.buf = [i \in 1 .. Len(@) |->
                        IF i - in.new_start \in 1 .. n
                        THEN a + (i - in.new_start) - 1 ELSE @[i]],
             !.new_bytes = n]

LEMMA BlockRead ==
  ASSUME NEW p, NEW a \in Nat, NEW in, BufferRight(in, p, a), Roomy(in),
         NEW n \in Nat, in.new_start + n <= Len(in.buf), NEW new,
         new = Filled(in, a, n)
  PROVE  /\ BufferRight(new, p, a + n)
         /\ Base(new, a + n) = Base(in, a) /\ StartOf(new, a + n) = StartOf(in, a)
  <1> DEFINE buf == [i \in 1 .. Len(in.buf) |->
                       IF i - in.new_start \in 1 .. n
                       THEN a + (i - in.new_start) - 1 ELSE in.buf[i]]
             saved == in.saved_bytes
  <1>1. /\ in \in Inputs /\ in.new_start = in.saved_start + saved
        /\ in.new_bytes = 0 /\ ReadSize <= Len(in.buf)
        /\ StartOf(in, a) \in Nat \ {0}
        /\ multi => saved = Len(p.rest)
        /\ ~multi => saved = 0 /\ StartOf(in, a) = 1
    BY DEF BufferRight, Roomy
  <1>2. /\ in.buf \in Seq(Nat) /\ in.doc_offset \in Nat /\ in.saved_start \in Nat
        /\ saved \in Nat /\ in.new_start \in Nat /\ Len(in.buf) \in Nat
    BY <1>1 DEF Inputs
  <1>3. Held(in) = saved /\ Base(in, a) = a
    BY <1>1, <1>2 DEF Held, Base
  <1>4. buf \in Seq(Nat) /\ Len(buf) = Len(in.buf)
    <2>1. ASSUME NEW i \in 1 .. Len(in.buf) PROVE buf[i] \in Nat
      <3>1. CASE i - in.new_start \in 1 .. n
        <4>1. buf[i] = a + (i - in.new_start) - 1
          BY <3>1
        <4>2. PICK s \in Nat : s = in.new_start
          BY <1>2
        <4>3. i - s \in 1 .. n /\ i \in Nat
          BY <1>2, <3>1, <4>2
        <4>4. a + (i - s) - 1 \in Nat
          <5> HIDE DEF buf
          <5>1. PICK d \in Nat : d = i - s /\ d > 0
            BY <4>3
          <5>2. a + d - 1 \in Nat
            BY <5>1
          <5>3. QED
            BY <5>1, <5>2
        <4> HIDE DEF buf
        <4>5. QED
          BY <4>1, <4>2, <4>4
      <3>2. CASE ~(i - in.new_start \in 1 .. n)
        <4>1. buf[i] = in.buf[i]
          BY <3>2
        <4> HIDE DEF buf
        <4>2. \A b \in Seq(Nat) : i \in 1 .. Len(b) => b[i] \in Nat
          OBVIOUS
        <4>3. in.buf \in Seq(Nat)
          BY <1>2
        <4>4. QED
          BY <4>1, <4>2, <4>3
      <3>3. QED
        BY <3>1, <3>2
    <2>2. buf \in [1 .. Len(in.buf) -> Nat]
      <3> HIDE DEF buf
      <3>1. buf = [i \in 1 .. Len(in.buf) |-> buf[i]]
        BY DEF buf
      <3>2. QED
        BY <2>1, <3>1
    <2> HIDE DEF buf
    <2>3. PICK k \in Nat : k = Len(in.buf)
      BY <1>2
    <2>4. \A f : f \in [1 .. k -> Nat] => f \in Seq(Nat) /\ Len(f) = k
      OBVIOUS
    <2>5. QED
      BY <2>2, <2>3, <2>4
  <1>5. new = [in EXCEPT !.buf = buf, !.new_bytes = n]
    BY DEF Filled
  <1> HIDE DEF buf
  <1>6. /\ new \in Inputs /\ new.buf = buf /\ new.new_bytes = n
        /\ new.doc_offset = in.doc_offset /\ new.saved_start = in.saved_start
        /\ new.saved_bytes = saved /\ new.new_start = in.new_start
    BY <1>1, <1>4, <1>5 DEF Inputs
  <1>7. Held(new) = saved + n
    BY <1>6 DEF Held
  <1>8. Base(new, a + n) = a /\ StartOf(new, a + n) = StartOf(in, a)
    BY <1>2, <1>3, <1>6, <1>7 DEF Base, StartOf
  <1>9. ASSUME NEW j \in 1 .. Held(new)
        PROVE  buf[in.saved_start + j] = ((a + n) - Held(new)) + (j - 1)
    <2>a. PICK s \in Nat, v \in Nat, m \in Nat, l \in Nat :
            /\ s = in.saved_start /\ v = saved /\ m = in.new_start /\ l = Len(in.buf)
            /\ m = s + v /\ m + n <= l
      BY <1>1, <1>2
    <2>b. j \in 1 .. v + n
      BY <1>7, <2>a
    <2>c. /\ s + j \in 1 .. l /\ (a + n) - (v + n) = a - v
          /\ j <= v => (s + j) - m \notin 1 .. n
          /\ ~(j <= v) => /\ (s + j) - m \in 1 .. n /\ (s + j) - m = j - v
                          /\ a + (j - v) - 1 = (a - v) + (j - 1)
      <3>1. j \in Nat /\ 1 <= j /\ j <= v + n /\ m = s + v /\ m + n <= l
        BY <2>a, <2>b
      <3>2. s + j \in 1 .. l /\ (a + n) - (v + n) = a - v
        BY <3>1
      <3>3. (s + j) - m = j - v
        BY <3>1
      <3>4. j <= v => j - v \notin 1 .. n
        BY <3>1
      <3>5. ~(j <= v) => j - v \in 1 .. n
        BY <3>1
      <3>6. a + (j - v) - 1 = (a - v) + (j - 1)
        BY <3>1
      <3>7. QED
        BY <3>2, <3>3, <3>4, <3>5, <3>6
    <2>1. /\ in.saved_start + j \in 1 .. Len(in.buf)
          /\ (a + n) - Held(new) = a - saved
      BY <1>7, <2>a, <2>c
    <2>2. CASE j <= saved
      <3>1. (in.saved_start + j) - in.new_start \notin 1 .. n
        BY <2>a, <2>c, <2>2
      <3>2. buf[in.saved_start + j] = in.buf[in.saved_start + j]
        BY <2>1, <3>1 DEF buf
      <3>3. in.buf[in.saved_start + j] = (a - saved) + (j - 1)
        <4>1. \A k \in 1 .. saved : in.buf[in.saved_start + k] = (a - saved) + (k - 1)
          BY <1>3 DEF BufferRight
        <4>2. PICK w \in Nat : w = saved
          BY <1>2
        <4>3. j \in 1 .. w
          BY <2>a, <2>b, <2>2, <4>2
        <4>4. QED
          BY <4>1, <4>2, <4>3
      <3>4. QED
        BY <2>1, <3>2, <3>3
    <2>3. CASE ~(j <= saved)
      <3>1. (in.saved_start + j) - in.new_start \in 1 .. n
            /\ (in.saved_start + j) - in.new_start = j - saved
            /\ a + (j - saved) - 1 = (a - saved) + (j - 1)
        BY <2>a, <2>c, <2>3
      <3>2. buf[in.saved_start + j] = a + (j - saved) - 1
        BY <2>1, <3>1 DEF buf
      <3>3. QED
        BY <2>1, <3>1, <3>2
    <2>4. QED
      BY <2>2, <2>3
  <1>10. new.saved_start + Held(new) <= Len(new.buf) /\ ReadSize <= Len(new.buf)
    BY <1>1, <1>2, <1>4, <1>6, <1>7
  <1>11. BufferRight(new, p, a + n)
    BY <1>1, <1>6, <1>8, <1>9, <1>10 DEF BufferRight
  <1>12. QED
    BY <1>3, <1>8, <1>11

LEMMA ReadBlockInv == PullerInv /\ P!ReadBlock => PullerInv'
  <1>1. SUFFICES ASSUME PullerInv, P!ReadBlock PROVE PullerInv'
    OBVIOUS
  <1>2. /\ pc = "next" /\ puller.status = "ok" /\ puller.fd = "open" /\ pc' = "parse"
        /\ UNCHANGED <<stream, multi, puller, expat, tokens, failed>>
    BY <1>1 DEF P!ReadBlock, P!Wanting
  <1>3. PICK n \in 1 .. P!Min({P!Room, Len(stream.bytes) + 1 - at}) :
          input' = Filled(input, at, n) /\ at' = at + n
    BY <1>1 DEF P!ReadBlock, Filled
  <1>4. /\ WorkRight(input, puller, expat, at) /\ Roomy(input)
        /\ BufferRight(input, expat, at)
        /\ at \in Nat /\ Len(stream.bytes) \in Nat /\ at <= Len(stream.bytes) + 1
        /\ at > 0 /\ stream \in Streams
    <2>1. /\ WorkRight(input, puller, expat, at) /\ Roomy(input)
          /\ at \in 1 .. Len(stream.bytes) + 1 /\ stream \in Streams
      BY <1>1, <1>2 DEF PullerInv, Working
    <2>2. Len(stream.bytes) \in Nat
      BY <2>1, StreamFacts
    <2>3. QED
      BY <2>1, <2>2 DEF WorkRight
  <1>5. input.new_start \in Nat /\ Len(input.buf) \in Nat
    <2>1. input \in Inputs
      BY <1>4 DEF BufferRight
    <2>2. input.new_start \in Nat /\ input.buf \in Seq(Nat)
      BY <2>1 DEF Inputs
    <2>3. QED
      BY <2>2
  <1>6. /\ n \in Nat /\ at + n <= Len(stream.bytes) + 1
        /\ input.new_start + n <= Len(input.buf)
    <2>1. PICK space \in Int : space = Len(input.buf) - input.new_start
      BY <1>5
    <2>2. P!Room \in Int /\ P!Room <= space
      <3>1. PICK size \in Int : size = ReadSize
        BY BlocksAssumption
      <3>2. /\ P!Min({size, space}) \in {size, space}
            /\ P!Min({size, space}) <= space
        BY MinTwo
      <3>3. P!Room = P!Min({size, space})
        BY <2>1, <3>1 DEF P!Room
      <3>4. QED
        BY <3>2, <3>3
    <2>3. PICK left \in Int : left = Len(stream.bytes) + 1 - at
      BY <1>4
    <2>4. n \in Nat /\ n <= P!Room /\ n <= left
      <3>1. PICK room \in Int : room = P!Room
        BY <2>2
      <3>2. /\ P!Min({room, left}) \in Int
            /\ P!Min({room, left}) <= room /\ P!Min({room, left}) <= left
        BY MinTwo
      <3>3. n \in 1 .. P!Min({room, left})
        BY <2>3, <3>1
      <3>4. QED
        BY <3>1, <3>2, <3>3
    <2>5. QED
      BY <1>4, <1>5, <2>1, <2>2, <2>3, <2>4
  <1>7. /\ BufferRight(input', expat, at + n)
        /\ Base(input', at + n) = Base(input, at)
        /\ StartOf(input', at + n) = StartOf(input, at)
    <2>1. PICK a, in, new : a \in Nat /\ a = at /\ in = input /\ new = input'
      BY <1>4
    <2>2. /\ BufferRight(in, expat, a) /\ Roomy(in) /\ n \in Nat /\ a \in Nat
          /\ in.new_start + n <= Len(in.buf) /\ new = Filled(in, a, n)
      BY <1>3, <1>4, <1>6, <2>1
    <2>3. /\ BufferRight(new, expat, a + n) /\ Base(new, a + n) = Base(in, a)
          /\ StartOf(new, a + n) = StartOf(in, a)
      BY <2>2, BlockRead
    <2>4. QED
      BY <2>1, <2>3
  <1>8. WorkRight(input', puller, expat, at + n)
    BY <1>4, <1>7 DEF WorkRight
  <1>9. WorkRight(input, puller, expat, at)'
    BY <1>2, <1>3, <1>8, UnmovedWork
  <1>10. Queue(puller)' = Queue(puller) /\ Tiles(Queue(puller))'
    BY <1>1, <1>2, Unmoved DEF PullerInv
  <1>11. /\ stream' \in Streams /\ multi' \in BOOLEAN
         /\ at' \in 1 .. Len(stream'.bytes) + 1
         /\ puller' \in Pullers /\ tokens' \in Seq(P!AnyToken)
         /\ failed' \in BOOLEAN
    BY <1>1, <1>2, <1>3, <1>4, <1>6 DEF PullerInv
  <1>12. QED
    BY <1>2, <1>9, <1>10, <1>11 DEF PullerInv


-----------------------------------------------------------------------------
(* The puller: what becomes of the buffer when a block has been parsed.  o *)
(* is where in the document the parser is, and k how far in the buffer.    *)

\* The parser is k bytes from the start of the buffer, and kept are left.
OffsetRight(in, a, o, k, kept) ==
  /\ k \in Nat /\ kept \in Nat
  /\ in.saved_bytes + in.new_bytes - k = kept
  /\ in.new_bytes + in.saved_bytes - k = kept
  /\ a - kept = StartOf(in, a) + o /\ kept = a - (StartOf(in, a) + o)
  /\ in.saved_start \in Nat /\ (in.saved_start + k) + kept <= Len(in.buf)
  /\ Len(in.buf) \in Nat /\ in.buf \in Seq(Nat) /\ ReadSize <= Len(in.buf)
  /\ StartOf(in, a) \in Nat \ {0}
  /\ \A j \in 1 .. kept : /\ (in.saved_start + k) + j \in 1 .. Len(in.buf)
                          /\ in.buf[(in.saved_start + k) + j] = (a - kept) + (j - 1)

LEMMA OffsetFacts ==
  ASSUME NEW in, NEW q, NEW a \in Nat, BufferRight(in, q, a), NEW o \in Nat,
         o >= in.doc_offset,
         o <= in.doc_offset + in.saved_bytes + in.new_bytes,
         NEW k, k = o - in.doc_offset, NEW kept, kept = Held(in) - k
  PROVE  OffsetRight(in, a, o, k, kept)
  <1>1. /\ in \in Inputs /\ in.saved_start + Held(in) <= Len(in.buf)
        /\ ReadSize <= Len(in.buf) /\ StartOf(in, a) \in Nat \ {0}
        /\ \A j \in 1 .. Held(in) :
             in.buf[in.saved_start + j] = (a - Held(in)) + (j - 1)
    BY DEF BufferRight
  <1>2. /\ in.saved_start \in Nat /\ in.saved_bytes \in Nat /\ in.new_bytes \in Nat
        /\ in.doc_offset \in Nat /\ in.buf \in Seq(Nat) /\ Len(in.buf) \in Nat
    BY <1>1 DEF Inputs
  <1>3. PICK s \in Nat, v \in Nat, n \in Nat, d \in Nat, l \in Nat, h \in Nat :
          /\ s = in.saved_start /\ v = in.saved_bytes /\ n = in.new_bytes
          /\ d = in.doc_offset /\ l = Len(in.buf) /\ h = Held(in) /\ h = v + n
    <2>1. Held(in) = in.saved_bytes + in.new_bytes
      BY DEF Held
    <2>2. in.saved_bytes + in.new_bytes \in Nat
      BY <1>2
    <2>3. QED
      BY <1>2, <2>1, <2>2
  <1>4. /\ o >= d /\ o <= d + h /\ k = o - d /\ kept = h - k /\ s + h <= l
        /\ StartOf(in, a) = (a - h) - d
    <2>1. in.doc_offset + in.saved_bytes + in.new_bytes = d + h
      <3>1. h = v + n
        BY <1>3
      <3>2. d + v + n = d + h
        BY <3>1
      <3>3. QED
        BY <1>3, <3>2
    <2>2. StartOf(in, a) = (a - h) - d
      BY <1>3 DEF StartOf
    <2>3. QED
      BY <1>1, <1>3, <2>1, <2>2
  <1>5. /\ k \in Nat /\ kept \in Nat /\ v + n - k = kept /\ n + v - k = kept
        /\ (s + k) + kept <= l
    <2>1. PICK j \in Nat : j = o - d
      BY <1>4
    <2>2. k = j /\ kept = h - j /\ j <= h /\ h = v + n /\ s + h <= l
      <3>1. h = v + n /\ s + h <= l /\ k = j /\ kept = h - j
        BY <1>3, <1>4, <2>1
      <3>2. o = d + j /\ o <= d + h
        BY <1>4, <2>1
      <3>3. j <= h
        BY <3>2
      <3>4. QED
        BY <3>1, <3>3
    <2>3. PICK m \in Nat : m = h - j
      BY <2>2
    <2>4. v + n - j = m /\ n + v - j = m /\ (s + j) + m <= l
      BY <2>2, <2>3
    <2>5. QED
      BY <2>2, <2>3, <2>4
  <1>6. a - kept = StartOf(in, a) + o /\ kept = a - (StartOf(in, a) + o)
    BY <1>4
  <1>7. ASSUME NEW j \in 1 .. kept
        PROVE  /\ (s + k) + j \in 1 .. l
               /\ in.buf[(s + k) + j] = (a - kept) + (j - 1)
    <2>1. /\ k + j \in 1 .. h /\ s + (k + j) = (s + k) + j /\ (s + k) + j \in 1 .. l
          /\ (a - h) + ((k + j) - 1) = (a - kept) + (j - 1)
      BY <1>4, <1>5
    <2>2. in.buf[s + (k + j)] = (a - h) + ((k + j) - 1)
      BY <1>1, <1>3, <2>1
    <2>3. QED
      BY <2>1, <2>2
  <1>8. QED
    <2>1. (in.saved_start + k) + kept <= Len(in.buf)
      BY <1>3, <1>5
    <2>2. \A j \in 1 .. kept :
            /\ (in.saved_start + k) + j \in 1 .. Len(in.buf)
            /\ in.buf[(in.saved_start + k) + j] = (a - kept) + (j - 1)
      BY <1>3, <1>7
    <2>3. /\ in.saved_bytes + in.new_bytes - k = kept
          /\ in.new_bytes + in.saved_bytes - k = kept
      BY <1>3, <1>5
    <2>4. QED
      BY <1>1, <1>2, <1>5, <1>6, <2>1, <2>2, <2>3 DEF OffsetRight

LEMMA KeptRight ==
  ASSUME NEW in, NEW q, NEW a \in Nat, BufferRight(in, q, a), NEW o \in Nat,
         o >= in.doc_offset,
         o <= in.doc_offset + in.saved_bytes + in.new_bytes, multi,
         NEW p, Len(p.rest) = a - (StartOf(in, a) + o), NEW new, new = P!Kept(in, o)
  PROVE  /\ BufferRight(new, p, a) /\ Roomy(new)
         /\ Base(new, a) = a /\ StartOf(new, a) = StartOf(in, a)
  <1> DEFINE k == o - in.doc_offset
             kept == Held(in) - k
             len == Len(in.buf)
             first == in.saved_start + k
             size == IF len < kept + ReadSize
                     THEN len + 2 * (kept + ReadSize - len) + Slack ELSE len
             buf == [i \in 1 .. size |-> IF i <= kept THEN in.buf[first + i] ELSE 0]
  <1>1. /\ k \in Nat /\ kept \in Nat
        /\ in.saved_bytes + in.new_bytes - k = kept
        /\ a - kept = StartOf(in, a) + o /\ kept = a - (StartOf(in, a) + o)
        /\ in.saved_start \in Nat /\ len \in Nat
        /\ StartOf(in, a) \in Nat \ {0} /\ ReadSize <= len
        /\ in.buf \in Seq(Nat)
        /\ \A j \in 1 .. kept : /\ first + j \in 1 .. len
                                /\ in.buf[first + j] = (a - kept) + (j - 1)
    <2>1. PICK x, y : /\ x = o - in.doc_offset /\ y = Held(in) - x
                      /\ x = k /\ y = kept
      OBVIOUS
    <2> HIDE DEF k, kept
    <2>2. OffsetRight(in, a, o, x, y)
      BY <2>1, OffsetFacts
    <2>3. QED
      BY <2>1, <2>2 DEF OffsetRight
  <1>2. new = [buf |-> buf, doc_offset |-> o, saved_start |-> 0,
               saved_bytes |-> kept, new_start |-> kept, new_bytes |-> 0]
    BY <1>1 DEF P!Kept
  <1> HIDE DEF k, kept
  <1>3. size \in Nat /\ kept + ReadSize <= size /\ ReadSize <= size
    <2>1. PICK n \in Nat, l \in Nat, m \in Nat, s \in Nat :
            n = kept /\ l = len /\ m = ReadSize /\ s = Slack /\ m <= l
      BY <1>1, BlocksAssumption
    <2>2. CASE l < n + m
      <3>1. size = l + 2 * (n + m - l) + s
        BY <2>1, <2>2
      <3>2. PICK d \in Nat : d = n + m - l
        BY <2>2
      <3>3. l + 2 * d + s \in Nat /\ n + m <= l + 2 * d + s /\ m <= l + 2 * d + s
        BY <3>2
      <3>4. QED
        BY <2>1, <3>1, <3>2, <3>3
    <2>3. CASE ~(l < n + m)
      <3>1. size = l
        BY <2>1, <2>3
      <3>2. QED
        BY <2>1, <2>3, <3>1
    <2>4. QED
      BY <2>2, <2>3
  <1> HIDE DEF len, first, size
  <1>4. \A i \in 1 .. size : buf[i] \in Nat
    <2>1. ASSUME NEW i \in 1 .. size PROVE buf[i] \in Nat
      <3>1. CASE i <= kept
        <4>1. i \in 1 .. kept
          BY <1>1, <1>3, <3>1
        <4>2. first + i \in 1 .. Len(in.buf)
          BY <1>1, <4>1 DEF len
        <4>3. in.buf[first + i] \in Nat
          <5>1. PICK b, m : b \in Seq(Nat) /\ b = in.buf /\ m = first + i
            BY <1>1
          <5>2. b \in Seq(Nat) /\ m \in 1 .. Len(b) => b[m] \in Nat
            OBVIOUS
          <5>3. QED
            BY <4>2, <5>1, <5>2
        <4>4. QED
          BY <3>1, <4>3
      <3>2. CASE ~(i <= kept)
        BY <3>2
      <3>3. QED
        BY <3>1, <3>2
    <2>2. QED
      BY <2>1
  <1>5. \A j \in 1 .. kept : buf[j] = (a - kept) + (j - 1)
    <2>1. ASSUME NEW j \in 1 .. kept PROVE buf[j] = (a - kept) + (j - 1)
      <3>1. j \in 1 .. size /\ j <= kept
        BY <1>1, <1>3, BlocksAssumption
      <3>2. buf[j] = in.buf[first + j]
        BY <3>1
      <3>3. QED
        BY <1>1, <3>2
    <2>2. QED
      BY <2>1
  <1>6. buf = [i \in 1 .. size |-> buf[i]]
    OBVIOUS
  <1> HIDE DEF buf
  <1>7. buf \in Seq(Nat) /\ Len(buf) = size
    <2>1. PICK n \in Nat : n = size
      BY <1>3
    <2>2. \A f : f \in [1 .. n -> Nat] => f \in Seq(Nat) /\ Len(f) = n
      OBVIOUS
    <2>3. buf \in [1 .. n -> Nat]
      BY <1>4, <1>6, <2>1
    <2>4. QED
      BY <2>1, <2>2, <2>3
  <1>8. /\ new.buf = buf /\ new.doc_offset = o /\ new.saved_start = 0
        /\ new.saved_bytes = kept /\ new.new_start = kept /\ new.new_bytes = 0
        /\ new \in Inputs
    BY <1>1, <1>2, <1>7 DEF Inputs
  <1>9. Held(new) = kept /\ Base(new, a) = a
    BY <1>1, <1>8 DEF Held, Base
  <1>10. StartOf(new, a) = StartOf(in, a)
    <2>1. StartOf(new, a) = (a - kept) - o
      BY <1>8, <1>9 DEF StartOf
    <2>2. QED
      BY <1>1, <2>1
  <1>11. Roomy(new)
    BY <1>3, <1>7, <1>8 DEF Roomy
  <1>12. \A j \in 1 .. Held(new) :
           new.buf[new.saved_start + j] = (a - Held(new)) + (j - 1)
    BY <1>1, <1>5, <1>8, <1>9
  <1>13. new.saved_start + Held(new) <= Len(new.buf) /\ ReadSize <= Len(new.buf)
    <2>1. PICK m \in Nat, n \in Nat : m = kept /\ n = ReadSize
      BY <1>1, BlocksAssumption
    <2>2. 0 + m <= size /\ n <= size
      BY <1>3, <2>1
    <2>3. QED
      BY <1>7, <1>8, <1>9, <2>1, <2>2
  <1>14. BufferRight(new, p, a)
    BY <1>1, <1>8, <1>9, <1>10, <1>12, <1>13 DEF BufferRight
  <1>15. QED
    BY <1>9, <1>10, <1>11, <1>14

LEMMA DroppedRight ==
  ASSUME NEW in, NEW q, NEW a \in Nat, BufferRight(in, q, a), ~multi,
         NEW p, NEW new, new = P!Dropped(in)
  PROVE  /\ BufferRight(new, p, a) /\ Roomy(new)
         /\ Base(new, a) = a /\ StartOf(new, a) = StartOf(in, a)
  <1>1. /\ in \in Inputs /\ ReadSize <= Len(in.buf)
        /\ in.saved_bytes = 0 /\ StartOf(in, a) = 1
    BY DEF BufferRight
  <1>2. /\ in.doc_offset \in Nat /\ in.saved_bytes \in Nat /\ in.new_bytes \in Nat
        /\ in.buf \in Seq(Nat) /\ Len(in.buf) \in Nat
    BY <1>1 DEF Inputs
  <1>3. /\ new.buf = in.buf
        /\ new.doc_offset = in.doc_offset + in.saved_bytes + in.new_bytes
        /\ new.saved_start = 0 /\ new.saved_bytes = 0 /\ new.new_start = 0
        /\ new.new_bytes = 0 /\ new \in Inputs
    <2>1. in.doc_offset + in.saved_bytes + in.new_bytes \in Nat
      BY <1>2
    <2>2. QED
      BY <1>1, <2>1 DEF P!Dropped, Inputs
  <1>4. Held(new) = 0 /\ Base(new, a) = a
    BY <1>3 DEF Held, Base
  <1>5. StartOf(new, a) = StartOf(in, a)
    <2>1. StartOf(new, a) = (a - 0) - (in.doc_offset + in.saved_bytes + in.new_bytes)
      BY <1>3, <1>4 DEF StartOf
    <2>2. StartOf(in, a) = (a - (in.saved_bytes + in.new_bytes)) - in.doc_offset
      BY DEF StartOf, Held
    <2>3. QED
      BY <1>2, <2>1, <2>2
  <1>6. Roomy(new)
    BY <1>1, <1>3, BlocksAssumption DEF Roomy
  <1>7. 1 .. Held(new) = {}
    BY <1>4
  <1>8. new.saved_start + Held(new) <= Len(new.buf)
    BY <1>2, <1>3, <1>4
  <1>9. BufferRight(new, p, a)
    BY <1>1, <1>3, <1>4, <1>5, <1>7, <1>8 DEF BufferRight
  <1>10. QED
    BY <1>4, <1>5, <1>6, <1>9

LEMMA RestartedRight ==
  ASSUME NEW in, NEW q, NEW a \in Nat, BufferRight(in, q, a), NEW o \in Nat,
         o >= in.doc_offset,
         o <= in.doc_offset + in.saved_bytes + in.new_bytes, multi,
         NEW p, p.rest = <<>>, NEW c, c = StartOf(in, a) + o,
         NEW new, new = P!Restarted(in, o)
  PROVE  BufferRight(new, p, a) /\ Base(new, a) = c /\ StartOf(new, a) = c
  <1> DEFINE k == o - in.doc_offset
             kept == Held(in) - k
             first == in.saved_start + k
  <1>1. /\ k \in Nat /\ kept \in Nat
        /\ in.new_bytes + in.saved_bytes - k = kept
        /\ a - kept = c
        /\ in.saved_start \in Nat /\ Len(in.buf) \in Nat
        /\ first + kept <= Len(in.buf) /\ StartOf(in, a) \in Nat \ {0}
        /\ ReadSize <= Len(in.buf)
        /\ \A j \in 1 .. kept : in.buf[first + j] = (a - kept) + (j - 1)
    <2>1. PICK x, y : /\ x = o - in.doc_offset /\ y = Held(in) - x
                      /\ x = k /\ y = kept
      OBVIOUS
    <2> HIDE DEF k, kept
    <2>2. OffsetRight(in, a, o, x, y)
      BY <2>1, OffsetFacts
    <2>3. QED
      BY <2>1, <2>2 DEF OffsetRight
  <1>2. in \in Inputs
    BY DEF BufferRight
  <1>3. new = [in EXCEPT !.new_start = first, !.new_bytes = kept,
                         !.saved_start = first, !.saved_bytes = 0,
                         !.doc_offset = 0]
    <2>1. \A n : n = in.new_bytes => n + in.saved_bytes - k = kept
      BY <1>1
    <2>2. QED
      BY <2>1 DEF P!Restarted
  <1> HIDE DEF k, kept
  <1>4. first \in Nat
    BY <1>1
  <1> HIDE DEF first
  <1>5. /\ new.buf = in.buf /\ new.new_start = first /\ new.new_bytes = kept
        /\ new.saved_start = first /\ new.saved_bytes = 0 /\ new.doc_offset = 0
        /\ new \in Inputs
    <2>1. PICK f \in Nat, m \in Nat : f = first /\ m = kept
      BY <1>1, <1>4
    <2>2. new = [in EXCEPT !.new_start = f, !.new_bytes = m, !.saved_start = f,
                           !.saved_bytes = 0, !.doc_offset = 0]
      BY <1>3, <2>1
    <2>3. in \in [buf : Seq(Nat), doc_offset : Nat, saved_start : Nat,
                  saved_bytes : Nat, new_start : Nat, new_bytes : Nat]
      BY <1>2 DEF Inputs
    <2>4. /\ new.buf = in.buf /\ new.new_start = f /\ new.new_bytes = m
          /\ new.saved_start = f /\ new.saved_bytes = 0 /\ new.doc_offset = 0
      BY <2>2, <2>3
    <2>5. new \in [buf : Seq(Nat), doc_offset : Nat, saved_start : Nat,
                  saved_bytes : Nat, new_start : Nat, new_bytes : Nat]
      <3>1. PICK s : s = [in EXCEPT !.new_start = f, !.new_bytes = m]
        OBVIOUS
      <3>2. s \in [buf : Seq(Nat), doc_offset : Nat, saved_start : Nat,
                  saved_bytes : Nat, new_start : Nat, new_bytes : Nat]
        BY <2>3, <3>1
      <3>3. PICK r : r = [s EXCEPT !.saved_start = f, !.saved_bytes = 0]
        OBVIOUS
      <3>4. r \in [buf : Seq(Nat), doc_offset : Nat, saved_start : Nat,
                  saved_bytes : Nat, new_start : Nat, new_bytes : Nat]
        BY <3>2, <3>3
      <3>5. new = [r EXCEPT !.doc_offset = 0]
        BY <2>2, <3>1, <3>3
      <3>6. QED
        BY <3>4, <3>5
    <2>6. QED
      BY <2>1, <2>4, <2>5 DEF Inputs
  <1>6. Held(new) = kept
    BY <1>1, <1>5 DEF Held
  <1>7. c \in Nat \ {0}
    BY <1>1
  <1>8. Base(new, a) = c /\ StartOf(new, a) = c
    BY <1>1, <1>5, <1>6, <1>7 DEF Base, StartOf
  <1>9. Len(p.rest) = 0
    OBVIOUS
  <1>10. new.new_start = new.saved_start + new.saved_bytes
    BY <1>4, <1>5
  <1>11. \A j \in 1 .. Held(new) :
           new.buf[new.saved_start + j] = (a - Held(new)) + (j - 1)
    BY <1>1, <1>5, <1>6
  <1>12. BufferRight(new, p, a)
    BY <1>1, <1>5, <1>6, <1>7, <1>8, <1>9, <1>10, <1>11 DEF BufferRight
  <1>13. QED
    BY <1>8, <1>12


-----------------------------------------------------------------------------
(* The puller: the end of a document, and a block that has been parsed.    *)

LEMMA EndToken ==
  ASSUME stream \in Streams, at \in 1 .. Len(stream.bytes) + 1, NEW u, NEW p,
         NEW start, NEW ends, ParserRight(u, p, at, start, ends),
         NEW d, d = Next(p, at), NEW e,
         e = [kind |-> "END_DOCUMENT", from |-> d, to |-> d, row |-> p.row,
              col |-> p.col], NEW v, v.prev_row = u.prev_row, v.prev_col = u.prev_col
  PROVE  /\ \A failure : P!EndDocument(v, p, failure) = P!Enqueued(v, e, failure)
         /\ e \in P!AnyToken /\ e.kind \notin TextKinds /\ e.kind = "END_DOCUMENT"
         /\ e.from = d /\ e.to = d /\ d \in Nat /\ d > 0 /\ d <= Len(stream.bytes) + 1
         /\ P!Spelling(e.kind, SubSeq(stream.bytes, e.from, e.to - 1))
         /\ Spot(v, e) = P!Place(e.from)
  <1>1. /\ p \in ExpatParsers /\ Ahead(p, at) /\ Spot(u, p) = P!Place(d)
        /\ stream.bytes \in Seq(P!Bytes) /\ Len(stream.bytes) \in Nat
    BY StreamFacts DEF ParserRight
  <1>2. p.rest \in Seq(Nat) /\ p.row \in Nat /\ p.col \in Nat
    BY <1>1 DEF ExpatParsers
  <1>3. Len(p.rest) \in Nat /\ d = at - Len(p.rest) /\ d > 0
    BY <1>1, <1>2 DEF Ahead, Next
  <1>4. d \in Nat /\ d <= Len(stream.bytes) + 1
    <2>1. PICK n \in Nat : n = Len(p.rest)
      BY <1>3
    <2>2. PICK m \in Nat : m = Len(stream.bytes)
      BY <1>1
    <2>3. at \in 1 .. m + 1 /\ d = at - n /\ d > 0
      BY <1>3, <2>1, <2>2
    <2>4. d \in Nat /\ d <= m + 1
      BY <2>3
    <2>5. QED
      BY <2>2, <2>4
  <1>5. (IF p.rest = <<>> THEN at ELSE p.rest[1]) = d
    <2>1. CASE p.rest = <<>>
      BY <1>3, <2>1
    <2>2. CASE p.rest # <<>>
      BY <1>1, <2>2, ByteFacts
    <2>3. QED
      BY <2>1, <2>2
  <1>6. \A failure : P!EndDocument(v, p, failure) = P!Enqueued(v, e, failure)
    BY <1>5 DEF P!EndDocument
  <1>7. e \in P!AnyToken
    BY <1>2, <1>4 DEF P!AnyToken
  <1>8. /\ e.kind = "END_DOCUMENT" /\ e.from = d /\ e.to = d
        /\ e.row = p.row /\ e.col = p.col
    OBVIOUS
  <1>9. Spot(v, e) = P!Place(d)
    <2>1. {"row", "col"} \subseteq DOMAIN p /\ {"row", "col"} \subseteq DOMAIN e
      BY <1>1 DEF ExpatParsers
    <2>2. Spot(v, e) = Spot(u, p)
      BY <1>8, <2>1, SpotOf
    <2>3. QED
      BY <1>1, <2>2
  <1>10. P!Spelling("END_DOCUMENT", SubSeq(stream.bytes, d, d - 1))
    <2>1. SubSeq(stream.bytes, d, d - 1) = <<>>
      BY <1>1, <1>4
    <2>2. QED
      BY <2>1 DEF P!Spelling
  <1>11. e.kind \notin TextKinds
    BY <1>8 DEF TextKinds
  <1>12. QED
    BY <1>3, <1>4, <1>6, <1>7, <1>8, <1>9, <1>10, <1>11

LEMMA EndDocumentRight ==
  ASSUME stream \in Streams, at \in 1 .. Len(stream.bytes) + 1, NEW u, NEW p,
         NEW start, NEW ends, ParserRight(u, p, at, start, ends),
         NEW d, d = Next(p, at), Queued(u, d), NEW failure, NEW v,
         v = P!EndDocument(u, p, failure)
  PROVE  /\ Queued(v, d) /\ SameElse(u, v)
         /\ v.status = "ok" => /\ u.status = "ok"
                               /\ Ended(Queue(v)) = Ended(Queue(u)) + 1
  <1>1. PICK e : e = [kind |-> "END_DOCUMENT", from |-> d, to |-> d, row |-> p.row,
                      col |-> p.col]
    OBVIOUS
  <1>2. /\ v = P!Enqueued(u, e, failure)
        /\ e \in P!AnyToken /\ e.kind \notin TextKinds /\ e.kind = "END_DOCUMENT"
        /\ e.from = d /\ e.to = d /\ d \in Nat /\ d > 0 /\ d <= Len(stream.bytes) + 1
        /\ P!Spelling(e.kind, SubSeq(stream.bytes, e.from, e.to - 1))
        /\ Spot(u, e) = P!Place(e.from)
    <2>1. PICK w : w = u /\ w.prev_row = u.prev_row /\ w.prev_col = u.prev_col
      OBVIOUS
    <2>2. /\ P!EndDocument(w, p, failure) = P!Enqueued(w, e, failure)
          /\ e \in P!AnyToken /\ e.kind \notin TextKinds /\ e.kind = "END_DOCUMENT"
          /\ e.from = d /\ e.to = d /\ d \in Nat /\ d > 0 /\ d <= Len(stream.bytes) + 1
          /\ P!Spelling(e.kind, SubSeq(stream.bytes, e.from, e.to - 1))
          /\ Spot(w, e) = P!Place(e.from)
      BY <1>1, <2>1, EndToken
    <2>3. QED
      BY <2>1, <2>2
  <1>3. /\ Queued(v, e.to) /\ SameElse(u, v)
        /\ v.status = "ok" =>
             /\ u.status = "ok"
             /\ Ended(Queue(v)) =
                  Ended(Queue(u)) + IF e.kind = "END_DOCUMENT" THEN 1 ELSE 0
    BY <1>2, EnqueuedRight
  <1>4. QED
    BY <1>2, <1>3

\* The text that was pending may be the last token.
LEMMA EndFlushedRight ==
  ASSUME stream \in Streams, at \in 1 .. Len(stream.bytes) + 1, NEW u, NEW p,
         NEW start, NEW ends, ParserRight(u, p, at, start, ends),
         NEW d, d = Next(p, at), NEW v, v \in Pullers, tokens \in Seq(P!AnyToken),
         v.prev_row = u.prev_row, v.prev_col = u.prev_col, v.cdata = NULL,
         Tiles(Queue(v)), P!Reached(Queue(v)) = d, v.status = "ok",
         NEW failure, NEW w, w = P!EndDocument(v, p, failure)
  PROVE  /\ w \in Pullers /\ Tiles(Queue(w)) /\ w.fd = v.fd
         /\ w.status = "ok" => /\ P!Reached(Queue(w)) = d
                               /\ Ended(Queue(w)) = Ended(Queue(v)) + 1
  <1>1. PICK e : e = [kind |-> "END_DOCUMENT", from |-> d, to |-> d, row |-> p.row,
                      col |-> p.col]
    OBVIOUS
  <1>2. /\ w = P!Enqueued(v, e, failure)
        /\ e \in P!AnyToken /\ e.kind \notin TextKinds /\ e.kind = "END_DOCUMENT"
        /\ e.from = d /\ e.to = d /\ d \in Nat /\ d > 0 /\ d <= Len(stream.bytes) + 1
        /\ P!Spelling(e.kind, SubSeq(stream.bytes, e.from, e.to - 1))
        /\ Spot(v, e) = P!Place(e.from)
    BY <1>1, EndToken
  <1>3. PICK t : t = P!Placed(v, e)
    OBVIOUS
  <1>4. t \in P!AnyToken /\ t.kind = e.kind /\ t.from = e.from /\ t.to = e.to
    <2>1. v.prev_row \in Nat \ {0} /\ v.prev_col \in Nat \ {0}
      BY DEF Pullers
    <2>2. QED
      BY <1>2, <1>3, <2>1, PlacedToken
  <1>5. <<t.row, t.col>> = P!Place(t.from)
    BY <1>2, <1>3, <1>4 DEF Spot
  <1>6. Tile(t, P!Reached(Queue(v)), LastKind(Queue(v)))
    BY <1>2, <1>4, <1>5 DEF Tile
  <1>7. CASE failure = "token"
    <2>1. w = [v EXCEPT !.status = "error"]
      BY <1>2, <1>7 DEF P!Enqueued, P!Flushed
    <2>2. w \in Pullers /\ w.queue = v.queue /\ w.fd = v.fd /\ w.status = "error"
      BY <2>1 DEF Pullers
    <2>3. Queue(w) = Queue(v)
      BY <2>2 DEF Queue
    <2>4. QED
      BY <2>2, <2>3
  <1>8. CASE failure # "token"
    <2>1. w = [v EXCEPT !.queue = Append(@, t)]
      BY <1>2, <1>3, <1>8 DEF P!Enqueued, P!Flushed
    <2>2. v.queue \in Seq(P!AnyToken)
      BY DEF Pullers
    <2>3. /\ w \in Pullers /\ w.queue = Append(v.queue, t) /\ w.fd = v.fd
          /\ w.status = "ok"
      <3>1. Append(v.queue, t) \in Seq(P!AnyToken)
        BY <1>4, <2>2
      <3>2. PICK s \in Seq(P!AnyToken) : s = Append(v.queue, t)
        BY <3>1
      <3>3. w = [v EXCEPT !.queue = s]
        BY <2>1, <3>2
      <3>4. QED
        BY <3>2, <3>3 DEF Pullers
    <2>4. Queue(w) = Append(Queue(v), t) /\ Queue(v) \in Seq(P!AnyToken)
      BY <1>4, <2>3, QueueAppended
    <2>5. /\ Tiles(Queue(w)) /\ P!Reached(Queue(w)) = t.to
          /\ Ended(Queue(w)) =
               Ended(Queue(v)) + IF t.kind = "END_DOCUMENT" THEN 1 ELSE 0
      BY <1>4, <1>6, <2>4, TokenAppended
    <2>6. QED
      BY <1>2, <1>4, <2>3, <2>5
  <1>9. QED
    BY <1>7, <1>8

\* The parser and the puller after the bytes of a block.
BlockParsed(u, p) ==
  LET start == StartOf(input, at)
      ends == RootsBefore(stream.bytes, start)
  IN
    /\ ParserRight(u, p, at, start, ends) /\ Stopped(p, at) /\ Stuck(p)
    /\ Queued(u, Next(p, at)) /\ u.fd = "open"
    /\ u.depth = p.depth /\ (u.elements > 0 <=> p.root)
    /\ u.status = "ok" /\ multi => Ended(Queue(u)) = ends
    /\ p.offset \in Nat /\ Next(p, at) = start + p.offset
    /\ Len(p.rest) = at - Next(p, at)
    /\ multi => P!InRange(p.offset)

LEMMA Part ==
  ASSUME NEW s \in Seq(Nat), NEW m \in Nat, NEW n \in Nat, m + n <= Len(s), NEW r,
         r = SubSeq(s, m + 1, m + n)
  PROVE  /\ r \in Seq(Nat) /\ Len(r) = n
         /\ \A i \in 1 .. n : r[i] = s[m + i]
  OBVIOUS

LEMMA NewBytesRight ==
  ASSUME NEW in, NEW q, NEW a \in Nat, BufferRight(in, q, a), in = input,
         NEW old, old = Base(in, a)
  PROVE  /\ P!NewBytes \in Seq(Nat) /\ Len(P!NewBytes) = in.new_bytes
         /\ \A i \in 1 .. in.new_bytes : P!NewBytes[i] = old + (i - 1)
         /\ old \in Nat /\ a = old + in.new_bytes /\ in.new_bytes \in Nat
         /\ in.saved_bytes \in Nat /\ in.doc_offset \in Nat
         /\ Held(in) = in.saved_bytes + in.new_bytes
         /\ StartOf(in, a) \in Nat \ {0}
  <1>1. /\ in \in Inputs /\ in.new_start = in.saved_start + in.saved_bytes
        /\ in.saved_start + Held(in) <= Len(in.buf)
        /\ StartOf(in, a) \in Nat \ {0}
        /\ \A j \in 1 .. Held(in) :
             in.buf[in.saved_start + j] = (a - Held(in)) + (j - 1)
    BY DEF BufferRight
  <1>2. /\ in.saved_start \in Nat /\ in.saved_bytes \in Nat /\ in.new_bytes \in Nat
        /\ in.doc_offset \in Nat /\ in.buf \in Seq(Nat) /\ Len(in.buf) \in Nat
    BY <1>1 DEF Inputs
  <1>3. Held(in) = in.saved_bytes + in.new_bytes
    BY DEF Held
  <1>4. PICK s \in Nat, v \in Nat, n \in Nat, d \in Nat, l \in Nat, b \in Seq(Nat) :
          /\ s = in.saved_start /\ v = in.saved_bytes /\ n = in.new_bytes
          /\ d = in.doc_offset /\ l = Len(b) /\ b = in.buf
    BY <1>2
  <1>5. /\ in.new_start = s + v /\ Held(in) = v + n /\ s + (v + n) <= l
        /\ (s + v) + n <= l /\ old = a - n
    BY <1>1, <1>3, <1>4 DEF Base
  <1>6. (a - (v + n)) - d \in Nat \ {0}
    <2>1. StartOf(in, a) = (a - (v + n)) - d
      BY <1>4, <1>5 DEF StartOf
    <2>2. QED
      BY <1>1, <2>1
  <1>7. old \in Nat /\ a = old + n
    BY <1>5, <1>6
  <1>8. PICK m \in Nat : m = s + v
    OBVIOUS
  <1>9. P!NewBytes = SubSeq(b, m + 1, m + n)
    BY <1>4, <1>5, <1>8 DEF P!NewBytes
  <1>10. m + n <= l
    BY <1>5, <1>8
  <1>11. /\ P!NewBytes \in Seq(Nat) /\ Len(P!NewBytes) = n
         /\ \A i \in 1 .. n : P!NewBytes[i] = b[m + i]
    <2>1. PICK r : r = P!NewBytes
      OBVIOUS
    <2>2. m + n <= Len(b) /\ r = SubSeq(b, m + 1, m + n)
      BY <1>4, <1>9, <1>10, <2>1
    <2>3. /\ r \in Seq(Nat) /\ Len(r) = n
          /\ \A i \in 1 .. n : r[i] = b[m + i]
      BY <2>2, Part
    <2>4. QED
      BY <2>1, <2>3
  <1>12. ASSUME NEW i \in 1 .. n PROVE P!NewBytes[i] = old + (i - 1)
    <2>1. /\ v + i \in 1 .. v + n /\ s + (v + i) = m + i
          /\ (a - (v + n)) + ((v + i) - 1) = old + (i - 1)
      BY <1>5, <1>8
    <2>2. b[s + (v + i)] = (a - (v + n)) + ((v + i) - 1)
      BY <1>1, <1>4, <1>5, <2>1
    <2>3. QED
      BY <1>11, <2>1, <2>2
  <1>13. QED
    BY <1>1, <1>2, <1>3, <1>4, <1>7, <1>9, <1>11, <1>12

LEMMA ParseFacts ==
  ASSUME stream \in Streams, at \in 1 .. Len(stream.bytes) + 1,
         WorkRight(input, puller, expat, at), puller.fd = "open",
         puller \in Pullers, multi \in BOOLEAN,
         NEW p, p = P!Parsed(expat, P!NewBytes), NEW k, NEW failure,
         NEW u, u = P!AllHandled(puller, p.events, k, failure)
  PROVE  BlockParsed(u, p) /\ (puller.status = "ok" /\ k = 0 => u.status = "ok")
  <1> DEFINE start == StartOf(input, at)
             ends == RootsBefore(stream.bytes, start)
             old == Base(input, at)
             c == Next(expat, old)
             d == Next(p, at)
             bytes == P!NewBytes
             root == expat.root
  <1>1. /\ BufferRight(input, expat, at)
        /\ ParserRight(puller, expat, old, start, ends)
        /\ expat.status = "ok"
        /\ puller.depth = expat.depth /\ (puller.elements > 0 <=> expat.root)
        /\ Queued(puller, c)
        /\ puller.status = "ok" /\ multi => Ended(Queue(puller)) = ends
    BY DEF WorkRight
  <1>2. at \in Nat /\ Len(stream.bytes) \in Nat
    BY StreamFacts
  <1>3. /\ bytes \in Seq(Nat) /\ Len(bytes) = input.new_bytes
        /\ \A i \in 1 .. Len(bytes) : bytes[i] = old + (i - 1)
        /\ old \in Nat /\ at = old + Len(bytes)
        /\ input.new_bytes \in Nat /\ input.saved_bytes \in Nat
        /\ input.doc_offset \in Nat /\ start \in Nat \ {0}
        /\ Held(input) = input.saved_bytes + input.new_bytes
    <2>1. PICK a, in, q : a \in Nat /\ a = at /\ in = input /\ q = expat
      BY <1>2
    <2>2. BufferRight(in, q, a)
      BY <1>1, <2>1
    <2>3. /\ P!NewBytes \in Seq(Nat) /\ Len(P!NewBytes) = in.new_bytes
          /\ \A i \in 1 .. in.new_bytes : P!NewBytes[i] = Base(in, a) + (i - 1)
          /\ Base(in, a) \in Nat /\ a = Base(in, a) + in.new_bytes
          /\ in.new_bytes \in Nat
          /\ in.saved_bytes \in Nat /\ in.doc_offset \in Nat
          /\ Held(in) = in.saved_bytes + in.new_bytes
          /\ StartOf(in, a) \in Nat \ {0}
      BY <2>1, <2>2, NewBytesRight
    <2>4. QED
      BY <2>1, <2>3
  <1>4. Starts(puller)
    BY DEF Starts, Pullers
  <1>5. ends \in Nat
    BY <1>2, BegunFacts
  <1> HIDE DEF start, ends, old, c, bytes, root
  <1>6. /\ Running(puller, p, at, start, ends, c, root)
        /\ Stopped(p, at) /\ Stuck(p)
    <2>1. c = Next(expat, old) /\ root = expat.root /\ p = P!Parsed(expat, bytes)
      BY DEF c, root, bytes
    <2>2. /\ ParserRight(puller, expat, old, start, ends) /\ expat.status = "ok"
          /\ bytes \in Seq(Nat) /\ old \in Nat /\ at = old + Len(bytes)
          /\ start \in Nat /\ ends \in Nat
          /\ \A i \in 1 .. Len(bytes) : bytes[i] = old + (i - 1)
      BY <1>1, <1>3, <1>5 DEF start, ends, old
    <2>3. QED
      BY <1>4, <2>1, <2>2, ParsedRight
  <1>7. /\ ParserRight(puller, p, at, start, ends)
        /\ EventsRight(puller, p.events, c)
        /\ EndOf(p.events, c) = d /\ c <= d
        /\ p.root <=> (root \/ HasStart(p.events))
    BY <1>6 DEF Running
  <1>8. /\ p \in ExpatParsers /\ d = start + p.offset /\ Ahead(p, at)
        /\ p.depth = P!Depth(stream.bytes, d - 1)
    BY <1>7 DEF ParserRight
  <1>9. p.events \in Seq(Events) /\ p.offset \in Nat /\ p.rest \in Seq(Nat)
    BY <1>8 DEF ExpatParsers
  <1>10. puller.depth = P!Depth(stream.bytes, c - 1)
    BY <1>1 DEF ParserRight, c
  <1>11. /\ Queued(u, d)
         /\ u.fd = puller.fd /\ u.prev_row = puller.prev_row
         /\ u.prev_col = puller.prev_col
         /\ u.depth = P!Depth(stream.bytes, d - 1)
         /\ u.elements > 0 <=> (puller.elements > 0 \/ HasStart(p.events))
         /\ u.status = "ok" => /\ puller.status = "ok"
                               /\ Ended(Queue(u)) = Ended(Queue(puller))
         /\ puller.status = "ok" /\ k = 0 => u.status = "ok"
    <2>1. Queued(puller, c)
      BY <1>1 DEF c
    <2>2. /\ p.events \in Seq(Events) /\ EventsRight(puller, p.events, c)
          /\ d = EndOf(p.events, c)
      BY <1>7, <1>9
    <2> HIDE DEF d
    <2>3. QED
      BY <1>10, <2>1, <2>2, AllHandledRight
  <1>12. ParserRight(u, p, at, start, ends)
    BY <1>7, <1>8, <1>11, ParserSame
  <1>13. Len(p.rest) \in Nat /\ Len(p.rest) = at - d
    <2>1. Len(p.rest) \in Nat
      BY <1>9
    <2>2. QED
      BY <1>2, <2>1 DEF Next
  <1>14. ASSUME multi PROVE P!InRange(p.offset)
    <2>1. input.saved_bytes = Len(expat.rest)
      BY <1>1, <1>14 DEF BufferRight
    <2>2. PICK v \in Nat, n \in Nat, m \in Nat, s \in Nat, o \in Nat, b \in Nat :
            /\ v = input.saved_bytes /\ n = input.new_bytes
            /\ m = input.doc_offset /\ s = start /\ o = p.offset /\ b = Len(p.rest)
      BY <1>3, <1>9, <1>13
    <2>3. c = old - v /\ at = old + n /\ s = (at - (v + n)) - m
      BY <1>3, <2>1, <2>2 DEF c, Next, start, StartOf
    <2>4. c <= s + o /\ b = at - (s + o) /\ old \in Nat
      BY <1>3, <1>7, <1>8, <1>13, <2>2
    <2>5. o >= m /\ o <= m + v + n
      BY <1>2, <2>3, <2>4
    <2>6. QED
      BY <2>2, <2>5 DEF P!InRange
  <1>15. /\ u.fd = "open" /\ u.depth = p.depth /\ (u.elements > 0 <=> p.root)
         /\ u.status = "ok" /\ multi => Ended(Queue(u)) = ends
    BY <1>1, <1>7, <1>8, <1>11 DEF root, ends, start
  <1>16. BlockParsed(u, p)
    BY <1>6, <1>8, <1>9, <1>11, <1>12, <1>13, <1>14, <1>15
       DEF BlockParsed, start, ends
  <1>17. QED
    BY <1>11, <1>16


-----------------------------------------------------------------------------
(* The puller: what follows the parsing of a block.                        *)

\* The buffer, the puller and the parser before the next step at pc = next.
Resumes(in, v, q, next) ==
  /\ v \in Pullers /\ v.fd = "open" /\ Tiles(Queue(v))
  /\ next = "parse" \/ v.status = "ok" => WorkRight(in, v, q, at)
  /\ next = "next" /\ v.status = "ok" => Roomy(in) /\ Stuck(q)

LEMMA EventsDropped ==
  ASSUME NEW u, NEW p, NEW start, NEW ends, ParserRight(u, p, at, start, ends),
         NEW q, q = [p EXCEPT !.events = <<>>]
  PROVE  /\ ParserRight(u, q, at, start, ends) /\ Next(q, at) = Next(p, at)
         /\ q.rest = p.rest /\ q.status = p.status /\ q.depth = p.depth
         /\ q.root = p.root /\ (Stuck(p) => Stuck(q))
  <1>1. p \in ExpatParsers
    BY DEF ParserRight
  <1>2. <<>> \in Seq(Events)
    OBVIOUS
  <1>3. /\ q.rest = p.rest /\ q.offset = p.offset /\ q.row = p.row
        /\ q.col = p.col /\ q.depth = p.depth /\ q.root = p.root
        /\ q.handler = p.handler /\ q.status = p.status
    BY <1>1 DEF ExpatParsers
  <1>4. q \in ExpatParsers
    BY <1>1, <1>2 DEF ExpatParsers
  <1>5. /\ ParserRight(u, q, at, start, ends) /\ Next(q, at) = Next(p, at)
        /\ P!Size(q) = P!Size(p)
    <2>1. Next(q, at) = Next(p, at)
      BY <1>3 DEF Next
    <2>2. P!Size(q) = P!Size(p)
      BY <1>3 DEF P!Size, P!Byte
    <2>3. PICK r \in ExpatParsers : r = q
      BY <1>4
    <2>4. PICK s \in ExpatParsers : s = p
      BY <1>1
    <2>5. /\ r.rest = s.rest /\ r.offset = s.offset /\ r.row = s.row
          /\ r.col = s.col /\ r.depth = s.depth /\ r.root = s.root
          /\ r.handler = s.handler /\ ParserRight(u, s, at, start, ends)
      BY <1>3, <2>3, <2>4
    <2>6. ParserRight(u, r, at, start, ends)
      BY <2>5, ParserSame
    <2>7. QED
      BY <2>1, <2>2, <2>3, <2>6
  <1>6. Stuck(p) => Stuck(q)
    BY <1>3, <1>5 DEF Stuck
  <1>7. QED
    BY <1>3, <1>5, <1>6

LEMMA BlockFacts ==
  ASSUME NEW u, NEW p, BlockParsed(u, p), NEW start, start = StartOf(input, at),
         NEW ends, ends = RootsBefore(stream.bytes, start)
  PROVE  /\ ParserRight(u, p, at, start, ends) /\ Stopped(p, at) /\ Stuck(p)
         /\ Queued(u, Next(p, at)) /\ u.fd = "open"
         /\ u \in Pullers /\ Tiles(Queue(u))
         /\ u.depth = p.depth /\ (u.elements > 0 <=> p.root)
         /\ u.status = "ok" /\ multi => Ended(Queue(u)) = ends
         /\ p.offset \in Nat /\ Next(p, at) = start + p.offset
         /\ Len(p.rest) = at - Next(p, at)
         /\ multi => P!InRange(p.offset)
  BY DEF BlockParsed, Queued

LEMMA ContinueRight ==
  ASSUME NEW u, NEW p, BlockParsed(u, p), p.status = "ok", multi \in BOOLEAN,
         NEW old, BufferRight(input, old, at), at \in Nat, failed \in BOOLEAN,
         P!Continue(p, u)
  PROVE  /\ pc' = "next" /\ Resumes(input', puller', expat', pc')
         /\ puller'.status # "ok" => failed'
         /\ failed' \in BOOLEAN /\ (failed => failed')
  <1> DEFINE start == StartOf(input, at)
             ends == RootsBefore(stream.bytes, start)
  <1>1. /\ ParserRight(u, p, at, start, ends) /\ Stuck(p)
        /\ Queued(u, Next(p, at)) /\ u.fd = "open"
        /\ u \in Pullers /\ Tiles(Queue(u))
        /\ u.depth = p.depth /\ (u.elements > 0 <=> p.root)
        /\ u.status = "ok" /\ multi => Ended(Queue(u)) = ends
        /\ p.offset \in Nat /\ Next(p, at) = start + p.offset
        /\ Len(p.rest) = at - Next(p, at)
        /\ multi => P!InRange(p.offset)
    BY BlockFacts
  <1> HIDE DEF start, ends
  <1> DEFINE lost == u.status = "ok" /\ puller' = P!SetError(u)
  <1>b. ASSUME u.status = "ok" PROVE P!SetError(u) # u
    <2>1. (P!SetError(u)).status = "error"
      BY <1>1 DEF P!SetError, Pullers
    <2>2. QED
      BY <1>b, <2>1
  <1>2. /\ pc' = "next" /\ expat' = [p EXCEPT !.events = <<>>]
        /\ u.status # "ok" => puller' = u /\ failed' = TRUE
        /\ lost => failed' = TRUE
        /\ u.status = "ok" /\ ~lost => failed' = failed /\ puller' = u
        /\ u.status = "ok" /\ ~lost /\ ~multi => input' = P!Dropped(input)
        /\ u.status = "ok" /\ ~lost /\ multi => input' = P!Kept(input, p.offset)
    <2>1. multi => P!InRange(p.offset)
      BY <1>1
    <2>2. QED
      BY <1>b, <2>1 DEF P!Continue
  <1>3. PICK q : q = expat'
    OBVIOUS
  <1>4. /\ ParserRight(u, q, at, start, ends) /\ Next(q, at) = Next(p, at)
        /\ q.rest = p.rest /\ q.status = p.status /\ q.depth = p.depth
        /\ q.root = p.root /\ Stuck(q)
    BY <1>1, <1>2, <1>3, EventsDropped
  <1>5. PICK new : new = input'
    OBVIOUS
  <1>6. CASE u.status # "ok"
    BY <1>1, <1>2, <1>6 DEF Resumes
  <1>a. CASE lost
    <2>1. PICK v : v = puller'
      OBVIOUS
    <2>2. v \in Pullers /\ v.status = "error" /\ v.fd = u.fd /\ v.queue = u.queue
      BY <1>1, <1>a, <2>1 DEF Pullers, P!SetError
    <2>3. Queue(v) = Queue(u)
      BY <2>2 DEF Queue
    <2>4. QED
      BY <1>1, <1>2, <1>a, <2>1, <2>2, <2>3 DEF Resumes
  <1>7. CASE u.status = "ok" /\ ~lost
    <2>1. /\ BufferRight(new, q, at) /\ Roomy(new)
          /\ Base(new, at) = at /\ StartOf(new, at) = start
      <3>1. CASE multi
        <4>1. PICK o, a, in :
                /\ o \in Nat /\ o = p.offset /\ a \in Nat /\ a = at /\ in = input
          BY <1>1
        <4>2. o >= in.doc_offset /\ o <= in.doc_offset + in.saved_bytes + in.new_bytes
          BY <1>1, <3>1, <4>1 DEF P!InRange
        <4>3. Len(q.rest) = a - (StartOf(in, a) + o)
          BY <1>1, <1>4, <4>1 DEF start
        <4>4. /\ new = P!Kept(in, o) /\ BufferRight(in, old, a)
              /\ o \in Nat /\ a \in Nat
          BY <1>2, <1>5, <1>7, <3>1, <4>1
        <4>5. /\ BufferRight(new, q, a) /\ Roomy(new)
              /\ Base(new, a) = a /\ StartOf(new, a) = StartOf(in, a)
          BY <3>1, <4>2, <4>3, <4>4, KeptRight
        <4>6. QED
          BY <4>1, <4>5 DEF start
      <3>2. CASE ~multi
        <4>1. PICK a, in : a \in Nat /\ a = at /\ in = input
          OBVIOUS
        <4>2. new = P!Dropped(in) /\ BufferRight(in, old, a) /\ a \in Nat
          BY <1>2, <1>5, <1>7, <3>2, <4>1
        <4>3. /\ BufferRight(new, q, a) /\ Roomy(new)
              /\ Base(new, a) = a /\ StartOf(new, a) = StartOf(in, a)
          BY <3>2, <4>2, DroppedRight
        <4>4. QED
          BY <4>1, <4>3 DEF start
      <3>3. QED
        BY <3>1, <3>2
    <2>2. WorkRight(new, u, q, at)
      BY <1>1, <1>4, <1>7, <2>1 DEF WorkRight, ends
    <2>3. puller' = u
      BY <1>2, <1>7
    <2>4. QED
      BY <1>1, <1>2, <1>3, <1>4, <1>5, <1>7, <2>1, <2>2, <2>3 DEF Resumes
  <1>8. QED
    BY <1>2, <1>6, <1>7, <1>a

LEMMA NextDocumentRight ==
  ASSUME stream \in Streams, at \in 1 .. Len(stream.bytes) + 1,
         NEW u, NEW p, BlockParsed(u, p), p.status = "error", multi,
         u.elements > 0, u.depth = 0,
         NEW old, BufferRight(input, old, at), pc = "parse", failed \in BOOLEAN,
         NEW failure, P!NextDocument(p, u, failure)
  PROVE  /\ pc' \in {"next", "parse"} /\ Resumes(input', puller', expat', pc')
         /\ puller'.status # "ok" => failed'
         /\ failed' \in BOOLEAN /\ (failed => failed')
  <1> DEFINE start == StartOf(input, at)
             ends == RootsBefore(stream.bytes, start)
             d == Next(p, at)
             B == stream.bytes
             w == P!EndDocument(u, p, failure)
             last == P!Placed(u, [row |-> p.row, col |-> p.col])
             v == [w EXCEPT !.prev_row = last.row, !.prev_col = last.col]
  <1>1. /\ ParserRight(u, p, at, start, ends) /\ Stopped(p, at)
        /\ Queued(u, d) /\ u.fd = "open"
        /\ u \in Pullers
        /\ u.depth = p.depth /\ (u.elements > 0 <=> p.root)
        /\ u.status = "ok" /\ multi => Ended(Queue(u)) = ends
        /\ p.offset \in Nat /\ d = start + p.offset
        /\ multi => P!InRange(p.offset)
    BY BlockFacts
  <1>2. at \in Nat /\ Len(B) \in Nat
    BY StreamFacts
  <1>3. /\ input' = P!Restarted(input, p.offset)
        /\ expat' = P!NewParser(FALSE)
        /\ \/ /\ puller' = [v EXCEPT !.elements = 0]
              /\ failed' = (failed \/ v.status # "ok") /\ pc' = pc
           \/ puller' = P!SetError(v) /\ failed' = TRUE /\ pc' = "next"
    BY DEF P!NextDocument
  <1>4. /\ Queued(w, d) /\ SameElse(u, w)
        /\ w.status = "ok" => /\ u.status = "ok"
                              /\ Ended(Queue(w)) = Ended(Queue(u)) + 1
    BY <1>1, EndDocumentRight
  <1> HIDE DEF start, ends, w, last, v
  <1>5. /\ p \in ExpatParsers /\ Ahead(p, at) /\ d \in Nat /\ d > 1 /\ p.root
        /\ B[d - 1] \notin {"s1", "e1"} /\ Spot(u, p) = P!Place(d)
        /\ p.depth = P!Depth(B, d - 1) /\ p.depth = 0
        /\ RootsBefore(B, d) = ends + 1
    <2>1. p.root /\ p.depth = 0
      BY <1>1
    <2>2. /\ p \in ExpatParsers /\ Ahead(p, at) /\ d > 1
          /\ B[d - 1] \notin {"s1", "e1"} /\ Spot(u, p) = P!Place(d)
          /\ p.depth = P!Depth(B, d - 1)
          /\ RootsBefore(B, d) = ends + 1
      BY <1>1, <2>1 DEF ParserRight
    <2>3. d \in Int
      <3>1. p.rest \in Seq(Nat)
        BY <2>2 DEF ExpatParsers
      <3>2. Len(p.rest) \in Nat
        BY <3>1
      <3>3. QED
        BY <1>2, <3>2 DEF Next
    <2> HIDE DEF d
    <2>4. QED
      BY <2>1, <2>2, <2>3
  <1>6. /\ last.row \in Nat \ {0} /\ last.col \in Nat \ {0}
        /\ <<last.row, last.col>> = P!Place(d)
    <2> DEFINE e == [row |-> p.row, col |-> p.col]
    <2>1. {"row", "col"} \subseteq DOMAIN p /\ {"row", "col"} \subseteq DOMAIN e
      BY <1>5 DEF ExpatParsers
    <2>2. e.row = p.row /\ e.col = p.col
      OBVIOUS
    <2>3. Spot(u, e) = <<last.row, last.col>>
      BY DEF Spot, last
    <2> HIDE DEF e
    <2>4. Spot(u, e) = Spot(u, p)
      BY <2>1, <2>2, SpotOf
    <2>5. P!Place(d) \in (Nat \ {0}) \X (Nat \ {0})
      BY <1>5, PlaceNext
    <2>6. QED
      BY <1>5, <2>3, <2>4, <2>5
  <1>7. PICK q : q = expat'
    OBVIOUS
  <1>8. PICK z : z = [v EXCEPT !.elements = 0]
    OBVIOUS
  <1>9. PICK new : new = input'
    OBVIOUS
  <1>10. /\ q \in ExpatParsers /\ q.rest = <<>> /\ Len(q.rest) = 0 /\ q.offset = 0
         /\ q.row = 1 /\ q.col = 0 /\ q.depth = 0 /\ ~q.root /\ q.status = "ok"
    <2>1. <<>> \in Seq(Nat) /\ <<>> \in Seq(Events) /\ Len(<<>>) = 0
      OBVIOUS
    <2>2. QED
      BY <1>3, <1>7, <2>1 DEF P!NewParser, ExpatParsers
  <1>11. w \in Pullers /\ w.fd = "open" /\ w.depth = 0
    BY <1>1, <1>4, <1>5 DEF Queued, SameElse
  <1>12. /\ v \in Pullers /\ v.fd = w.fd /\ v.depth = w.depth
         /\ v.status = w.status /\ v.queue = w.queue /\ v.cdata = w.cdata
         /\ v.prev_row = last.row /\ v.prev_col = last.col
    <2>1. PICK a \in Nat \ {0}, b \in Nat \ {0} : a = last.row /\ b = last.col
      BY <1>6
    <2>2. PICK s : s = [w EXCEPT !.prev_row = a]
      OBVIOUS
    <2>3. /\ s \in Pullers /\ s.fd = w.fd /\ s.depth = w.depth
          /\ s.status = w.status /\ s.queue = w.queue /\ s.cdata = w.cdata
          /\ s.prev_row = a
      BY <1>11, <2>2 DEF Pullers
    <2>4. v = [s EXCEPT !.prev_col = b]
      BY <2>1, <2>2 DEF v
    <2>5. QED
      BY <2>1, <2>3, <2>4 DEF Pullers
  <1>13. /\ z \in Pullers /\ z.fd = w.fd /\ z.depth = w.depth
         /\ z.status = w.status /\ z.queue = w.queue /\ z.cdata = w.cdata
         /\ z.elements = 0 /\ z.prev_row = last.row /\ z.prev_col = last.col
    BY <1>8, <1>12 DEF Pullers
  <1>14. Queue(z) = Queue(w)
    BY <1>13 DEF Queue
  <1>15. Queued(z, d)
    <2>1. /\ tokens \in Seq(P!AnyToken) /\ Tiles(Queue(w))
          /\ w.status = "ok" => Open(Queue(w), w.cdata, d)
      BY <1>4 DEF Queued
    <2> HIDE DEF d
    <2>2. QED
      BY <1>13, <1>14, <2>1 DEF Queued
  <1>16. /\ BufferRight(new, q, at) /\ Base(new, at) = d /\ StartOf(new, at) = d
    <2>1. PICK o, a, in, c :
            /\ o \in Nat /\ o = p.offset /\ a \in Nat /\ a = at
            /\ in = input /\ c = d
      BY <1>1, <1>2
    <2>2. o >= in.doc_offset /\ o <= in.doc_offset + in.saved_bytes + in.new_bytes
      BY <1>1, <2>1 DEF P!InRange
    <2>3. c = StartOf(in, a) + o
      BY <1>1, <2>1 DEF start
    <2>4. /\ new = P!Restarted(in, o) /\ BufferRight(in, old, a)
          /\ o \in Nat /\ a \in Nat
      BY <1>3, <1>9, <2>1
    <2>5. BufferRight(new, q, a) /\ Base(new, a) = c /\ StartOf(new, a) = c
      BY <1>10, <2>2, <2>3, <2>4, RestartedRight
    <2>6. QED
      BY <2>1, <2>5
  <1>17. Next(q, d) = d
    <2> HIDE DEF d
    <2>1. QED
      BY <1>5, <1>10 DEF Next
  <1>18. Spot(z, q) = P!Place(d)
    <2>1. {"row", "col"} \subseteq DOMAIN q
      BY <1>10 DEF ExpatParsers
    <2>2. Spot(z, q) = <<last.row + (1 - 1), last.col + 0>>
      BY <1>10, <1>13, <2>1, SpotOf
    <2>3. last.row + (1 - 1) = last.row /\ last.col + 0 = last.col
      BY <1>6
    <2>4. QED
      BY <1>6, <2>2, <2>3
  <1>19. ParserRight(z, q, d, d, RootsBefore(B, d))
    <2>1. Promised => d \in P!Roots(B)
      BY <1>1 DEF Stopped, StoppedAt
    <2>2. RootsBefore(B, d) \in Nat
      BY <1>2, BegunFacts
    <2> HIDE DEF d
    <2>3. Ahead(q, d)
      BY <1>5, <1>10, <1>17 DEF Ahead
    <2>4. d = d + q.offset
      BY <1>5, <1>10
    <2>5. RootsBefore(B, d) = RootsBefore(B, d) + IF q.root THEN 1 ELSE 0
      BY <1>10, <2>2
    <2>6. d # 1
      BY <1>5
    <2>7. QED
      BY <1>5, <1>10, <1>17, <1>18, <2>1, <2>3, <2>4, <2>5, <2>6 DEF ParserRight
  <1>20. z.status = "ok" /\ multi => Ended(Queue(z)) = RootsBefore(B, d)
    BY <1>1, <1>4, <1>5, <1>13, <1>14
  <1>21. WorkRight(new, z, q, at)
    <2>1. z.depth = q.depth /\ (z.elements > 0 <=> q.root)
      BY <1>10, <1>11, <1>13
    <2> HIDE DEF d
    <2>2. QED
      BY <1>10, <1>15, <1>16, <1>17, <1>19, <1>20, <2>1 DEF WorkRight
  <1>22. Resumes(new, z, q, "parse")
    <2>1. Tiles(Queue(z)) /\ z.fd = "open"
      BY <1>11, <1>13, <1>15 DEF Queued
    <2>2. QED
      BY <1>13, <1>21, <2>1 DEF Resumes
  <1>23. CASE puller' = P!SetError(v) /\ failed' = TRUE /\ pc' = "next"
    <2>1. PICK x : x = P!SetError(v)
      OBVIOUS
    <2>2. x \in Pullers /\ x.status = "error" /\ x.fd = "open" /\ x.queue = w.queue
      BY <1>11, <1>12, <2>1 DEF Pullers, P!SetError
    <2>3. Queue(x) = Queue(w) /\ Tiles(Queue(w))
      BY <1>4, <2>2 DEF Queue, Queued
    <2>4. QED
      BY <1>23, <2>1, <2>2, <2>3 DEF Resumes
  <1>24. CASE puller' = z /\ failed' = (failed \/ v.status # "ok") /\ pc' = pc
    BY <1>7, <1>9, <1>12, <1>13, <1>22, <1>24
  <1>25. QED
    BY <1>3, <1>8, <1>23, <1>24


\* A parser only fails for good in what is not promised.
LEMMA FailRight ==
  ASSUME stream \in Streams, at \in 1 .. Len(stream.bytes) + 1,
         NEW u, NEW p, BlockParsed(u, p), p.status = "error", multi \in BOOLEAN,
         ~(multi /\ u.elements > 0 /\ u.depth = 0 /\ P!InRange(p.offset)),
         NEW old, BufferRight(input, old, at), NEW failure,
         failed \in BOOLEAN, P!Fail(p, u, failure)
  PROVE  /\ pc' = "next" /\ Resumes(input', puller', expat', pc') /\ ~Promised
         /\ failed' \in BOOLEAN
  <1> DEFINE start == StartOf(input, at)
             ends == RootsBefore(stream.bytes, start)
             d == Next(p, at)
             B == stream.bytes
             w == P!Flushed(u, failure)
  <1>1. /\ ParserRight(u, p, at, start, ends) /\ Stopped(p, at)
        /\ Queued(u, d) /\ u.fd = "open"
        /\ u.depth = p.depth /\ (u.elements > 0 <=> p.root)
        /\ multi => P!InRange(p.offset)
    BY BlockFacts
  <1>2. /\ pc' = "next" /\ puller' = [w EXCEPT !.status = "error"]
        /\ failed' \in BOOLEAN
    BY DEF P!Fail, P!SetError
  <1>3. w \in Pullers /\ SameElse(u, w) /\ Tiles(Queue(w))
    BY <1>1, FlushedRight
  <1> HIDE DEF w
  <1>4. PICK v : v = puller'
    OBVIOUS
  <1>5. /\ v \in Pullers /\ v.status = "error" /\ v.fd = w.fd /\ v.queue = w.queue
    BY <1>2, <1>3, <1>4 DEF Pullers
  <1>6. Queue(v) = Queue(w) /\ v.fd = "open"
    BY <1>1, <1>3, <1>5 DEF Queue, SameElse
  <1>7. Resumes(input', puller', expat', pc')
    BY <1>2, <1>3, <1>4, <1>5, <1>6 DEF Resumes
  <1>8. ASSUME Promised PROVE FALSE
    <2>1. d \in P!Roots(B) /\ p.root /\ p.depth = 0
      BY <1>1, <1>8 DEF Stopped, StoppedAt
    <2>2. ~multi
      BY <1>1, <2>1
    <2>3. stream.docs = 1 /\ stream.good
      BY <1>8, <2>2 DEF Promised
    <2>4. stream.docs = Cardinality(P!Roots(B)) /\ Len(B) \in Nat
      BY <2>3, StreamFacts
    <2>5. start = 1
      BY <2>2 DEF BufferRight
    <2>6. ends = 0
      BY <2>4, <2>5, BegunFacts
    <2>7. RootsBefore(B, d) = ends + 1
      BY <1>1, <2>1 DEF ParserRight
    <2>8. d \in 1 .. Len(B)
      BY <2>1 DEF P!Roots
    <2> HIDE DEF d, ends
    <2>9. RootsBefore(B, d) < Cardinality(P!Roots(B))
      BY <2>1, <2>4, <2>8, BegunNext
    <2>10. QED
      BY <2>3, <2>4, <2>6, <2>7, <2>9
  <1>9. QED
    BY <1>2, <1>7, <1>8

LEMMA ParseBlockInv == PullerInv /\ P!ParseBlock => PullerInv'
  <1>1. SUFFICES ASSUME PullerInv, P!ParseBlock PROVE PullerInv'
    OBVIOUS
  <1> DEFINE p == P!Parsed(expat, P!NewBytes)
  <1>2. /\ pc = "parse" /\ stream' = stream /\ multi' = multi /\ at' = at
        /\ tokens' = tokens
    BY <1>1 DEF P!ParseBlock
  <1>3. PICK k \in 0 .. Len(p.events), failure \in {"none", "flush", "token"} :
          LET u == P!AllHandled(puller, p.events, k, failure)
              last == IF k = 0 THEN failure ELSE "none"
              ends == /\ multi /\ u.elements > 0 /\ u.depth = 0
                      /\ P!InRange(p.offset)
          IN CASE p.status = "ok" -> P!Continue(p, u)
               [] p.status = "error" /\ ends -> P!NextDocument(p, u, last)
               [] OTHER -> P!Fail(p, u, last)
    BY <1>1 DEF P!ParseBlock
  <1> DEFINE u == P!AllHandled(puller, p.events, k, failure)
             ends == multi /\ u.elements > 0 /\ u.depth = 0 /\ P!InRange(p.offset)
             last == IF k = 0 THEN failure ELSE "none"
  <1>4. /\ stream \in Streams /\ multi \in BOOLEAN
        /\ at \in 1 .. Len(stream.bytes) + 1
        /\ puller \in Pullers /\ tokens \in Seq(P!AnyToken) /\ failed \in BOOLEAN
        /\ WorkRight(input, puller, expat, at) /\ puller.fd = "open"
    BY <1>1, <1>2 DEF PullerInv, Working
  <1>5. BlockParsed(u, p)
    <2> HIDE DEF p
    <2>1. p = P!Parsed(expat, P!NewBytes)
      BY DEF p
    <2>2. QED
      BY <1>4, <2>1, ParseFacts
  <1>6. BufferRight(input, expat, at) /\ at \in Nat
    <2>1. Len(stream.bytes) \in Nat
      BY <1>4, StreamFacts
    <2>2. QED
      BY <1>4, <2>1 DEF WorkRight
  <1>7. p.status \in {"ok", "error"}
    <2>1. p \in ExpatParsers
      BY <1>5 DEF BlockParsed, ParserRight
    <2>2. QED
      BY <2>1 DEF ExpatParsers
  <1>8. /\ p.status = "ok" => P!Continue(p, u)
        /\ p.status = "error" /\ ends => P!NextDocument(p, u, last)
        /\ p.status = "error" /\ ~ends => P!Fail(p, u, last)
    BY <1>3
  <1> HIDE DEF p, u, ends, last
  <1>9. /\ pc' \in {"next", "parse"} /\ Resumes(input', puller', expat', pc')
        /\ Promised /\ puller'.status # "ok" => failed'
        /\ failed' \in BOOLEAN
    <2>1. CASE p.status = "ok"
      BY <1>4, <1>5, <1>6, <1>8, <2>1, ContinueRight
    <2>2. CASE p.status = "error" /\ ends
      <3>1. multi /\ u.elements > 0 /\ u.depth = 0
        BY <2>2 DEF ends
      <3>2. QED
        BY <1>2, <1>4, <1>5, <1>6, <1>8, <2>2, <3>1, NextDocumentRight
    <2>3. CASE p.status = "error" /\ ~ends
      <3>1. ~(multi /\ u.elements > 0 /\ u.depth = 0 /\ P!InRange(p.offset))
        BY <2>3 DEF ends
      <3>2. P!Fail(p, u, last) /\ p.status = "error"
        BY <1>8, <2>3
      <3>3. QED
        BY <1>4, <1>5, <1>6, <3>1, <3>2, FailRight
    <2>4. QED
      BY <1>7, <2>1, <2>2, <2>3
  <1>10. /\ puller' \in Pullers /\ puller'.fd = "open" /\ Tiles(Queue(puller'))
         /\ pc' = "parse" \/ puller'.status = "ok" =>
              WorkRight(input', puller', expat', at)
         /\ pc' = "next" /\ puller'.status = "ok" => Roomy(input') /\ Stuck(expat')
    BY <1>9 DEF Resumes
  <1>11. Queue(puller)' = Queue(puller') /\ Tiles(Queue(puller))'
    <2>1. Queue(puller)' = Queue(puller')
      BY <1>2 DEF Queue
    <2>2. QED
      BY <1>2, <1>10, <2>1, Unmoved
  <1>12. Working' => WorkRight(input, puller, expat, at)'
    BY <1>2, <1>10, UnmovedWork DEF Working
  <1>13. pc' = "next" /\ Working' => Roomy(input)' /\ Stuck(expat)'
    BY <1>2, <1>10, Unmoved DEF Working, Roomy
  <1>14. Promised' /\ puller'.status # "ok" => failed'
    BY <1>2, <1>9, Unmoved
  <1>15. failed' \in BOOLEAN /\ puller'.fd # "ended"
    BY <1>9, <1>10
  <1>16. QED
    BY <1>2, <1>4, <1>9, <1>10, <1>11, <1>12, <1>13, <1>14, <1>15 DEF PullerInv


-----------------------------------------------------------------------------
(* The puller: the end of the file.                                        *)

\* At the end of what is promised the parser has a whole document, the last.
LEMMA PromisedFinishes ==
  ASSUME stream \in Streams, at \in 1 .. Len(stream.bytes) + 1,
         multi \in BOOLEAN, Promised, NEW u,
         BufferRight(input, expat, at), Roomy(input),
         at <= Len(stream.bytes) => P!Room = 0,
         NEW start, NEW ends \in Nat, ParserRight(u, expat, at, start, ends),
         expat.status = "ok", Stuck(expat)
  PROVE  /\ P!Finishes(expat) /\ Next(expat, at) = Len(stream.bytes) + 1
         /\ stream.docs = ends + 1
  <1> DEFINE B == stream.bytes
             N == Len(B)
             d == Next(expat, at)
  <1>1. /\ B \in Seq(P!Bytes) /\ N \in Nat /\ at \in Nat
        /\ P!WellFormed(B) /\ stream.docs = Cardinality(P!Roots(B)) /\ stream.docs > 0
    BY StreamFacts DEF Promised
  <1>2. /\ expat \in ExpatParsers /\ Ahead(expat, at)
        /\ expat.depth = P!Depth(B, d - 1)
        /\ RootsBefore(B, d) = ends + IF expat.root THEN 1 ELSE 0
        /\ ends > 0 /\ ~expat.root => d \in P!Roots(B)
    BY DEF ParserRight
  <1>3. at = N + 1
    <2>1. PICK size \in Int, space \in Int :
            /\ size = ReadSize /\ space = Len(input.buf) - input.new_start
            /\ size > 0 /\ space > 0
      <3>1. input.new_start \in Nat /\ input.buf \in Seq(Nat)
        BY DEF BufferRight, Inputs
      <3>2. /\ Len(input.buf) \in Nat /\ input.new_start + ReadSize <= Len(input.buf)
        BY <3>1 DEF Roomy
      <3>3. PICK m \in Nat, l \in Nat, r \in Nat :
              m = input.new_start /\ l = Len(input.buf) /\ r = ReadSize /\ r > 0
        BY <3>1, <3>2, BlocksAssumption
      <3>4. l - m \in Int /\ l - m > 0
        BY <3>2, <3>3
      <3>5. QED
        BY <3>3, <3>4
    <2>2. P!Room = P!Min({size, space})
      BY <2>1 DEF P!Room
    <2>3. P!Min({size, space}) \in {size, space}
      BY MinTwo
    <2>4. P!Room # 0
      BY <2>1, <2>2, <2>3
    <2>5. QED
      BY <1>1, <2>4
  <1>4. expat.rest = <<>>
    <2>1. SUFFICES ASSUME expat.rest # <<>> PROVE FALSE
      OBVIOUS
    <2>2. Len(expat.rest) < P!Size(expat)
      BY <2>1 DEF Stuck
    <2>3. d \in 1 .. N /\ P!Byte(expat) = B[d]
      BY <1>2, <2>1, ByteFacts
    <2>4. Len(expat.rest) \in Nat /\ Len(expat.rest) # 0
      <3>1. expat.rest \in Seq(Nat)
        BY <1>2 DEF ExpatParsers
      <3>2. QED
        BY <2>1, <3>1, EmptySeq
    <2>5. P!Size(expat) = 2 /\ B[d] \in {"s1", "e1"}
      BY <2>2, <2>3, <2>4 DEF P!Size
    <2>6. Len(expat.rest) = 1
      <3>1. PICK n \in Nat : n = Len(expat.rest) /\ n # 0
        BY <2>4
      <3>2. n < 2
        BY <2>2, <2>5, <3>1
      <3>3. \A m \in Nat : m # 0 /\ m < 2 => m = 1
        OBVIOUS
      <3>4. QED
        BY <3>1, <3>2, <3>3
    <2>7. d = N
      BY <1>1, <1>3, <2>6 DEF Next
    <2>8. d < N
      BY <2>3, <2>5, <1>1 DEF P!WellFormed
    <2> HIDE DEF d, N
    <2>9. QED
      BY <1>1, <2>7, <2>8
  <1>5. d = N + 1 /\ d - 1 = N
    BY <1>1, <1>3, <1>4 DEF Next
  <1>6. expat.depth = 0
    BY <1>1, <1>2, <1>5 DEF P!WellFormed
  <1>7. RootsBefore(B, d) = stream.docs /\ stream.docs \in Nat
    <2>1. RootsBefore(B, N + 1) = Cardinality(P!Roots(B)) /\ RootsBefore(B, N + 1) \in Nat
      BY <1>1, BegunFacts
    <2>2. QED
      BY <1>1, <1>5, <2>1
  <1>8. expat.root
    <2>1. SUFFICES ASSUME ~expat.root PROVE FALSE
      OBVIOUS
    <2>2. ends > 0
      BY <1>1, <1>2, <1>7, <2>1
    <2>3. d \in 1 .. N
      BY <1>2, <2>1, <2>2 DEF P!Roots
    <2>4. QED
      BY <1>1, <1>5, <2>3
  <1>9. stream.docs = ends + 1
    BY <1>2, <1>7, <1>8
  <1>10. QED
    BY <1>4, <1>5, <1>6, <1>8, <1>9 DEF P!Finishes

LEMMA EndOfFileInv == PullerInv /\ P!EndOfFile => PullerInv'
  <1>1. SUFFICES ASSUME PullerInv, P!EndOfFile PROVE PullerInv'
    OBVIOUS
  <1>2. /\ pc = "next" /\ puller.status = "ok" /\ puller.fd = "open"
        /\ at <= Len(stream.bytes) => P!Room = 0
        /\ UNCHANGED <<stream, multi, at, input, expat, pc, tokens>>
    BY <1>1 DEF P!EndOfFile, P!Wanting
  <1>3. PICK failure \in {"none", "flush", "token"} :
          LET u == [P!Flushed(puller, failure) EXCEPT !.fd = "ended"]
              v == IF P!Finishes(expat) /\ multi
                   THEN P!EndDocument(u, expat, failure) ELSE u
          IN
            /\ failed' = (failed \/ v.status # "ok")
            /\ puller' = IF P!Finishes(expat) THEN v ELSE P!SetError(v)
    BY <1>1 DEF P!EndOfFile
  <1> DEFINE w == P!Flushed(puller, failure)
             start == StartOf(input, at)
             ends == RootsBefore(stream.bytes, start)
             c == Next(expat, at)
  <1>4. PICK u : u = [w EXCEPT !.fd = "ended"]
    OBVIOUS
  <1>5. PICK v : v = puller'
    OBVIOUS
  <1>a. failed \in BOOLEAN
    BY <1>1 DEF PullerInv
  <1>6. /\ failed' \in BOOLEAN
        /\ P!Finishes(expat) => failed' = (failed \/ v.status # "ok")
        /\ v = IF ~P!Finishes(expat) THEN P!SetError(u)
               ELSE IF multi THEN P!EndDocument(u, expat, failure) ELSE u
    BY <1>3, <1>4, <1>5, <1>a
  <1>7. /\ stream \in Streams /\ multi \in BOOLEAN
        /\ at \in 1 .. Len(stream.bytes) + 1 /\ tokens \in Seq(P!AnyToken)
        /\ failed \in BOOLEAN
        /\ WorkRight(input, puller, expat, at) /\ Roomy(input) /\ Stuck(expat)
        /\ puller \in Pullers
    BY <1>1, <1>2 DEF PullerInv, Working
  <1>8. at \in Nat /\ Len(stream.bytes) \in Nat
    BY <1>7, StreamFacts
  <1>9. Base(input, at) = at
    BY <1>7, <1>8 DEF Base, Roomy
  <1>10. /\ BufferRight(input, expat, at) /\ ParserRight(puller, expat, at, start, ends)
         /\ expat.status = "ok" /\ Queued(puller, c)
         /\ multi => Ended(Queue(puller)) = ends
    BY <1>2, <1>7, <1>9 DEF WorkRight
  <1>11. ends \in Nat
    BY <1>8, BegunFacts
  <1>12. /\ w \in Pullers /\ SameElse(puller, w) /\ Tiles(Queue(w)) /\ w.cdata = NULL
         /\ w.status = "ok" =>
              Ended(Queue(w)) = Ended(Queue(puller)) /\ P!Reached(Queue(w)) = c
    BY <1>10, FlushedRight
  <1> HIDE DEF w, start, ends, c
  <1>13. /\ u \in Pullers /\ u.fd = "ended" /\ u.status = w.status
         /\ u.cdata = NULL /\ u.queue = w.queue
         /\ u.prev_row = w.prev_row /\ u.prev_col = w.prev_col
    BY <1>4, <1>12 DEF Pullers
  <1>14. /\ Queue(u) = Queue(w)
         /\ u.prev_row = puller.prev_row /\ u.prev_col = puller.prev_col
    BY <1>12, <1>13 DEF Queue, SameElse
  <1>15. Tiles(Queue(u))
    BY <1>12, <1>14
  <1>16. ASSUME u.status # "ok", NEW x, x = P!EndDocument(u, expat, failure)
         PROVE  x = u
    BY <1>13, <1>16 DEF P!EndDocument, P!Enqueued, P!Flushed
  <1>17. ASSUME u.status = "ok", NEW x, x = P!EndDocument(u, expat, failure)
         PROVE  /\ x \in Pullers /\ Tiles(Queue(x)) /\ x.fd = "ended"
                /\ x.status = "ok" =>
                     /\ P!Reached(Queue(x)) = c
                     /\ multi => Ended(Queue(x)) = ends + 1
    <2>1. P!Reached(Queue(u)) = c /\ (multi => Ended(Queue(u)) = ends)
      BY <1>10, <1>12, <1>13, <1>14, <1>17
    <2>2. c = Next(expat, at)
      BY DEF c
    <2>3. /\ x \in Pullers /\ Tiles(Queue(x)) /\ x.fd = u.fd
          /\ x.status = "ok" => /\ P!Reached(Queue(x)) = c
                                /\ Ended(Queue(x)) = Ended(Queue(u)) + 1
      BY <1>7, <1>10, <1>13, <1>14, <1>15, <1>17, <2>1, <2>2, EndFlushedRight
    <2>4. QED
      BY <1>13, <2>1, <2>3
  <1>18. ASSUME ~P!Finishes(expat)
         PROVE  /\ v \in Pullers /\ v.fd = "ended" /\ Tiles(Queue(v))
                /\ ~Promised
    <2>1. v = [u EXCEPT !.status = "error"]
      BY <1>6, <1>18 DEF P!SetError
    <2>2. v \in Pullers /\ v.fd = "ended" /\ v.queue = u.queue
      BY <1>13, <2>1 DEF Pullers
    <2>3. Queue(v) = Queue(u)
      BY <2>2 DEF Queue
    <2>4. ~Promised
      BY <1>2, <1>7, <1>10, <1>11, <1>18, PromisedFinishes
    <2>5. QED
      BY <1>15, <2>2, <2>3, <2>4
  <1>19. ASSUME P!Finishes(expat)
         PROVE  /\ v \in Pullers /\ v.fd = "ended" /\ Tiles(Queue(v))
                /\ v.status = "ok" =>
                     /\ P!Reached(Queue(v)) = c
                     /\ multi => Ended(Queue(v)) = ends + 1
    <2>1. CASE multi
      <3>1. v = P!EndDocument(u, expat, failure)
        BY <1>6, <1>19, <2>1
      <3>2. CASE u.status = "ok"
        BY <1>17, <3>1, <3>2
      <3>3. CASE u.status # "ok"
        BY <1>13, <1>15, <1>16, <3>1, <3>3
      <3>4. QED
        BY <3>2, <3>3
    <2>2. CASE ~multi
      <3>1. v = u
        BY <1>6, <1>19, <2>2
      <3>2. QED
        BY <1>12, <1>13, <1>14, <1>15, <2>2, <3>1
    <2>3. QED
      BY <2>1, <2>2
  <1>20. ASSUME Promised
         PROVE  /\ P!Finishes(expat)
                /\ v.status = "ok" => Delivered(Queue(v))
    <2>1. /\ P!Finishes(expat) /\ Next(expat, at) = Len(stream.bytes) + 1
          /\ stream.docs = ends + 1
      BY <1>2, <1>7, <1>10, <1>11, <1>20, PromisedFinishes
    <2>2. QED
      BY <1>19, <1>20, <2>1 DEF Delivered, c
  <1>21. v \in Pullers /\ v.fd = "ended" /\ Tiles(Queue(v))
    BY <1>18, <1>19
  <1>22. Queue(puller)' = Queue(v) /\ Tiles(Queue(puller))'
    <2>1. Queue(puller)' = Queue(v)
      BY <1>2, <1>5 DEF Queue
    <2>2. QED
      BY <1>2, <1>21, <2>1, Unmoved
  <1>23. ~Working' /\ pc' = "next"
    BY <1>2, <1>5, <1>21 DEF Working
  <1>24. /\ Promised' /\ puller'.status # "ok" => failed'
         /\ Promised' /\ ~failed' => Delivered(Queue(puller))'
    BY <1>2, <1>5, <1>6, <1>20, <1>22, Unmoved, UnmovedWork
  <1>25. failed' \in BOOLEAN /\ puller' \in Pullers
    BY <1>5, <1>6, <1>7, <1>21
  <1>26. QED
    BY <1>2, <1>7, <1>22, <1>23, <1>24, <1>25 DEF PullerInv


-----------------------------------------------------------------------------
(* The puller: the invariant and what it says.                             *)

LEMMA PullerNextInv == PullerInv /\ [P!PullerNext]_pullerVars => PullerInv'
  <1>1. SUFFICES ASSUME PullerInv, [P!PullerNext]_pullerVars PROVE PullerInv'
    OBVIOUS
  <1>2. CASE P!Deliver
    BY <1>1, <1>2, DeliverInv
  <1>3. CASE P!ReadBlock
    BY <1>1, <1>3, ReadBlockInv
  <1>4. CASE P!ReadError
    BY <1>1, <1>4, ReadErrorInv
  <1>5. CASE P!EndOfFile
    BY <1>1, <1>5, EndOfFileInv
  <1>6. CASE P!ParseBlock
    BY <1>1, <1>6, ParseBlockInv
  <1>7. CASE UNCHANGED pullerVars
    <2>1. UNCHANGED <<stream, multi, at, input, puller, expat, pc, tokens, failed>>
      BY <1>7 DEF pullerVars
    <2>2. Queue(puller)' = Queue(puller)
      BY <2>1 DEF Queue
    <2>3. Tiles(Queue(puller))'
      BY <1>1, <2>1, <2>2, Unmoved DEF PullerInv
    <2>4. Working' => WorkRight(input, puller, expat, at)'
      BY <1>1, <2>1, UnmovedWork DEF PullerInv, Working
    <2>5. pc' = "next" /\ Working' => Roomy(input)' /\ Stuck(expat)'
      BY <1>1, <2>1, Unmoved DEF PullerInv, Working, Roomy
    <2>6. /\ Promised' /\ puller'.status # "ok" => failed'
          /\ Promised' /\ ~failed' /\ puller'.fd = "ended" => Delivered(Queue(puller))'
      BY <1>1, <2>1, <2>2, Unmoved, UnmovedWork DEF PullerInv
    <2>7. /\ stream' \in Streams /\ multi' \in BOOLEAN
          /\ at' \in 1 .. Len(stream'.bytes) + 1
          /\ puller' \in Pullers /\ tokens' \in Seq(P!AnyToken)
          /\ failed' \in BOOLEAN /\ pc' \in {"next", "parse"}
          /\ pc' = "parse" => puller'.fd = "open"
      BY <1>1, <2>1 DEF PullerInv
    <2>8. QED
      BY <2>3, <2>4, <2>5, <2>6, <2>7 DEF PullerInv
  <1>8. QED
    BY <1>1, <1>2, <1>3, <1>4, <1>5, <1>6, <1>7 DEF P!PullerNext

LEMMA ReachedBefore ==
  ASSUME NEW S, NEW s \in Seq(S), NEW i \in 1 .. Len(s)
  PROVE  P!Reached(SubSeq(s, 1, i - 1)) = IF i = 1 THEN 1 ELSE s[i - 1].to
  <1>1. Len(s) \in Nat /\ i \in Nat
    OBVIOUS
  <1>2. CASE i = 1
    <2>1. SubSeq(s, 1, i - 1) = <<>>
      BY <1>2
    <2>2. QED
      BY <1>2, <2>1 DEF P!Reached
  <1>3. CASE i # 1
    <2>a. PICK j \in 1 .. Len(s) : j = i - 1
      BY <1>1, <1>3
    <2>b. /\ SubSeq(s, 1, j) \in Seq(S) /\ Len(SubSeq(s, 1, j)) = j
          /\ SubSeq(s, 1, j)[j] = s[j]
      BY <1>1
    <2>1. PICK r \in Seq(S) : /\ r = SubSeq(s, 1, i - 1) /\ Len(r) = i - 1
                              /\ r[i - 1] = s[i - 1]
      BY <2>a, <2>b
    <2>2. r # <<>>
      BY <1>1, <1>3, <2>1
    <2>3. P!Reached(r) = r[Len(r)].to
      BY <2>2 DEF P!Reached
    <2>4. QED
      BY <1>3, <2>1, <2>3
  <1>4. QED
    BY <1>2, <1>3

LEMMA TokensRight == PullerInv => P!TokensOfDocuments
  <1>1. SUFFICES ASSUME PullerInv PROVE P!TokensOfDocuments
    OBVIOUS
  <1>2. /\ stream \in Streams /\ puller \in Pullers /\ tokens \in Seq(P!AnyToken)
        /\ Tiles(Queue(puller)) /\ failed \in BOOLEAN /\ multi \in BOOLEAN
        /\ Promised /\ puller.status # "ok" => failed
        /\ Promised /\ ~failed /\ puller.fd = "ended" => Delivered(Queue(puller))
    BY <1>1 DEF PullerInv
  <1>3. puller.queue \in Seq(P!AnyToken)
    BY <1>2 DEF Pullers
  <1>4. PICK q \in Seq(P!AnyToken) :
          /\ q = Queue(puller) /\ Len(q) = Len(tokens) + Len(puller.queue)
          /\ \A i \in 1 .. Len(tokens) : q[i] = tokens[i]
    <2>1. PICK r : r = tokens \o puller.queue
      OBVIOUS
    <2>2. /\ r \in Seq(P!AnyToken) /\ Len(r) = Len(tokens) + Len(puller.queue)
          /\ \A i \in 1 .. Len(tokens) : r[i] = tokens[i]
      BY <1>2, <1>3, <2>1, Joint
    <2>3. QED
      BY <2>1, <2>2 DEF Queue
  <1>5. Len(tokens) \in Nat /\ Len(puller.queue) \in Nat /\ Len(q) \in Nat
    BY <1>2, <1>3
  <1>6. P!TokensTile
    <2>1. SUFFICES ASSUME NEW i \in 1 .. Len(tokens)
                   PROVE  LET t == tokens[i] IN
                            /\ t.from = P!Reached(SubSeq(tokens, 1, i - 1))
                            /\ P!Spelling(t.kind,
                                          SubSeq(stream.bytes, t.from, t.to - 1))
                            /\ <<t.row, t.col>> = P!Place(t.from)
                            /\ t.kind \in {"CHARDATA", "UNPARSED"} /\ i > 1 =>
                                 tokens[i - 1].kind # t.kind
      BY DEF P!TokensTile
    <2>2. i \in 1 .. Len(q) /\ q[i] = tokens[i]
      BY <1>4, <1>5
    <2>3. i > 1 => i # 1 /\ i - 1 \in 1 .. Len(tokens) /\ q[i - 1] = tokens[i - 1]
      BY <1>4, <1>5
    <2>4. Tile(q[i], IF i = 1 THEN 1 ELSE q[i - 1].to,
                     IF i = 1 THEN "none" ELSE q[i - 1].kind)
      BY <1>2, <1>4, <2>2 DEF Tiles
    <2>5. i = 1 \/ i > 1
      OBVIOUS
    <2>6. P!Reached(SubSeq(tokens, 1, i - 1)) = IF i = 1 THEN 1 ELSE tokens[i - 1].to
      BY <1>2, ReachedBefore
    <2>7. Tile(tokens[i], P!Reached(SubSeq(tokens, 1, i - 1)),
               IF i = 1 THEN "none" ELSE tokens[i - 1].kind)
      BY <2>2, <2>3, <2>4, <2>5, <2>6
    <2>8. QED
      BY <2>3, <2>7 DEF Tile, TextKinds
  <1>7. P!TokensComplete
    <2>1. SUFFICES ASSUME pc = "next", puller.queue = <<>>, ~failed,
                          puller.status # "ok" \/ puller.fd = "ended",
                          stream.good, multi \/ stream.docs = 1,
                          \A i \in 2 .. Len(stream.bytes) : stream.bytes[i] # "x"
                   PROVE  /\ puller.status = "ok"
                          /\ P!Reached(tokens) = Len(stream.bytes) + 1
                          /\ multi =>
                               P!Cardinality({i \in 1 .. Len(tokens) :
                                              tokens[i].kind = "END_DOCUMENT"})
                                 = stream.docs
      BY DEF P!TokensComplete
    <2>2. Promised
      BY <2>1 DEF Promised
    <2>3. puller.status = "ok" /\ Delivered(Queue(puller))
      BY <1>2, <2>1, <2>2
    <2>4. Queue(puller) = tokens
      <3>1. Len(q) = Len(tokens)
        BY <1>4, <1>5, <2>1
      <3>2. q = tokens
        BY <1>2, <1>4, <3>1, SeqEqual
      <3>3. QED
        BY <1>4, <3>2
    <2>5. QED
      BY <2>3, <2>4, PullerCardinality DEF Delivered, Ended
  <1>8. QED
    BY <1>6, <1>7 DEF P!TokensOfDocuments

=============================================================================
