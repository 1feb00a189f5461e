--------------------------- MODULE ReadersProofs ----------------------------
(***************************************************************************)
(* Proofs about MCReaders: the shared buffer and the list of files of      *)
(* reclen, the variables of the xml interface, the records of csv and the  *)
(* tokens of the pull parser, for any number of files, lengths, addresses, *)
(* generations, characters and streams.  For the last two, whose proof is  *)
(* TextReadersProofs, there is here only that the program has their steps. *)
(*                                                                         *)
(* The argument for reclen.  A close or a drop changes the file it is      *)
(* about and, by name, one node of the list.  While no two files of a name *)
(* are open together these are the same (NamesApart), so that the list     *)
(* stays the files that are read (Linked).  The buffer has as many users   *)
(* as there are iobufs, however the list is.                               *)
(***************************************************************************)
EXTENDS MCReaders, TextReadersProofs

-----------------------------------------------------------------------------
(* reclen.                                                                 *)

FileStates == {"gawk", "read", "dropped", "closed"}

Files == [name : FileNames, left : Nat, state : FileStates]

FilesTyped ==
  /\ reclen \in Lengths
  /\ files \in Seq(Files)
  /\ list \in Seq(1 .. Len(files))
  /\ sharing \in BOOLEAN /\ broken \in BOOLEAN

BufferTyped == buf \in [len : Nat, refs : Nat]

NamesApart ==
  ~sharing =>
    \A f, g \in R!Controlled : files[f].name = files[g].name => f = g

\* The files that are read.
BeingRead == {f \in 1 .. Len(files) : files[f].state = "read"}

\* The elements of a sequence, each at one place.
Elements(s) == {s[i] : i \in 1 .. Len(s)}

EachOnce(s) == \A i, j \in 1 .. Len(s) : s[i] = s[j] => i = j

Linked == ~sharing => ~broken /\ Elements(list) = BeingRead /\ EachOnce(list)

ReclenInv ==
  /\ FilesTyped
  /\ BufferTyped
  /\ R!BufferShared
  /\ NamesApart
  /\ Linked

LEMMA SameCardinality == \A S : R!Cardinality(S) = Cardinality(S)
  BY DEF R!Cardinality, Cardinality

\* The files with an iobuf are finitely many.
LEMMA ControlledFinite ==
  ASSUME FilesTyped
  PROVE  IsFiniteSet(R!Controlled) /\ Cardinality(R!Controlled) \in Nat
  <1>1. Len(files) \in Nat
    BY DEF FilesTyped
  <1>2. IsFiniteSet(1 .. Len(files))
    BY <1>1, FS_Interval
  <1>3. R!Controlled \subseteq 1 .. Len(files)
    BY DEF R!Controlled
  <1>4. QED
    BY <1>2, <1>3, FS_Subset, FS_CardinalityType

\* A set of numbers has a smallest one.
LEMMA SmallestOf ==
  ASSUME NEW I \in SUBSET Nat, I # {}
  PROVE  \E n \in I : \A m \in I : n <= m
  <1> DEFINE less == OpToRel(<, Nat)
  <1>1. IsWellFoundedOn(less, Nat)
    BY NatLessThanWellFounded
  <1>2. PICK n \in I : \A m \in I : <<m, n>> \notin less
    BY <1>1, WFMin
  <1>3. \A m \in I : ~(m < n)
    BY <1>2 DEF OpToRel
  <1>4. QED
    BY <1>3

\* remove_buffer_from_list finds the first node of a name, if there is one.
LEMMA PositionFound ==
  ASSUME FilesTyped, NEW name
  PROVE  \/ /\ R!Position(name) = 0
            /\ \A i \in 1 .. Len(list) : files[list[i]].name # name
         \/ /\ R!Position(name) \in 1 .. Len(list)
            /\ files[list[R!Position(name)]].name = name
  <1> DEFINE I == {i \in 1 .. Len(list) : files[list[i]].name = name}
  <1>1. R!Position(name) = IF I # {} THEN R!Min(I) ELSE 0
    BY DEF R!Position, R!SelectInSeq
  <1>2. Len(list) \in Nat
    BY DEF FilesTyped
  <1>3. CASE I = {}
    BY <1>1, <1>3
  <1>4. CASE I # {}
    <2>1. I \in SUBSET Nat
      BY <1>2
    <2> HIDE DEF I
    <2>2. \E n \in I : \A m \in I : n <= m
      BY <1>4, <2>1, SmallestOf
    <2>3. R!Min(I) \in I
      BY <2>2 DEF R!Min
    <2>4. R!Position(name) \in I
      BY <1>1, <1>4, <2>3
    <2>5. QED
      BY <2>4 DEF I
  <1>5. QED
    BY <1>3, <1>4

\* A sequence without one of its places.
LEMMA RemoveFacts ==
  ASSUME NEW S, NEW s \in Seq(S), NEW k \in 1 .. Len(s)
  PROVE  LET r == R!RemoveAt(s, k) IN
         /\ r \in Seq(S)
         /\ Len(r) = Len(s) - 1
         /\ \A i \in 1 .. Len(r) : r[i] = IF i < k THEN s[i] ELSE s[i + 1]
  <1> DEFINE a == SubSeq(s, 1, k - 1)
             b == SubSeq(s, k + 1, Len(s))
  <1>1. Len(s) \in Nat /\ k \in Nat /\ 1 <= k /\ k <= Len(s)
    OBVIOUS
  <1>2. /\ a \in Seq(S) /\ Len(a) = k - 1
        /\ \A i \in 1 .. k - 1 : a[i] = s[i]
    BY <1>1
  <1>3. /\ b \in Seq(S) /\ Len(b) = Len(s) - k
        /\ \A i \in 1 .. Len(s) - k : b[i] = s[k + i]
    BY <1>1
  <1> HIDE DEF a, b
  <1>4. R!RemoveAt(s, k) = a \o b
    BY DEF R!RemoveAt, a, b
  <1>5. a \o b \in Seq(S) /\ Len(a \o b) = Len(s) - 1
    <2>1. a \o b \in Seq(S) /\ Len(a \o b) = Len(a) + Len(b)
      BY <1>2, <1>3, ConcatProperties
    <2>2. QED
      BY <1>1, <1>2, <1>3, <2>1
  <1>6. \A i \in 1 .. Len(s) - 1 :
          (a \o b)[i] = IF i < k THEN s[i] ELSE s[i + 1]
    <2>1. TAKE i \in 1 .. Len(s) - 1
    <2>2. (a \o b)[i] = IF i <= k - 1 THEN a[i] ELSE b[i - (k - 1)]
      BY <1>1, <1>2, <1>3
    <2>3. CASE i < k
      BY <1>1, <1>2, <2>2, <2>3
    <2>4. CASE ~(i < k)
      <3>1. i - (k - 1) \in 1 .. Len(s) - k
        BY <1>1, <2>4
      <3>2. b[i - (k - 1)] = s[k + (i - (k - 1))]
        BY <1>3, <3>1
      <3>3. k + (i - (k - 1)) = i + 1
        BY <1>1
      <3>4. QED
        BY <1>1, <2>2, <2>4, <3>2, <3>3
    <2>5. QED
      BY <2>3, <2>4
  <1>7. QED
    BY <1>4, <1>5, <1>6

LEMMA RemoveElement ==
  ASSUME NEW S, NEW s \in Seq(S), NEW k \in 1 .. Len(s), EachOnce(s)
  PROVE  LET r == R!RemoveAt(s, k) IN
         EachOnce(r) /\ Elements(r) = Elements(s) \ {s[k]}
  <1> DEFINE r == R!RemoveAt(s, k)
             old(i) == IF i < k THEN i ELSE i + 1
  <1>1. /\ Len(s) \in Nat /\ Len(r) = Len(s) - 1
        /\ \A i \in 1 .. Len(r) : r[i] = s[old(i)]
    BY RemoveFacts
  <1>2. \A i \in 1 .. Len(s) - 1 : old(i) \in 1 .. Len(s) /\ old(i) # k
    BY <1>1
  <1>3. \A i, j \in 1 .. Len(s) - 1 : old(i) = old(j) => i = j
    BY <1>1
  <1>4. \A j \in 1 .. Len(s) : j # k => \E i \in 1 .. Len(s) - 1 : old(i) = j
    <2>1. TAKE j \in 1 .. Len(s)
    <2>2. CASE j < k
      BY <1>1, <2>2
    <2>3. CASE j > k
      <3>1. j - 1 \in 1 .. Len(s) - 1 /\ old(j - 1) = j
        BY <1>1, <2>3
      <3>2. QED
        BY <3>1
    <2>4. QED
      BY <1>1, <2>2, <2>3
  <1> HIDE DEF r, old
  <1>5. EachOnce(r)
    BY <1>1, <1>2, <1>3 DEF EachOnce
  <1>6. Elements(r) \subseteq Elements(s) \ {s[k]}
    BY <1>1, <1>2 DEF EachOnce, Elements
  <1>7. Elements(s) \ {s[k]} \subseteq Elements(r)
    <2>1. SUFFICES ASSUME NEW j \in 1 .. Len(s), j # k
                   PROVE  s[j] \in Elements(r)
      BY DEF Elements
    <2>2. PICK i \in 1 .. Len(s) - 1 : old(i) = j
      BY <1>4, <2>1
    <2>3. i \in 1 .. Len(r) /\ r[i] = s[j]
      BY <1>1, <2>2
    <2>4. QED
      BY <2>3 DEF Elements
  <1>8. QED
    BY <1>5, <1>6, <1>7 DEF r

\* With a file that is read the list has its node, at the place that is found.
LEMMA PositionOfReading ==
  ASSUME FilesTyped, ~sharing, NamesApart, Linked, NEW f \in R!Controlled
  PROVE  IF f \in BeingRead
         THEN /\ R!Position(files[f].name) \in 1 .. Len(list)
              /\ list[R!Position(files[f].name)] = f
         ELSE R!Position(files[f].name) = 0
  <1> DEFINE p == R!Position(files[f].name)
  <1>1. /\ Elements(list) = BeingRead
        /\ BeingRead \subseteq R!Controlled
        /\ \A g \in R!Controlled : files[f].name = files[g].name => f = g
    BY DEF Linked, NamesApart, BeingRead, R!Controlled
  <1>2. \A i \in 1 .. Len(list) : list[i] \in BeingRead
    BY <1>1 DEF Elements
  <1>3. \/ p = 0 /\ \A i \in 1 .. Len(list) : files[list[i]].name # files[f].name
        \/ p \in 1 .. Len(list) /\ files[list[p]].name = files[f].name
    BY PositionFound
  <1> HIDE DEF p
  <1>4. p \in 1 .. Len(list) => list[p] = f
    BY <1>1, <1>2, <1>3
  <1>5. CASE f \in BeingRead
    <2>1. \E i \in 1 .. Len(list) : list[i] = f
      BY <1>1, <1>5 DEF Elements
    <2>2. QED
      BY <1>3, <1>4, <1>5, <2>1 DEF p
  <1>6. CASE f \notin BeingRead
    BY <1>2, <1>3, <1>4, <1>6 DEF p
  <1>7. QED
    BY <1>5, <1>6

\* What the list is said to be follows from the invariant.
LEMMA ListIsExact == ReclenInv => R!ListExact
  <1> SUFFICES ASSUME ReclenInv, ~sharing
               PROVE  /\ ~broken
                      /\ R!ToSet(list) = {f \in R!Controlled : files[f].state = "read"}
                      /\ R!IsInjective(list)
                      /\ \A f \in R!ToSet(list) : list[R!Position(files[f].name)] = f
    BY DEF R!ListExact
  <1>1. FilesTyped /\ NamesApart /\ Linked
    BY DEF ReclenInv
  <1>2. ~broken /\ Elements(list) = BeingRead /\ EachOnce(list)
    BY <1>1 DEF Linked
  <1>3. DOMAIN list = 1 .. Len(list)
    BY <1>1 DEF FilesTyped
  <1>4. R!ToSet(list) = BeingRead
    BY <1>2, <1>3 DEF R!ToSet, Elements
  <1>5. R!IsInjective(list)
    BY <1>2, <1>3 DEF R!IsInjective, EachOnce
  <1>6. BeingRead = {f \in R!Controlled : files[f].state = "read"}
    BY DEF BeingRead, R!Controlled
  <1>7. \A f \in BeingRead : list[R!Position(files[f].name)] = f
    BY <1>1, <1>6, PositionOfReading
  <1>8. QED
    BY <1>2, <1>4, <1>5, <1>6, <1>7

LEMMA SmallerOf ==
  ASSUME NEW x \in Nat, NEW y \in Nat
  PROVE  R!Min({x, y}) = IF x <= y THEN x ELSE y
  <1>1. \E m \in {x, y} : \A z \in {x, y} : m <= z
    OBVIOUS
  <1>2. R!Min({x, y}) \in {x, y} /\ \A z \in {x, y} : R!Min({x, y}) <= z
    BY <1>1 DEF R!Min
  <1>3. QED
    BY <1>2

LEMMA LargerOf ==
  ASSUME NEW x \in Nat, NEW y \in Nat
  PROVE  R!Max({x, y}) = IF x >= y THEN x ELSE y
  <1>1. \E m \in {x, y} : \A z \in {x, y} : m >= z
    OBVIOUS
  <1>2. R!Max({x, y}) \in {x, y} /\ \A z \in {x, y} : R!Max({x, y}) >= z
    BY <1>1 DEF R!Max
  <1>3. QED
    BY <1>2

LEMMA ReclenInitInv == R!ReclenInit => ReclenInv
  <1> SUFFICES ASSUME R!ReclenInit PROVE ReclenInv
    OBVIOUS
  <1>0. /\ reclen \in Lengths /\ files = <<>> /\ list = <<>>
        /\ buf = [len |-> 0, refs |-> 0] /\ record = NULL
        /\ sharing = FALSE /\ broken = FALSE
    BY DEF R!ReclenInit
  <1> USE <1>0
  <1>1. FilesTyped
    <2>1. \A S : <<>> \in Seq(S)
      OBVIOUS
    <2>2. files \in Seq(Files)
      BY <2>1, Zenon
    <2>3. list \in Seq(1 .. Len(files))
      BY <2>1, Zenon
    <2>4. QED
      BY <2>2, <2>3, Zenon DEF FilesTyped
  <1>2. R!Controlled = {} /\ BeingRead = {}
    BY DEF R!Controlled, BeingRead
  <1>3. BufferTyped /\ R!BufferShared
    <2>1. buf.len = 0 /\ buf.refs = 0 /\ BufferTyped
      BY DEF BufferTyped
    <2>2. Cardinality(R!Controlled) = 0
      BY <1>2, FS_EmptySet
    <2>3. QED
      BY <2>1, <2>2, SameCardinality DEF R!BufferShared
  <1>4. NamesApart
    BY <1>2 DEF NamesApart
  <1>5. Linked
    BY <1>2 DEF Linked, Elements, EachOnce
  <1>6. QED
    BY <1>1, <1>3, <1>4, <1>5 DEF ReclenInv

\* Numbers of the reader.
LEMMA GrownFacts ==
  ASSUME FilesTyped, BufferTyped, reclen # 0
  PROVE  /\ reclen \in Nat \ {0}
         /\ R!Grown(buf.len) \in Nat
         /\ R!Grown(buf.len) >= reclen
         /\ R!Grown(buf.len) > 0
  <1>1. reclen \in Nat /\ buf.len \in Nat
    BY LengthsAssumption DEF FilesTyped, BufferTyped
  <1>2. R!Grown(buf.len) = IF buf.len >= reclen THEN buf.len ELSE reclen
    BY <1>1, LargerOf DEF R!Grown
  <1>3. QED
    BY <1>1, <1>2

\* A file in another state, the others as they were.
LEMMA OneFileChanged ==
  ASSUME FilesTyped, NEW f \in 1 .. Len(files), NEW x,
         x \in [name : {files[f].name}, left : Nat, state : FileStates],
         files' = [files EXCEPT ![f] = x]
  PROVE  /\ files' \in Seq(Files)
         /\ Len(files') = Len(files)
         /\ files'[f] = x
         /\ \A g \in 1 .. Len(files) : files'[g].name = files[g].name
         /\ \A g \in 1 .. Len(files) : g # f => files'[g] = files[g]
  <1>1. files \in Seq(Files)
    BY DEF FilesTyped
  <1>2. files[f] \in Files
    BY <1>1
  <1>3. x \in Files /\ x.name = files[f].name
    BY <1>2 DEF Files
  <1>4. QED
    BY <1>1, <1>3

\* What follows when the same files have an iobuf and are read as before.
LEMMA SameFiles ==
  ASSUME ReclenInv, Len(files') = Len(files),
         \A f \in 1 .. Len(files) : /\ files'[f].name = files[f].name
                                    /\ files'[f].state = files[f].state
  PROVE  /\ R!Controlled' = R!Controlled /\ BeingRead' = BeingRead
         /\ sharing' = sharing => NamesApart'
         /\ UNCHANGED <<list, sharing, broken>> => Linked'
  <1>1. R!Controlled' = R!Controlled /\ BeingRead' = BeingRead
    BY DEF R!Controlled, BeingRead
  <1>2. ASSUME sharing' = sharing PROVE NamesApart'
    BY <1>1, <1>2 DEF ReclenInv, NamesApart, R!Controlled
  <1>3. ASSUME UNCHANGED <<list, sharing, broken>> PROVE Linked'
    <2>1. Elements(list)' = Elements(list) /\ (EachOnce(list)' <=> EachOnce(list))
      BY <1>3 DEF Elements, EachOnce
    <2>2. QED
      BY <1>1, <1>3, <2>1 DEF ReclenInv, Linked
  <1>4. QED
    BY <1>1, <1>2, <1>3

LEMMA SetReclenInv ==
  ASSUME ReclenInv, R!SetReclen, UNCHANGED broken
  PROVE  ReclenInv'
  <1>1. /\ reclen' \in Lengths /\ record' = NULL
        /\ UNCHANGED <<files, list, buf, sharing, broken>>
    BY DEF R!SetReclen
  <1>2. FilesTyped' /\ BufferTyped'
    BY <1>1 DEF ReclenInv, FilesTyped, BufferTyped
  <1>3. R!Controlled' = R!Controlled /\ NamesApart' /\ Linked'
    BY <1>1, SameFiles
  <1>4. R!BufferShared'
    BY <1>1, <1>3, SameCardinality DEF ReclenInv, R!BufferShared
  <1>5. QED
    BY <1>2, <1>3, <1>4 DEF ReclenInv

LEMMA GetRecordInv ==
  ASSUME ReclenInv, R!GetRecord, UNCHANGED broken
  PROVE  ReclenInv'
  <1>1. FilesTyped /\ BufferTyped /\ R!BufferShared
    BY DEF ReclenInv
  <1>2. PICK f \in R!Controlled :
          /\ files[f].state = "read"
          /\ IF reclen = 0
             THEN record' = NULL /\ UNCHANGED <<files, buf>>
             ELSE /\ buf' = [buf EXCEPT !.len = R!Grown(@)]
                  /\ \/ \E n \in 1 .. R!Min({reclen, files[f].left}) :
                          /\ record' = [of |-> f, len |-> n]
                          /\ files' = [files EXCEPT ![f].left = @ - n]
                     \/ record' = NULL /\ UNCHANGED files
    BY DEF R!GetRecord
  <1>3. UNCHANGED <<reclen, list, sharing, broken>>
    BY DEF R!GetRecord
  <1>4. f \in 1 .. Len(files) /\ files[f] \in Files
    BY <1>1 DEF R!Controlled, FilesTyped
  <1>5. CASE reclen = 0
    <2>1. record' = NULL /\ UNCHANGED <<files, buf>>
      BY <1>2, <1>5
    <2>2. R!Controlled' = R!Controlled /\ NamesApart' /\ Linked'
      BY <1>3, <2>1, SameFiles
    <2>3. FilesTyped' /\ BufferTyped' /\ R!BufferShared'
      BY <1>1, <1>3, <2>1, <2>2, SameCardinality
      DEF FilesTyped, BufferTyped, R!BufferShared
    <2>4. QED
      BY <2>2, <2>3 DEF ReclenInv
  <1>6. CASE reclen # 0
    <2> DEFINE n == record'.len
    <2>1. /\ buf' = [buf EXCEPT !.len = R!Grown(buf.len)]
          /\ \/ /\ n \in 1 .. R!Min({reclen, files[f].left})
                /\ files' = [files EXCEPT ![f] = [files[f] EXCEPT !.left = files[f].left - n]]
             \/ record' = NULL /\ UNCHANGED files
      <3>1. buf' = [buf EXCEPT !.len = R!Grown(buf.len)]
        BY <1>2, <1>6
      <3>2. CASE \E k \in 1 .. R!Min({reclen, files[f].left}) :
                   /\ record' = [of |-> f, len |-> k]
                   /\ files' = [files EXCEPT ![f].left = @ - k]
        <4>1. PICK k \in 1 .. R!Min({reclen, files[f].left}) :
                   /\ record' = [of |-> f, len |-> k]
                   /\ files' = [files EXCEPT ![f].left = @ - k]
          BY <3>2
        <4>2. n = k
          BY <4>1
        <4>3. files' = [files EXCEPT ![f] = [files[f] EXCEPT !.left = files[f].left - k]]
          BY <4>1
        <4>4. QED
          BY <3>1, <4>1, <4>2, <4>3, Zenon
      <3>3. QED
        BY <1>2, <1>6, <3>1, <3>2
    <2>2. /\ reclen \in Nat /\ files[f].left \in Nat
          /\ R!Grown(buf.len) \in Nat
          /\ R!Grown(buf.len) >= reclen /\ R!Grown(buf.len) > 0
      BY <1>1, <1>4, <1>6, GrownFacts DEF Files
    <2>3. R!Min({reclen, files[f].left}) \in Nat
          /\ R!Min({reclen, files[f].left}) <= reclen
          /\ R!Min({reclen, files[f].left}) <= files[f].left
      BY <2>2, SmallerOf
    <2> HIDE DEF n
    <2>4. /\ buf' \in [len : Nat, refs : Nat] /\ buf'.len = R!Grown(buf.len)
          /\ buf'.refs = buf.refs
      BY <1>1, <2>1, <2>2 DEF BufferTyped
    <2>5. record' # NULL => n <= buf'.len
      BY <2>1, <2>2, <2>3, <2>4
    <2>6. /\ files' \in Seq(Files)
          /\ Len(files') = Len(files)
          /\ \A g \in 1 .. Len(files) : /\ files'[g].name = files[g].name
                                        /\ files'[g].state = files[g].state
      <3>1. CASE UNCHANGED files
        BY <1>1, <3>1 DEF FilesTyped
      <3>2. CASE /\ n \in 1 .. R!Min({reclen, files[f].left})
                 /\ files' = [files EXCEPT ![f] = [files[f] EXCEPT !.left = files[f].left - n]]
        <4> DEFINE x == [files[f] EXCEPT !.left = files[f].left - n]
        <4>1. files[f].left - n \in Nat
          BY <2>2, <2>3, <3>2
        <4>2. /\ x \in [name : {files[f].name}, left : Nat, state : FileStates]
              /\ x.state = files[f].state
          BY <1>4, <4>1 DEF Files
        <4> HIDE DEF x
        <4>3. files' = [files EXCEPT ![f] = x]
          BY <3>2 DEF x
        <4>4. /\ files' \in Seq(Files)
              /\ Len(files') = Len(files)
              /\ files'[f] = x
              /\ \A g \in 1 .. Len(files) : files'[g].name = files[g].name
              /\ \A g \in 1 .. Len(files) : g # f => files'[g] = files[g]
          BY <1>1, <1>4, <4>2, <4>3, OneFileChanged
        <4>5. QED
          BY <4>2, <4>4
      <3>3. QED
        BY <2>1, <3>1, <3>2
    <2>7. R!Controlled' = R!Controlled /\ NamesApart' /\ Linked'
      BY <1>3, <2>6, SameFiles
    <2>8. FilesTyped'
      BY <1>1, <1>3, <2>6 DEF FilesTyped
    <2>9. f \in R!Controlled => Cardinality(R!Controlled) > 0
      BY <1>1, ControlledFinite, FS_EmptySet
    <2>10. R!BufferShared'
      BY <1>1, <1>2, <2>2, <2>4, <2>5, <2>7, <2>9, SameCardinality
      DEF R!BufferShared, n
    <2>11. QED
      BY <2>4, <2>7, <2>8, <2>10 DEF ReclenInv, BufferTyped
  <1>7. QED
    BY <1>5, <1>6

\* A file more, in the list or not.
LEMMA FileAdded ==
  ASSUME FilesTyped, NEW x \in Files, files' = Append(files, x)
  PROVE  /\ Len(files) \in Nat
         /\ files' \in Seq(Files)
         /\ Len(files') = Len(files) + 1
         /\ files'[Len(files) + 1] = x
         /\ \A f \in 1 .. Len(files) : files'[f] = files[f]
         /\ R!Controlled' =
              IF x.state \in {"read", "dropped"}
              THEN R!Controlled \cup {Len(files) + 1} ELSE R!Controlled
         /\ BeingRead' = IF x.state = "read"
                       THEN BeingRead \cup {Len(files) + 1} ELSE BeingRead
  <1>1. files \in Seq(Files)
    BY DEF FilesTyped
  <1>2. /\ Len(files) \in Nat
        /\ files' \in Seq(Files)
        /\ Len(files') = Len(files) + 1
        /\ files'[Len(files) + 1] = x
        /\ \A f \in 1 .. Len(files) : files'[f] = files[f]
    BY <1>1
  <1>3. \A f : f \in 1 .. Len(files') <=> f \in 1 .. Len(files) \/ f = Len(files) + 1
    BY <1>2
  <1>4. QED
    BY <1>2, <1>3 DEF R!Controlled, BeingRead

\* The list with a node more in front.
LEMMA NodeAdded ==
  ASSUME NEW S, NEW s \in Seq(S), NEW x \in S
  PROVE  LET r == <<x>> \o s IN
         /\ r \in Seq(S)
         /\ Elements(r) = Elements(s) \cup {x}
         /\ EachOnce(s) /\ x \notin Elements(s) => EachOnce(r)
  <1> DEFINE r == <<x>> \o s
  <1>1. <<x>> \in Seq(S) /\ Len(<<x>>) = 1 /\ <<x>>[1] = x
    OBVIOUS
  <1>2. Len(s) \in Nat
    OBVIOUS
  <1>3. /\ r \in Seq(S) /\ Len(r) = 1 + Len(s)
        /\ \A i \in 1 .. 1 + Len(s) :
             r[i] = IF i <= 1 THEN <<x>>[i] ELSE s[i - 1]
    BY <1>1, ConcatProperties
  <1> HIDE DEF r
  <1>4. /\ r[1] = x
        /\ \A i \in 2 .. 1 + Len(s) : i - 1 \in 1 .. Len(s) /\ r[i] = s[i - 1]
    BY <1>1, <1>2, <1>3
  <1>5. \A i \in 1 .. Len(s) : i + 1 \in 2 .. 1 + Len(s) /\ r[i + 1] = s[i]
    BY <1>2, <1>4
  <1>6. Elements(r) \subseteq Elements(s) \cup {x}
    BY <1>2, <1>3, <1>4 DEF Elements
  <1>7. Elements(s) \cup {x} \subseteq Elements(r)
    <2>1. x \in Elements(r)
      <3>1. 1 \in 1 .. Len(r)
        BY <1>2, <1>3
      <3>2. QED
        BY <1>4, <3>1 DEF Elements
    <2>2. ASSUME NEW i \in 1 .. Len(s) PROVE s[i] \in Elements(r)
      <3>1. i + 1 \in 1 .. Len(r) /\ r[i + 1] = s[i]
        BY <1>2, <1>3, <1>5
      <3>2. QED
        BY <3>1 DEF Elements
    <2>3. QED
      BY <2>1, <2>2 DEF Elements
  <1>8. ASSUME EachOnce(s), x \notin Elements(s) PROVE EachOnce(r)
    <2> SUFFICES ASSUME NEW i \in 1 .. Len(r), NEW j \in 1 .. Len(r), i < j
                 PROVE  r[i] # r[j]
      <3>1. SUFFICES ASSUME \A i, j \in 1 .. Len(r) : i < j => r[i] # r[j]
                     PROVE  \A i, j \in 1 .. Len(r) : r[i] = r[j] => i = j
        BY Zenon DEF EachOnce
      <3>2. TAKE i \in 1 .. Len(r), j \in 1 .. Len(r)
      <3>3. i < j \/ j < i \/ i = j
        BY <1>2, <1>3
      <3>4. QED
        BY <3>1, <3>3
    <2>1. SUFFICES ASSUME r[i] = r[j] PROVE FALSE
      OBVIOUS
    <2>2. j \in 2 .. 1 + Len(s) /\ j - 1 \in 1 .. Len(s) /\ r[j] = s[j - 1]
      BY <1>2, <1>3, <1>4, <2>1
    <2>3. CASE i = 1
      BY <1>4, <1>8, <2>1, <2>2, <2>3 DEF Elements
    <2>4. CASE i # 1
      <3>1. i - 1 \in 1 .. Len(s) /\ r[i] = s[i - 1]
        BY <1>2, <1>3, <1>4, <2>4
      <3>2. i - 1 = j - 1
        BY <1>8, <2>1, <2>2, <3>1 DEF EachOnce
      <3>3. QED
        BY <1>2, <2>1, <3>2
    <2>5. QED
      BY <2>3, <2>4
  <1>9. QED
    BY <1>3, <1>6, <1>7, <1>8 DEF r

LEMMA OpenInv ==
  ASSUME ReclenInv, R!Open, UNCHANGED broken
  PROVE  ReclenInv'
  <1>1. /\ FilesTyped /\ BufferTyped /\ R!BufferShared
        /\ NamesApart /\ Linked
    BY DEF ReclenInv
  <1>2. record' = NULL /\ reclen' = reclen /\ broken' = broken
    BY DEF R!Open
  <1>3. FileSize \in Nat /\ reclen \in Nat /\ Len(files) \in Nat
    BY <1>1, LengthsAssumption DEF FilesTyped
  <1>4. R!Controlled \subseteq 1 .. Len(files) /\ BeingRead \subseteq R!Controlled
    BY DEF R!Controlled, BeingRead
  <1>5. \A S, T, q : q \in Seq(S) /\ S \subseteq T => q \in Seq(T)
    OBVIOUS
  <1>6. CASE reclen = 0
    <2>1. PICK name \in FileNames :
            /\ files' = Append(files, [name |-> name, left |-> FileSize,
                                       state |-> "gawk"])
            /\ UNCHANGED <<list, buf, sharing>>
      BY <1>6 DEF R!Open
    <2> DEFINE x == [name |-> name, left |-> FileSize, state |-> "gawk"]
    <2>2. x \in Files /\ x.state = "gawk"
      BY <1>3 DEF Files, FileStates
    <2>3. files' = Append(files, x)
      BY <2>1
    <2> HIDE DEF x
    <2>4. /\ files' \in Seq(Files) /\ Len(files') = Len(files) + 1
          /\ \A f \in 1 .. Len(files) : files'[f] = files[f]
          /\ R!Controlled' = R!Controlled /\ BeingRead' = BeingRead
      BY <1>1, <2>2, <2>3, FileAdded
    <2>5. list' \in Seq(1 .. Len(files'))
      <3>1. list \in Seq(1 .. Len(files))
        BY <1>1 DEF FilesTyped
      <3>2. 1 .. Len(files) \subseteq 1 .. Len(files')
        BY <1>3, <2>4
      <3>3. QED
        BY <1>5, <2>1, <3>1, <3>2, Zenon
    <2>6. FilesTyped'
      BY <1>1, <1>2, <2>1, <2>4, <2>5 DEF FilesTyped
    <2>7. BufferTyped' /\ R!BufferShared'
      BY <1>1, <1>2, <2>1, <2>4, SameCardinality DEF BufferTyped, R!BufferShared
    <2>8. NamesApart'
      BY <1>1, <1>4, <2>1, <2>4 DEF NamesApart
    <2>9. Linked'
      BY <1>1, <1>2, <2>1, <2>4 DEF Linked, Elements, EachOnce
    <2>10. QED
      BY <2>6, <2>7, <2>8, <2>9 DEF ReclenInv
  <1>7. CASE reclen # 0
    <2>1. PICK name \in FileNames :
            /\ files' = Append(files, [name |-> name, left |-> FileSize,
                                       state |-> "read"])
            /\ list' = <<Len(files) + 1>> \o list
            /\ buf' = [len |-> IF buf.refs = 0 THEN reclen ELSE buf.len,
                       refs |-> buf.refs + 1]
            /\ sharing' = (sharing \/ \E f \in R!Controlled :
                                        files[f].name = name)
      BY <1>7 DEF R!Open
    <2> DEFINE x == [name |-> name, left |-> FileSize, state |-> "read"]
               new == Len(files) + 1
    <2>2. x \in Files /\ x.state = "read" /\ x.name = name
      BY <1>3 DEF Files, FileStates
    <2>3. files' = Append(files, x)
      BY <2>1
    <2> HIDE DEF x
    <2>4. /\ files' \in Seq(Files) /\ Len(files') = new /\ files'[new] = x
          /\ \A f \in 1 .. Len(files) : files'[f] = files[f]
          /\ R!Controlled' = R!Controlled \cup {new}
          /\ BeingRead' = BeingRead \cup {new}
      BY <1>1, <2>2, <2>3, FileAdded
    <2>5. new \notin R!Controlled /\ new \in 1 .. new
      BY <1>3, <1>4
    <2>6. list \in Seq(1 .. new)
      <3>1. list \in Seq(1 .. Len(files))
        BY <1>1 DEF FilesTyped
      <3>2. 1 .. Len(files) \subseteq 1 .. new
        BY <1>3
      <3>3. QED
        BY <1>5, <3>1, <3>2, Zenon
    <2> HIDE DEF new
    <2>7. /\ list' \in Seq(1 .. new)
          /\ Elements(list') = Elements(list) \cup {new}
          /\ EachOnce(list) /\ new \notin Elements(list) => EachOnce(list')
      <3>1. new \in 1 .. new
        BY <1>1, <1>3 DEF new
      <3>2. list' = <<new>> \o list
        BY <2>1 DEF new
      <3>3. QED
        BY <2>6, <3>1, <3>2, NodeAdded
    <2>8. sharing' \in BOOLEAN /\ (~sharing' => ~sharing)
          /\ (~sharing' => \A f \in R!Controlled : files[f].name # name)
      BY <1>1, <2>1 DEF FilesTyped
    <2>9. FilesTyped'
      BY <1>1, <1>2, <2>4, <2>7, <2>8 DEF FilesTyped
    <2>10. BufferTyped' /\ R!BufferShared'
      <3>1. /\ Cardinality(R!Controlled') = Cardinality(R!Controlled) + 1
            /\ Cardinality(R!Controlled) \in Nat
        BY <1>1, <2>4, <2>5, ControlledFinite, FS_AddElement
      <3>2. /\ buf.refs = Cardinality(R!Controlled)
            /\ buf.len > 0 <=> buf.refs > 0
            /\ buf.len \in Nat /\ buf.refs \in Nat
        BY <1>1, SameCardinality DEF BufferTyped, R!BufferShared
      <3>3. /\ buf'.len = IF buf.refs = 0 THEN reclen ELSE buf.len
            /\ buf'.refs = buf.refs + 1
            /\ buf' = [len |-> buf'.len, refs |-> buf'.refs]
        BY <2>1
      <3>4. buf'.len \in Nat /\ buf'.len > 0
        BY <1>3, <1>7, <3>2, <3>3
      <3>5. BufferTyped'
        BY <3>2, <3>3, <3>4 DEF BufferTyped
      <3>6. QED
        BY <1>2, <3>1, <3>2, <3>3, <3>4, <3>5, SameCardinality DEF R!BufferShared
    <2>11. NamesApart'
      <3>1. \A f \in R!Controlled : files'[f].name = files[f].name
        BY <1>4, <2>4
      <3>2. QED
        BY <1>1, <2>2, <2>4, <2>8, <3>1 DEF NamesApart
    <2>12. Linked'
      BY <1>1, <1>2, <1>4, <2>4, <2>5, <2>7, <2>8 DEF Linked
    <2>13. QED
      BY <2>9, <2>10, <2>11, <2>12 DEF ReclenInv
  <1>8. QED
    BY <1>6, <1>7

\* A file that is no longer read, and the list without the node of its name.
LEMMA NodeRemoved ==
  ASSUME FilesTyped, NEW name
  PROVE  R!Unlinked(name) \in Seq(1 .. Len(files))
  <1>1. list \in Seq(1 .. Len(files))
    BY DEF FilesTyped
  <1>2. CASE R!Position(name) = 0
    BY <1>1, <1>2 DEF R!Unlinked
  <1>3. CASE R!Position(name) # 0
    <2>1. R!Position(name) \in 1 .. Len(list)
      BY <1>3, PositionFound
    <2>2. R!RemoveAt(list, R!Position(name)) \in Seq(1 .. Len(files))
      BY <1>1, <2>1, RemoveFacts
    <2>3. QED
      BY <1>3, <2>2 DEF R!Unlinked
  <1>4. QED
    BY <1>2, <1>3

LEMMA DropInv ==
  ASSUME ReclenInv, R!Drop, UNCHANGED broken
  PROVE  ReclenInv'
  <1>1. /\ FilesTyped /\ BufferTyped /\ R!BufferShared
        /\ NamesApart /\ Linked
    BY DEF ReclenInv
  <1>2. PICK name \in FileNames :
          /\ R!WalkDefined(name)
          /\ list' = R!Unlinked(name)
          /\ files' = [f \in 1 .. Len(files) |->
                         IF R!Position(name) # 0 /\ f = list[R!Position(name)]
                         THEN [files[f] EXCEPT !.state = "dropped"]
                         ELSE files[f]]
    BY DEF R!Drop
  <1>3. record' = NULL /\ UNCHANGED <<reclen, buf, sharing, broken>>
    BY DEF R!Drop
  <1> DEFINE p == R!Position(name)
             g == list[p]
  <1>4. list \in Seq(1 .. Len(files)) /\ files \in Seq(Files) /\ Len(files) \in Nat
    BY <1>1 DEF FilesTyped
  <1>5. p = 0 \/ (p \in 1 .. Len(list) /\ g \in R!Controlled)
    <2>1. p = 0 \/ p \in 1 .. Len(list)
      BY <1>1, PositionFound
    <2>2. ASSUME p # 0 PROVE g \in R!Controlled
      BY <1>2, <1>4, <2>1, <2>2 DEF R!WalkDefined
    <2>3. QED
      BY <2>1, <2>2
  <1>6. list' \in Seq(1 .. Len(files))
    BY <1>1, <1>2, NodeRemoved
  <1>7. CASE p = 0
    <2>1. files' = files
      BY <1>2, <1>4, <1>7
    <2>2. list' = list
      BY <1>2, <1>7 DEF R!Unlinked
    <2>3. R!Controlled' = R!Controlled /\ NamesApart' /\ Linked'
      BY <1>3, <2>1, <2>2, SameFiles
    <2>4. FilesTyped' /\ BufferTyped' /\ R!BufferShared'
      BY <1>1, <1>3, <2>1, <2>2, <2>3, SameCardinality
      DEF FilesTyped, BufferTyped, R!BufferShared
    <2>5. QED
      BY <2>3, <2>4 DEF ReclenInv
  <1>8. CASE p # 0
    <2>1. p \in 1 .. Len(list) /\ g \in R!Controlled /\ g \in 1 .. Len(files)
      BY <1>5, <1>8 DEF R!Controlled
    <2> DEFINE x == [files[g] EXCEPT !.state = "dropped"]
    <2>2. files[g] \in Files
      BY <1>4, <2>1
    <2>3. /\ x \in [name : {files[g].name}, left : Nat, state : FileStates]
          /\ x.state = "dropped"
      BY <2>2 DEF Files, FileStates
    <2>4. files' = [files EXCEPT ![g] = x]
      <3>1. files' = [f \in 1 .. Len(files) |-> IF f = g THEN x ELSE files[f]]
        BY <1>2, <1>8
      <3>2. files = [f \in 1 .. Len(files) |-> files[f]]
        BY <1>4
      <3> HIDE DEF x, g
      <3>3. QED
        BY <2>1, <3>1, <3>2
    <2>5. list' = R!RemoveAt(list, p)
      BY <1>2, <1>8 DEF R!Unlinked
    <2> HIDE DEF x, g, p
    <2>6. /\ files' \in Seq(Files) /\ Len(files') = Len(files)
          /\ files'[g] = x
          /\ \A f \in 1 .. Len(files) : files'[f].name = files[f].name
          /\ \A f \in 1 .. Len(files) : f # g => files'[f] = files[f]
      BY <1>1, <2>1, <2>3, <2>4, OneFileChanged
    <2>7. R!Controlled' = R!Controlled
      BY <2>1, <2>3, <2>6 DEF R!Controlled
    <2>8. BeingRead' = BeingRead \ {g}
      BY <2>1, <2>3, <2>6 DEF BeingRead
    <2>9. FilesTyped'
      BY <1>1, <1>3, <1>6, <2>6 DEF FilesTyped
    <2>10. BufferTyped' /\ R!BufferShared'
      BY <1>1, <1>3, <2>7, SameCardinality DEF BufferTyped, R!BufferShared
    <2>11. NamesApart'
      BY <1>1, <1>3, <2>6, <2>7 DEF NamesApart, R!Controlled
    <2>12. Linked'
      <3>1. EachOnce(list) =>
              EachOnce(list') /\ Elements(list') = Elements(list) \ {g}
        BY <1>4, <2>1, <2>5, RemoveElement DEF g
      <3>2. QED
        BY <1>1, <1>3, <2>8, <3>1 DEF Linked
    <2>13. QED
      BY <2>9, <2>10, <2>11, <2>12 DEF ReclenInv
  <1>9. QED
    BY <1>7, <1>8

LEMMA CloseInv ==
  ASSUME ReclenInv, R!Close, UNCHANGED broken
  PROVE  ReclenInv'
  <1>1. /\ FilesTyped /\ BufferTyped /\ R!BufferShared
        /\ NamesApart /\ Linked
    BY DEF ReclenInv
  <1>2. PICK g \in R!Controlled :
          /\ R!WalkDefined(files[g].name)
          /\ list' = R!Unlinked(files[g].name)
          /\ files' = [files EXCEPT ![g].state = "closed"]
    BY DEF R!Close
  <1>3. /\ record' = NULL /\ UNCHANGED <<reclen, sharing, broken>>
        /\ buf' = IF buf.refs = 1 THEN [len |-> 0, refs |-> 0]
                  ELSE [buf EXCEPT !.refs = @ - 1]
    BY DEF R!Close
  <1>4. list \in Seq(1 .. Len(files)) /\ files \in Seq(Files) /\ Len(files) \in Nat
    BY <1>1 DEF FilesTyped
  <1>5. g \in 1 .. Len(files) /\ files[g] \in Files
    BY <1>4 DEF R!Controlled
  <1>6. list' \in Seq(1 .. Len(files))
    BY <1>1, <1>2, NodeRemoved
  <1> DEFINE p == R!Position(files[g].name)
             x == [files[g] EXCEPT !.state = "closed"]
  <1>7. /\ x \in [name : {files[g].name}, left : Nat, state : FileStates]
        /\ x.state = "closed"
    BY <1>5 DEF Files, FileStates
  <1>8. files' = [files EXCEPT ![g] = x]
    BY <1>2
  <1> HIDE DEF x
  <1>9. /\ files' \in Seq(Files) /\ Len(files') = Len(files)
        /\ files'[g] = x
        /\ \A f \in 1 .. Len(files) : files'[f].name = files[f].name
        /\ \A f \in 1 .. Len(files) : f # g => files'[f] = files[f]
    BY <1>1, <1>5, <1>7, <1>8, OneFileChanged
  <1>10. R!Controlled' = R!Controlled \ {g}
    BY <1>5, <1>7, <1>9 DEF R!Controlled
  <1>11. BeingRead' = BeingRead \ {g}
    BY <1>5, <1>7, <1>9 DEF BeingRead
  <1>12. FilesTyped'
    BY <1>1, <1>3, <1>6, <1>9 DEF FilesTyped
  <1>13. BufferTyped' /\ R!BufferShared'
    <2>1. /\ buf.refs = Cardinality(R!Controlled)
          /\ buf.len > 0 <=> buf.refs > 0
          /\ buf.len \in Nat /\ buf.refs \in Nat
      BY <1>1, SameCardinality DEF BufferTyped, R!BufferShared
    <2>2. /\ IsFiniteSet(R!Controlled)
          /\ Cardinality(R!Controlled') = Cardinality(R!Controlled) - 1
      BY <1>1, <1>2, <1>10, ControlledFinite, FS_RemoveElement
    <2>3. buf.refs > 0
      BY <1>1, <1>2, <2>1, <2>2, ControlledFinite, FS_EmptySet
    <2>4. /\ buf'.refs = buf.refs - 1
          /\ buf'.len = IF buf.refs = 1 THEN 0 ELSE buf.len
          /\ BufferTyped'
      BY <1>1, <1>3, <2>1, <2>3 DEF BufferTyped
    <2>5. QED
      BY <1>3, <2>1, <2>2, <2>3, <2>4, SameCardinality DEF R!BufferShared
  <1>14. NamesApart'
    <2>1. \A f \in R!Controlled' : f \in R!Controlled /\ files'[f].name = files[f].name
      BY <1>9, <1>10 DEF R!Controlled
    <2>2. QED
      BY <1>1, <1>3, <2>1 DEF NamesApart
  <1>15. Linked'
    <2>1. SUFFICES ASSUME ~sharing
                   PROVE  Elements(list') = Elements(list) \ {g} /\ EachOnce(list')
      BY <1>1, <1>3, <1>11 DEF Linked
    <2>2. Elements(list) = BeingRead /\ EachOnce(list)
      BY <1>1, <2>1 DEF Linked
    <2>3. IF g \in BeingRead THEN p \in 1 .. Len(list) /\ list[p] = g ELSE p = 0
      BY <1>1, <1>2, <2>1, PositionOfReading
    <2> HIDE DEF p
    <2>4. CASE g \in BeingRead
      <3>1. p # 0
        BY <1>4, <2>3, <2>4
      <3>2. list' = R!RemoveAt(list, p)
        BY <1>2, <3>1 DEF R!Unlinked, p
      <3>3. QED
        BY <1>4, <2>2, <2>3, <2>4, <3>2, RemoveElement
    <2>5. CASE g \notin BeingRead
      <3>1. list' = list
        BY <1>2, <2>3, <2>5 DEF R!Unlinked, p
      <3>2. QED
        BY <2>2, <2>5, <3>1
    <2>6. QED
      BY <2>4, <2>5
  <1>16. QED
    BY <1>12, <1>13, <1>14, <1>15 DEF ReclenInv

\* While names are apart no freed node is read.
LEMMA ReadFreedNodeInv ==
  ASSUME ReclenInv, R!ReadFreedNode
  PROVE  ReclenInv'
  <1>1. /\ FilesTyped /\ BufferTyped /\ R!BufferShared
        /\ NamesApart /\ Linked
    BY DEF ReclenInv
  <1>2. PICK name \in FileNames : ~R!WalkDefined(name)
    BY DEF R!ReadFreedNode
  <1>3. broken' = TRUE /\ UNCHANGED <<reclen, files, list, buf, record, sharing>>
    BY DEF R!ReadFreedNode
  <1>4. R!Controlled' = R!Controlled /\ NamesApart'
    BY <1>3, SameFiles
  <1>5. FilesTyped' /\ BufferTyped' /\ R!BufferShared'
    BY <1>1, <1>3, <1>4, SameCardinality DEF FilesTyped, BufferTyped, R!BufferShared
  <1>6. sharing
    <2>1. SUFFICES ASSUME ~sharing PROVE FALSE
      OBVIOUS
    <2>2. PICK i \in 1 .. Len(list) : list[i] \notin R!Controlled
      BY <1>2 DEF R!WalkDefined
    <2>3. list[i] \in BeingRead
      BY <1>1, <2>1 DEF Linked, Elements
    <2>4. QED
      BY <2>2, <2>3 DEF BeingRead, R!Controlled
  <1>7. Linked'
    BY <1>3, <1>6 DEF Linked
  <1>8. QED
    BY <1>4, <1>5, <1>7 DEF ReclenInv

LEMMA ReclenUnchanged ==
  ASSUME ReclenInv, UNCHANGED reclenVars
  PROVE  ReclenInv'
  <1>1. UNCHANGED <<reclen, files, list, buf, record, sharing, broken>>
    BY DEF reclenVars
  <1>2. R!Controlled' = R!Controlled /\ NamesApart' /\ Linked'
    BY <1>1, SameFiles
  <1>3. FilesTyped' /\ BufferTyped' /\ R!BufferShared'
    BY <1>1, <1>2, SameCardinality
    DEF ReclenInv, FilesTyped, BufferTyped, R!BufferShared
  <1>4. QED
    BY <1>2, <1>3 DEF ReclenInv

LEMMA ReclenInductive ==
  ASSUME ReclenInv, [MCNext]_vars
  PROVE  ReclenInv'
  <1>1. CASE R!ReclenNext
    BY <1>1, SetReclenInv, OpenInv, GetRecordInv, DropInv, CloseInv,
       ReadFreedNodeInv DEF R!ReclenNext
  <1>2. CASE UNCHANGED reclenVars
    BY <1>2, ReclenUnchanged
  <1>3. R!ReclenNext \/ UNCHANGED reclenVars
    BY DEF MCNext, vars
  <1>4. QED
    BY <1>1, <1>2, <1>3

\* reclen: however files are opened, read, dropped and closed, the buffer of
\* reclen/reclen.c has as many users as files and lives as long as one of them, a
\* record fits in it, and unless two files of one name were open together no
\* freed node is read and the list has the files that are read.
THEOREM SharedBufferLives == MCSpec => []FilesListed
  <1>1. MCInit => ReclenInv
    BY ReclenInitInv DEF MCInit
  <1>2. ReclenInv /\ [MCNext]_vars => ReclenInv'
    BY ReclenInductive
  <1>3. ReclenInv => FilesListed
    BY ListIsExact DEF ReclenInv, FilesListed
  <1>4. QED
    BY <1>1, <1>2, <1>3, PTL DEF MCSpec

-----------------------------------------------------------------------------
(* The xml interface.                                                      *)

XmlValues ==
  Nat \cup Names \cup X!Kinds \cup {"set", "target", "doctype", "assigned"}
    \cup {NULL}

XmlStates ==
  [depth : Nat, path : Seq(Names), pathvers : Nat, nest : Seq(Names),
   status : {"ok", "error", "eof"}]

\* The path of a file is that of its open elements, and its first version is that
\* of none.
StateSound(s) ==
  /\ s \in XmlStates
  /\ s.path = s.nest /\ s.depth = Len(s.nest)
  /\ s.pathvers >= 1 /\ (s.pathvers = 1 => s.path = <<>>)

StatesSound ==
  /\ xml = [a \in Addresses |-> xml[a]]
  /\ \A a \in Addresses : xml[a] # NULL => StateSound(xml[a])

\* A variable is of the last record or of none, and then it is null or the program
\* has assigned to it.
VariablesSound ==
  /\ curgen \in 1 .. MaxGen
  /\ node \in [X!Scalars -> [gen : Nat, value : XmlValues]]
  /\ \A v \in X!Scalars :
       node[v].gen = curgen
         \/ (node[v].gen = 0 /\ (node[v].value = NULL \/ v \in X!ReadWrite))

\* XMLPATH has no version of a file's path that this file has yet to reach, unless
\* it is that of an earlier file at the same address; then the file has its first
\* version, and differs in that or has no element open either.
PathSound ==
  /\ path.gen \in Nat
  /\ path.gen = 1 => path.value = <<>>
  /\ \A a \in Addresses :
       xml[a] # NULL /\ path.file = a =>
         /\ path.gen = xml[a].pathvers => path.value = xml[a].path
         /\ xml[a].pathvers # 1 => path.gen <= xml[a].pathvers

XmlInv ==
  /\ StatesSound
  /\ VariablesSound
  /\ PathSound
  /\ X!VariablesOfToken

LEMMA KindsFacts ==
  /\ "error" \notin X!Kinds /\ "eof" \notin X!Kinds
  /\ X!Named \subseteq X!Kinds
  /\ \A k \in X!Kinds : /\ X!Variable[k] \in X!Scalars
                        /\ X!Variable[k] \notin {"XMLDEPTH", "XMLEVENT", "XMLNAME"}
  /\ {"XMLDEPTH", "XMLEVENT", "XMLNAME", "XMLERROR", "XMLROW", "XMLCOL",
      "XMLLEN"} \subseteq X!Scalars
  <1>1. X!Kinds =
          {"START_ELEMENT", "END_ELEMENT", "CHARDATA", "START_CDATA", "END_CDATA",
           "PROC_INST", "COMMENT", "DECL", "START_DOCT", "END_DOCT", "UNPARSED",
           "END_DOCUMENT"}
    BY DEF X!Kinds, X!Variable
  <1>2. "error" \notin X!Kinds /\ "eof" \notin X!Kinds
    BY <1>1
  <1>3. X!Named \subseteq X!Kinds
    BY <1>1 DEF X!Named
  <1>4. \A k \in X!Kinds : X!Variable[k] \in X!Scalars
    BY DEF X!Scalars
  <1>5. \A k \in X!Kinds :
          X!Variable[k] \notin {"XMLDEPTH", "XMLEVENT", "XMLNAME"}
    BY <1>1 DEF X!Variable
  <1>6. {"XMLDEPTH", "XMLEVENT", "XMLNAME", "XMLERROR", "XMLROW", "XMLCOL",
         "XMLLEN"} \subseteq X!Scalars
    BY DEF X!Scalars, X!ReadWrite
  <1>7. QED
    BY <1>2, <1>3, <1>4, <1>5, <1>6

\* What the tokens of a file can be.
LEMMA TokenFacts ==
  ASSUME NEW s, StateSound(s), NEW t \in X!Tokens(s)
  PROVE  /\ t.kind \in X!Kinds
         /\ t.kind = "START_ELEMENT" => t.name \in Names
         /\ t.kind = "END_ELEMENT" => s.nest # <<>>
         /\ t.kind \in X!Named => t.name \in Names \cup {"target", "doctype"}
  <1>1. {"START_ELEMENT", "END_ELEMENT", "PROC_INST", "START_DOCT", "DECL"}
          \subseteq X!Kinds
    BY DEF X!Kinds, X!Variable
  <1>2. s.nest \in Seq(Names)
    BY DEF StateSound, XmlStates
  <1>3. CASE t \in [kind : {"START_ELEMENT"}, name : Names, attrs : {{}, {"x"}}]
    BY <1>1, <1>3
  <1>4. CASE t \in [kind : {"END_ELEMENT"}, attrs : {{}},
                    name : IF s.nest = <<>> THEN {} ELSE {X!Last(s.nest)}]
    <2>1. t.kind = "END_ELEMENT" /\ s.nest # <<>> /\ t.name = X!Last(s.nest)
      BY <1>4
    <2>2. X!Last(s.nest) \in Names
      BY <1>2, <2>1 DEF X!Last
    <2>3. QED
      BY <1>1, <2>1, <2>2
  <1>5. CASE t \in [kind : {"PROC_INST"}, name : {"target"}, attrs : {{}}]
    BY <1>1, <1>5
  <1>6. CASE t \in [kind : {"START_DOCT"}, name : {"doctype"},
                    attrs : {{}, {"SYSTEM"}}]
    BY <1>1, <1>6
  <1>7. CASE t \in [kind : {"DECL"}, name : {NULL}, attrs : {{"VERSION"}}]
    <2>1. t.kind = "DECL"
      BY <1>7
    <2>2. "DECL" \notin X!Named
      BY DEF X!Named
    <2>3. QED
      BY <1>1, <2>1, <2>2
  <1>8. CASE t \in [kind : X!Kinds \ (X!Named \cup {"DECL"}), name : {NULL},
                    attrs : {{}}]
    <2>1. t.kind \in X!Kinds /\ t.kind \notin X!Named
      BY <1>8
    <2>2. {"START_ELEMENT", "END_ELEMENT"} \subseteq X!Named
      BY DEF X!Named
    <2>3. QED
      BY <2>1, <2>2
  <1>9. QED
    BY <1>3, <1>4, <1>5, <1>6, <1>7, <1>8 DEF X!Tokens

\* The counter of generations, which wraps around.
LEMMA NextGenFacts ==
  ASSUME curgen \in 1 .. MaxGen
  PROVE  X!NextGen \in 1 .. MaxGen /\ X!NextGen # curgen
  <1>1. MaxGen \in Nat /\ MaxGen > 1
    BY GenerationsAssumption
  <1>2. CASE curgen = MaxGen
    <2>1. (curgen + 1) % (MaxGen + 1) = 0
      BY <1>1, <1>2
    <2>2. X!NextGen = 1
      BY <2>1 DEF X!NextGen
    <2>3. QED
      BY <1>1, <1>2, <2>2
  <1>3. CASE curgen < MaxGen
    <2>1. curgen + 1 \in 1 .. MaxGen
      BY <1>1, <1>3
    <2>2. \A k \in 1 .. MaxGen : k % (MaxGen + 1) = k
      BY <1>1
    <2>3. (curgen + 1) % (MaxGen + 1) = curgen + 1
      BY <2>1, <2>2
    <2>4. X!NextGen = curgen + 1
      BY <2>1, <2>3 DEF X!NextGen
    <2>5. QED
      BY <1>1, <2>1, <2>4
  <1>4. QED
    BY <1>1, <1>2, <1>3

\* After a record the variables it sets are of it and the others are null.
LEMMA UpdatedFacts ==
  ASSUME VariablesSound, NEW V \in SUBSET X!Scalars,
         NEW w \in [V -> XmlValues \ {NULL}],
         curgen' = X!NextGen, node' = X!Updated(w)
  PROVE  /\ VariablesSound'
         /\ X!Set' = V
         /\ \A v \in V : node'[v].value = w[v]
  <1>1. /\ curgen \in 1 .. MaxGen
        /\ node \in [X!Scalars -> [gen : Nat, value : XmlValues]]
        /\ \A v \in X!Scalars :
             node[v].gen = curgen
               \/ (node[v].gen = 0 /\ (node[v].value = NULL \/ v \in X!ReadWrite))
    BY DEF VariablesSound
  <1>2. X!NextGen \in 1 .. MaxGen /\ X!NextGen # curgen /\ X!NextGen # 0
    BY <1>1, NextGenFacts, GenerationsAssumption
  <1> DEFINE g == X!NextGen
  <1>3. g \in Nat
    BY <1>2, GenerationsAssumption
  <1>4. node' = [v \in X!Scalars |->
                   IF v \in V THEN [gen |-> g, value |-> w[v]]
                   ELSE IF X!Reset(v) THEN [gen |-> 0, value |-> NULL]
                   ELSE node[v]]
    BY DEF X!Updated
  <1>5. \A v \in X!Scalars :
          ~X!Reset(v) => node[v].gen = 0 /\ node[v].value = NULL
    BY <1>1, <1>2 DEF X!Reset
  <1> HIDE DEF g
  <1>6. \A v \in X!Scalars : node[v] \in [gen : Nat, value : XmlValues]
    BY <1>1
  <1>7. ASSUME NEW v \in X!Scalars
        PROVE  IF v \in V
               THEN node'[v] = [gen |-> g, value |-> w[v]]
               ELSE /\ node'[v] \in [gen : Nat, value : XmlValues]
                    /\ node'[v].gen = 0 /\ node'[v].value = NULL
    <2>1. NULL \in XmlValues
      BY DEF XmlValues
    <2>2. CASE v \in V
      BY <1>4, <2>2
    <2>3. CASE v \notin V /\ X!Reset(v)
      BY <1>4, <2>1, <2>3
    <2>4. CASE v \notin V /\ ~X!Reset(v)
      BY <1>4, <1>5, <1>6, <2>4
    <2>5. QED
      BY <2>2, <2>3, <2>4
  <1>8. \A v \in V : /\ node'[v] = [gen |-> g, value |-> w[v]]
                     /\ node'[v].gen = g /\ node'[v].value = w[v]
    BY <1>7
  <1>9. VariablesSound'
    <2>1. ASSUME NEW v \in X!Scalars
          PROVE  node'[v] \in [gen : Nat, value : XmlValues]
      <3>1. CASE v \in V
        <4>1. node'[v] = [gen |-> g, value |-> w[v]] /\ w[v] \in XmlValues
          BY <1>8, <3>1
        <4>2. QED
          BY <1>3, <4>1
      <3>2. CASE v \notin V
        BY <1>7, <3>2
      <3>3. QED
        BY <3>1, <3>2
    <2>2. node' \in [X!Scalars -> [gen : Nat, value : XmlValues]]
      BY <1>4, <2>1
    <2>3. \A v \in X!Scalars :
            node'[v].gen = g \/ (node'[v].gen = 0 /\ node'[v].value = NULL)
      BY <1>7, <1>8
    <2>4. QED
      BY <1>2, <2>2, <2>3 DEF VariablesSound, g
  <1>10. X!Set' = V
    <2>1. V \subseteq X!Scalars
      OBVIOUS
    <2>2. \A v \in V : w[v] # NULL
      OBVIOUS
    <2>3. \A v \in X!Scalars : node'[v].value # NULL <=> v \in V
      BY <1>7, <1>8, <2>2
    <2>4. X!Set' = {v \in X!Scalars : node'[v].value # NULL}
      BY DEF X!Set
    <2>5. QED
      BY <2>1, <2>3, <2>4
  <1>11. QED
    BY <1>8, <1>9, <1>10

\* XMLPATH after RESET_XMLPATH.
LEMMA PathBeforeFacts ==
  ASSUME PathSound, NEW a \in Addresses, xml[a] # NULL
  PROVE  LET p == X!PathBefore(a, xml[a]) IN
         /\ p.file = a /\ p.gen = xml[a].pathvers
         /\ p.value = xml[a].path
  BY DEF PathSound, X!PathBefore, X!PathOf

LEMMA XmlInitInv == X!XmlInit => XmlInv
  <1> SUFFICES ASSUME X!XmlInit PROVE XmlInv
    OBVIOUS
  <1>1. /\ xml = [a \in Addresses |-> NULL]
        /\ node = [v \in X!Scalars |-> [gen |-> 1, value |-> NULL]]
        /\ curgen = 1
        /\ path = [file |-> NULL, gen |-> 1, value |-> <<>>]
        /\ last = NULL
    BY DEF X!XmlInit
  <1>2. StatesSound
    BY <1>1 DEF StatesSound
  <1>3. VariablesSound
    <2>1. [gen |-> 1, value |-> NULL] \in [gen : Nat, value : XmlValues]
      BY DEF XmlValues
    <2>2. curgen \in 1 .. MaxGen
      BY <1>1, GenerationsAssumption
    <2>3. \A v \in X!Scalars : node[v].gen = curgen
      BY <1>1
    <2>4. node \in [X!Scalars -> [gen : Nat, value : XmlValues]]
      BY <1>1, <2>1
    <2>5. QED
      BY <2>2, <2>3, <2>4 DEF VariablesSound
  <1>4. PathSound
    BY <1>1 DEF PathSound
  <1>5. X!VariablesOfToken
    BY <1>1 DEF X!VariablesOfToken
  <1>6. QED
    BY <1>2, <1>3, <1>4, <1>5 DEF XmlInv

\* Steps that leave the variables as they are.
LEMMA OpenXmlInv ==
  ASSUME XmlInv, X!OpenXml
  PROVE  XmlInv'
  <1>1. PICK a \in Addresses :
          xml' = [xml EXCEPT ![a] = [depth |-> 0, path |-> <<>>, pathvers |-> 1,
                                     nest |-> <<>>, status |-> "ok"]]
    BY DEF X!OpenXml
  <1>2. UNCHANGED <<node, curgen, path, xmlattr, last>>
    BY DEF X!OpenXml
  <1> DEFINE s == [depth |-> 0, path |-> <<>>, pathvers |-> 1,
                   nest |-> <<>>, status |-> "ok"]
  <1>3. /\ s.path = <<>> /\ s.pathvers = 1 /\ StateSound(s)
    BY DEF StateSound, XmlStates
  <1> HIDE DEF s
  <1>4. \A b \in Addresses : xml'[b] = IF b = a THEN s ELSE xml[b]
    BY <1>1 DEF XmlInv, StatesSound, s
  <1>5. StatesSound'
    <2>1. xml' = [b \in Addresses |-> xml'[b]]
      BY <1>1 DEF XmlInv, StatesSound
    <2>2. QED
      BY <1>3, <1>4, <2>1 DEF XmlInv, StatesSound
  <1>6. VariablesSound'
    BY <1>2 DEF XmlInv, VariablesSound
  <1>7. PathSound'
    BY <1>2, <1>3, <1>4 DEF XmlInv, PathSound
  <1>8. X!VariablesOfToken'
    BY <1>2 DEF XmlInv, X!VariablesOfToken, X!Set
  <1>9. QED
    BY <1>5, <1>6, <1>7, <1>8 DEF XmlInv

LEMMA CloseXmlInv ==
  ASSUME XmlInv, X!CloseXml
  PROVE  XmlInv'
  <1>1. PICK a \in Addresses : xml' = [xml EXCEPT ![a] = NULL]
    BY DEF X!CloseXml
  <1>2. UNCHANGED <<node, curgen, path, xmlattr, last>>
    BY DEF X!CloseXml
  <1>3. \A b \in Addresses : xml'[b] = IF b = a THEN NULL ELSE xml[b]
    BY <1>1 DEF XmlInv, StatesSound
  <1>4. StatesSound'
    <2>1. xml' = [b \in Addresses |-> xml'[b]]
      BY <1>1 DEF XmlInv, StatesSound
    <2>2. QED
      BY <1>3, <2>1 DEF XmlInv, StatesSound
  <1>5. VariablesSound'
    BY <1>2 DEF XmlInv, VariablesSound
  <1>6. PathSound'
    BY <1>2, <1>3 DEF XmlInv, PathSound
  <1>7. X!VariablesOfToken'
    BY <1>2 DEF XmlInv, X!VariablesOfToken, X!Set
  <1>8. QED
    BY <1>4, <1>5, <1>6, <1>7 DEF XmlInv

LEMMA AssignInv ==
  ASSUME XmlInv, X!Assign
  PROVE  XmlInv'
  <1>1. PICK w \in X!ReadWrite : node' = [node EXCEPT ![w].value = "assigned"]
    BY DEF X!Assign
  <1>2. last' = NULL /\ UNCHANGED <<xml, curgen, path, xmlattr>>
    BY DEF X!Assign
  <1>3. StatesSound'
    BY <1>2 DEF XmlInv, StatesSound
  <1>4. VariablesSound'
    <2>1. node \in [X!Scalars -> [gen : Nat, value : XmlValues]]
      BY DEF XmlInv, VariablesSound
    <2>2. w \in X!Scalars /\ "assigned" \in XmlValues
      BY DEF X!Scalars, XmlValues
    <2>3. /\ node' \in [X!Scalars -> [gen : Nat, value : XmlValues]]
          /\ \A v \in X!Scalars : node'[v].gen = node[v].gen
          /\ \A v \in X!Scalars : v # w => node'[v] = node[v]
      BY <1>1, <2>1, <2>2
    <2>4. QED
      BY <1>2, <2>3 DEF XmlInv, VariablesSound
  <1>5. PathSound'
    BY <1>2 DEF XmlInv, PathSound
  <1>6. X!VariablesOfToken'
    BY <1>2 DEF X!VariablesOfToken
  <1>7. QED
    BY <1>3, <1>4, <1>5, <1>6 DEF XmlInv

\* A token changes the state of its file as the element it opens or closes does.
LEMMA AfterFacts ==
  ASSUME NEW s, StateSound(s), NEW t \in X!Tokens(s)
  PROVE  LET n == X!After(s, t) IN
         /\ StateSound(n)
         /\ t.kind \in {"START_ELEMENT", "END_ELEMENT"} => n.pathvers = s.pathvers + 1
         /\ t.kind \notin {"START_ELEMENT", "END_ELEMENT"} => n = s
         /\ X!Max({s.depth, n.depth}) =
              IF t.kind = "START_ELEMENT" THEN Len(n.nest) ELSE Len(s.nest)
  <1> DEFINE n == X!After(s, t)
  <1>1. /\ s \in XmlStates /\ s.path = s.nest /\ s.depth = Len(s.nest)
        /\ s.pathvers \in Nat /\ s.pathvers >= 1 /\ s.nest \in Seq(Names)
        /\ s.depth \in Nat
    BY DEF StateSound, XmlStates
  <1>2. \A x, y \in Nat : X!Max({x, y}) = IF x >= y THEN x ELSE y
    <2>1. TAKE x \in Nat, y \in Nat
    <2>2. \E m \in {x, y} : \A z \in {x, y} : m >= z
      OBVIOUS
    <2>3. X!Max({x, y}) \in {x, y} /\ \A z \in {x, y} : X!Max({x, y}) >= z
      BY <2>2 DEF X!Max
    <2>4. QED
      BY <2>3
  <1>3. CASE t.kind = "START_ELEMENT"
    <2>1. t.name \in Names
      BY <1>3, TokenFacts
    <2>2. n = X!Entered(s, t.name)
      BY <1>3 DEF X!After
    <2> HIDE DEF n
    <2>3. /\ n.depth = s.depth + 1 /\ n.path = Append(s.path, t.name)
          /\ n.pathvers = s.pathvers + 1 /\ n.nest = Append(s.nest, t.name)
          /\ n.status = s.status
          /\ n = [depth |-> n.depth, path |-> n.path, pathvers |-> n.pathvers,
                  nest |-> n.nest, status |-> n.status]
      BY <1>1, <2>2 DEF X!Entered, XmlStates
    <2>4. /\ n.nest \in Seq(Names) /\ Len(n.nest) = Len(s.nest) + 1
          /\ n.path = n.nest
      BY <1>1, <2>1, <2>3
    <2>5. n \in XmlStates
      <3>1. /\ n.depth \in Nat /\ n.pathvers \in Nat
            /\ n.path \in Seq(Names) /\ n.nest \in Seq(Names)
            /\ n.status \in {"ok", "error", "eof"}
        BY <1>1, <2>3, <2>4 DEF XmlStates
      <3>2. QED
        BY <2>3, <3>1, Zenon DEF XmlStates
    <2>6. StateSound(n)
      BY <1>1, <2>3, <2>4, <2>5 DEF StateSound
    <2>7. X!Max({s.depth, n.depth}) = Len(n.nest)
      <3>1. n.depth \in Nat /\ ~(s.depth >= n.depth) /\ n.depth = Len(n.nest)
        BY <1>1, <2>3, <2>4
      <3>2. QED
        BY <1>1, <1>2, <3>1, Zenon
    <2>8. QED
      BY <1>3, <2>3, <2>6, <2>7 DEF n
  <1>4. CASE t.kind = "END_ELEMENT"
    <2>1. s.nest # <<>>
      BY <1>4, TokenFacts
    <2>2. n = X!Left(s)
      BY <1>4 DEF X!After
    <2> HIDE DEF n
    <2>3. /\ n.depth = s.depth - 1 /\ n.path = X!Front(s.path)
          /\ n.pathvers = s.pathvers + 1 /\ n.nest = X!Front(s.nest)
          /\ n.status = s.status
          /\ n = [depth |-> n.depth, path |-> n.path, pathvers |-> n.pathvers,
                  nest |-> n.nest, status |-> n.status]
      BY <1>1, <2>2 DEF X!Left, XmlStates
    <2>4. /\ n.nest \in Seq(Names) /\ Len(n.nest) = Len(s.nest) - 1
          /\ Len(n.nest) \in Nat /\ n.path = n.nest
      BY <1>1, <2>1, <2>3 DEF X!Front
    <2>5. n.depth \in Nat /\ n.depth = Len(n.nest)
      BY <1>1, <2>3, <2>4
    <2>6. n \in XmlStates
      BY <1>1, <2>3, <2>4, <2>5 DEF XmlStates
    <2>7. StateSound(n)
      BY <1>1, <2>3, <2>4, <2>5, <2>6 DEF StateSound
    <2>8. X!Max({s.depth, n.depth}) = Len(s.nest)
      <3>1. s.depth >= n.depth
        BY <1>1, <2>3
      <3>2. QED
        BY <1>1, <1>2, <2>5, <3>1, Zenon
    <2>9. QED
      BY <1>4, <2>3, <2>7, <2>8 DEF n
  <1>5. CASE t.kind \notin {"START_ELEMENT", "END_ELEMENT"}
    <2>1. n = s
      BY <1>5 DEF X!After
    <2>2. X!Max({s.depth, s.depth}) = Len(s.nest)
      BY <1>1, <1>2
    <2>3. QED
      BY <1>5, <2>1, <2>2
  <1>6. QED
    BY <1>3, <1>4, <1>5

\* What the file, XMLPATH and the other files are after a step that reads at a.
LEMMA PathKept ==
  ASSUME XmlInv, NEW a \in Addresses, xml[a] # NULL, NEW n,
         StateSound(n), xml' = [xml EXCEPT ![a] = n],
         \/ path' = X!PathOf(a, n) /\ n.pathvers > 1
         \/ /\ path' = X!PathBefore(a, xml[a])
            /\ \/ n.pathvers = xml[a].pathvers /\ n.path = xml[a].path
               \/ n.pathvers = xml[a].pathvers + 1
  PROVE  StatesSound' /\ PathSound'
  <1>1. StatesSound /\ PathSound /\ StateSound(xml[a])
    BY DEF XmlInv, StatesSound
  <1>2. \A b \in Addresses : xml'[b] = IF b = a THEN n ELSE xml[b]
    BY <1>1 DEF StatesSound
  <1>3. StatesSound'
    <2>1. xml' = [b \in Addresses |-> xml'[b]]
      BY <1>1 DEF StatesSound
    <2>2. QED
      BY <1>1, <1>2, <2>1 DEF StatesSound
  <1>4. /\ n.pathvers \in Nat /\ xml[a].pathvers \in Nat
        /\ xml[a].pathvers >= 1
        /\ xml[a].pathvers = 1 => xml[a].path = <<>>
    BY <1>1 DEF StateSound, XmlStates
  <1>5. CASE path' = X!PathOf(a, n) /\ n.pathvers > 1
    <2>1. path'.file = a /\ path'.gen = n.pathvers /\ path'.value = n.path
      BY <1>5 DEF X!PathOf
    <2>2. QED
      BY <1>2, <1>3, <1>4, <1>5, <2>1 DEF PathSound
  <1>6. CASE /\ path' = X!PathBefore(a, xml[a])
             /\ \/ n.pathvers = xml[a].pathvers /\ n.path = xml[a].path
                \/ n.pathvers = xml[a].pathvers + 1
    <2>1. /\ path'.file = a /\ path'.gen = xml[a].pathvers
          /\ path'.value = xml[a].path
      BY <1>1, <1>6, PathBeforeFacts
    <2>2. QED
      BY <1>2, <1>3, <1>4, <1>6, <2>1 DEF PathSound
  <1>7. QED
    BY <1>5, <1>6

LEMMA RecordInv ==
  ASSUME XmlInv, X!Record
  PROVE  XmlInv'
  <1>0. PICK a \in {b \in Addresses : xml[b] # NULL} : \E t \in X!Tokens(xml[a]) :
          LET after == X!After(xml[a], t)
              deep == X!Max({xml[a].depth, after.depth})
          IN
            /\ xml' = [xml EXCEPT ![a] = after]
            /\ node' = X!Updated([v \in X!SetBy(t.kind) |-> X!Value(v, t, deep)])
            /\ path' = IF t.kind = "START_ELEMENT" THEN X!PathOf(a, after)
                       ELSE X!PathBefore(a, xml[a])
            /\ xmlattr' = t.attrs
            /\ last' = [kind |-> t.kind, name |-> t.name, attrs |-> t.attrs,
                        nest |-> IF t.kind = "START_ELEMENT" THEN after.nest
                                 ELSE xml[a].nest]
    BY DEF X!Record
  <1>1. PICK t \in X!Tokens(xml[a]) :
          LET after == X!After(xml[a], t)
              deep == X!Max({xml[a].depth, after.depth})
          IN
            /\ xml' = [xml EXCEPT ![a] = after]
            /\ node' = X!Updated([v \in X!SetBy(t.kind) |-> X!Value(v, t, deep)])
            /\ path' = IF t.kind = "START_ELEMENT" THEN X!PathOf(a, after)
                       ELSE X!PathBefore(a, xml[a])
            /\ xmlattr' = t.attrs
            /\ last' = [kind |-> t.kind, name |-> t.name, attrs |-> t.attrs,
                        nest |-> IF t.kind = "START_ELEMENT" THEN after.nest
                                 ELSE xml[a].nest]
    BY <1>0
  <1>2. curgen' = X!NextGen
    BY DEF X!Record
  <1> DEFINE s == xml[a]
             n == X!After(s, t)
             deep == X!Max({s.depth, n.depth})
             w == [v \in X!SetBy(t.kind) |-> X!Value(v, t, deep)]
  <1>3. /\ a \in Addresses /\ s # NULL /\ t \in X!Tokens(s) /\ StateSound(s)
        /\ VariablesSound /\ PathSound
    BY <1>1 DEF XmlInv, StatesSound
  <1>4. /\ xml' = [xml EXCEPT ![a] = n]
        /\ node' = X!Updated(w)
        /\ path' = IF t.kind = "START_ELEMENT" THEN X!PathOf(a, n)
                   ELSE X!PathBefore(a, s)
        /\ xmlattr' = t.attrs
        /\ last'.kind = t.kind /\ last'.name = t.name /\ last'.attrs = t.attrs
        /\ last'.nest = IF t.kind = "START_ELEMENT" THEN n.nest ELSE s.nest
    BY <1>1
  <1>5. /\ StateSound(n)
        /\ t.kind \in {"START_ELEMENT", "END_ELEMENT"} => n.pathvers = s.pathvers + 1
        /\ t.kind \notin {"START_ELEMENT", "END_ELEMENT"} => n = s
        /\ deep = IF t.kind = "START_ELEMENT" THEN Len(n.nest) ELSE Len(s.nest)
    BY <1>3, AfterFacts
  <1>6. /\ t.kind \in X!Kinds
        /\ t.kind \in X!Named => t.name \in Names \cup {"target", "doctype"}
    BY <1>3, TokenFacts
  <1> HIDE DEF n, deep
  <1>7. deep = Len(last'.nest)
    BY <1>4, <1>5
  <1>8. /\ s.pathvers \in Nat /\ s.pathvers >= 1 /\ n.path = n.nest
        /\ s.path = s.nest /\ s.nest \in Seq(Names) /\ n.nest \in Seq(Names)
    BY <1>3, <1>5 DEF StateSound, XmlStates
  <1>9. deep \in Nat
    BY <1>5, <1>8
  <1>10. StatesSound' /\ PathSound'
    <2>1. CASE t.kind = "START_ELEMENT"
      <3>1. path' = X!PathOf(a, n) /\ n.pathvers > 1
        BY <1>4, <1>5, <1>8, <2>1
      <3>2. QED
        BY <1>3, <1>4, <1>5, <3>1, PathKept
    <2>2. CASE t.kind # "START_ELEMENT"
      <3>1. /\ path' = X!PathBefore(a, s)
            /\ \/ n.pathvers = s.pathvers /\ n.path = s.path
               \/ n.pathvers = s.pathvers + 1
        BY <1>4, <1>5, <2>2
      <3>2. QED
        BY <1>3, <1>4, <1>5, <3>1, PathKept
    <2>3. QED
      BY <2>1, <2>2
  <1>11. path'.value = last'.nest
    <2>1. CASE t.kind = "START_ELEMENT"
      BY <1>4, <1>8, <2>1 DEF X!PathOf
    <2>2. CASE t.kind # "START_ELEMENT"
      BY <1>3, <1>4, <1>8, <2>2, PathBeforeFacts
    <2>3. QED
      BY <2>1, <2>2
  <1>12. X!SetBy(t.kind) \subseteq X!Scalars
    BY <1>6, KindsFacts DEF X!SetBy
  <1>13. /\ w["XMLDEPTH"] = deep /\ w["XMLEVENT"] = t.kind
         /\ "XMLNAME" \in X!SetBy(t.kind) => w["XMLNAME"] = t.name
    <2>1. w["XMLDEPTH"] = deep
      BY DEF X!SetBy, X!Value
    <2>2. w["XMLEVENT"] = t.kind
      <3>1. "XMLEVENT" # X!Variable[t.kind]
        BY <1>6, KindsFacts
      <3>2. X!Value("XMLEVENT", t, deep) = t.kind
        BY <3>1 DEF X!Value
      <3>3. QED
        BY <3>2 DEF X!SetBy
    <2>3. ASSUME "XMLNAME" \in X!SetBy(t.kind) PROVE w["XMLNAME"] = t.name
      <3>1. t.kind \in X!Named
        BY <1>6, <2>3, KindsFacts DEF X!SetBy
      <3>2. X!Value("XMLNAME", t, deep) = t.name
        BY <3>1 DEF X!Value
      <3>3. QED
        BY <2>3, <3>2
    <2>4. QED
      BY <2>1, <2>2, <2>3
  <1>14. \A v \in X!SetBy(t.kind) : X!Value(v, t, deep) \in XmlValues \ {NULL}
    <2>1. TAKE v \in X!SetBy(t.kind)
    <2>2. \/ X!Value(v, t, deep) = deep
          \/ X!Value(v, t, deep) = t.kind
          \/ t.kind \in X!Named /\ X!Value(v, t, deep) = t.name
          \/ X!Value(v, t, deep) = "set"
      BY DEF X!Value
    <2>3. QED
      BY <1>6, <1>9, <2>2, NullAssumption, NamesAssumption DEF XmlValues
  <1>15. w \in [X!SetBy(t.kind) -> XmlValues \ {NULL}]
    BY <1>14
  <1> HIDE DEF w
  <1>16. /\ VariablesSound' /\ X!Set' = X!SetBy(t.kind)
         /\ \A v \in X!SetBy(t.kind) : node'[v].value = w[v]
    BY <1>2, <1>3, <1>4, <1>12, <1>15, UpdatedFacts
  <1>17. X!VariablesOfToken'
    <2>1. (CASE last'.kind \in X!Kinds -> X!SetBy(last'.kind)
             [] last'.kind = "error" -> X!SetByError
             [] OTHER -> {}) = X!SetBy(t.kind)
      BY <1>4, <1>6, KindsFacts
    <2>2. QED
      BY <1>4, <1>7, <1>11, <1>13, <1>16, <2>1 DEF X!VariablesOfToken
  <1>18. QED
    BY <1>10, <1>16, <1>17 DEF XmlInv

LEMMA NoRecordInv ==
  ASSUME XmlInv, X!NoRecord
  PROVE  XmlInv'
  <1>0. PICK a \in {b \in Addresses : xml[b] # NULL} :
          \E status \in IF xml[a].status # "ok" THEN {xml[a].status}
                        ELSE IF xml[a].nest = <<>> THEN {"error", "eof"}
                        ELSE {"error"} :
            /\ xml' = [xml EXCEPT ![a].status = status]
            /\ node' = X!Updated(
                 [v \in IF status = "error" THEN X!SetByError ELSE {} |->
                    IF v = "XMLDEPTH" THEN xml[a].depth ELSE "set"])
            /\ path' = X!PathBefore(a, xml[a])
            /\ last' = [kind |-> status, name |-> NULL, attrs |-> {},
                        nest |-> xml[a].nest]
    BY DEF X!NoRecord
  <1>1. PICK status \in IF xml[a].status # "ok" THEN {xml[a].status}
                        ELSE IF xml[a].nest = <<>> THEN {"error", "eof"}
                        ELSE {"error"} :
          /\ xml' = [xml EXCEPT ![a].status = status]
          /\ node' = X!Updated(
               [v \in IF status = "error" THEN X!SetByError ELSE {} |->
                  IF v = "XMLDEPTH" THEN xml[a].depth ELSE "set"])
          /\ path' = X!PathBefore(a, xml[a])
          /\ last' = [kind |-> status, name |-> NULL, attrs |-> {},
                      nest |-> xml[a].nest]
    BY <1>0
  <1>2. curgen' = X!NextGen /\ xmlattr' = {}
    BY DEF X!NoRecord
  <1> DEFINE s == xml[a]
             n == [s EXCEPT !.status = status]
             V == IF status = "error" THEN X!SetByError ELSE {}
             w == [v \in V |-> IF v = "XMLDEPTH" THEN s.depth ELSE "set"]
  <1>3. /\ a \in Addresses /\ s # NULL /\ StateSound(s)
        /\ VariablesSound /\ PathSound
    BY <1>1 DEF XmlInv, StatesSound
  <1>4. /\ s \in XmlStates /\ s.path = s.nest /\ s.depth = Len(s.nest)
        /\ s.depth \in Nat
    BY <1>3 DEF StateSound, XmlStates
  <1>5. status \in {"error", "eof"}
    BY <1>1, <1>4 DEF XmlStates
  <1>6. /\ xml' = [xml EXCEPT ![a] = n]
        /\ node' = X!Updated(w)
        /\ path' = X!PathBefore(a, s)
        /\ last'.kind = status /\ last'.attrs = {} /\ last'.nest = s.nest
    BY <1>1
  <1>7. StateSound(n) /\ n.pathvers = s.pathvers /\ n.path = s.path
    BY <1>3, <1>4, <1>5 DEF StateSound, XmlStates
  <1> HIDE DEF n
  <1>8. StatesSound' /\ PathSound'
    BY <1>3, <1>6, <1>7, PathKept
  <1>9. path'.value = last'.nest
    BY <1>3, <1>4, <1>6, PathBeforeFacts
  <1>10. V \subseteq X!Scalars
    BY KindsFacts DEF X!SetByError
  <1>11. w \in [V -> XmlValues \ {NULL}]
    BY <1>4, NullAssumption, NamesAssumption DEF XmlValues
  <1>12. "XMLDEPTH" \in V => w["XMLDEPTH"] = s.depth
    OBVIOUS
  <1>13. "XMLEVENT" \notin V /\ "XMLNAME" \notin V
    BY DEF X!SetByError
  <1>14. (CASE last'.kind \in X!Kinds -> X!SetBy(last'.kind)
            [] last'.kind = "error" -> X!SetByError
            [] OTHER -> {}) = V
    BY <1>5, <1>6, KindsFacts
  <1> HIDE DEF w, V
  <1>15. VariablesSound' /\ X!Set' = V /\ \A v \in V : node'[v].value = w[v]
    BY <1>2, <1>3, <1>6, <1>10, <1>11, UpdatedFacts
  <1>16. X!VariablesOfToken'
    BY <1>2, <1>4, <1>6, <1>9, <1>12, <1>13, <1>14, <1>15
    DEF X!VariablesOfToken
  <1>17. QED
    BY <1>8, <1>15, <1>16 DEF XmlInv

LEMMA XmlUnchanged ==
  ASSUME XmlInv, UNCHANGED xmlVars
  PROVE  XmlInv'
  <1>1. UNCHANGED <<xml, node, curgen, path, xmlattr, last>>
    BY DEF xmlVars
  <1>2. StatesSound' /\ VariablesSound' /\ PathSound'
    BY <1>1 DEF XmlInv, StatesSound, VariablesSound, PathSound
  <1>3. X!VariablesOfToken'
    BY <1>1 DEF XmlInv, X!VariablesOfToken, X!Set
  <1>4. QED
    BY <1>2, <1>3 DEF XmlInv

LEMMA XmlInductive ==
  ASSUME XmlInv, [MCNext]_vars
  PROVE  XmlInv'
  <1>1. CASE X!XmlNext
    BY <1>1, OpenXmlInv, CloseXmlInv, AssignInv, RecordInv, NoRecordInv
    DEF X!XmlNext
  <1>2. CASE UNCHANGED xmlVars
    BY <1>2, XmlUnchanged
  <1>3. X!XmlNext \/ UNCHANGED xmlVars
    BY DEF MCNext, vars
  <1>4. QED
    BY <1>1, <1>2, <1>3

\* xml: after each record of xml/xml_interface.c the variables are those of its
\* token and XMLPATH is that of its file, for any number of files and elements,
\* however deep, whatever the program assigned, when the generation counter wraps
\* around and when a file has the address of one that was closed.
THEOREM VariablesAreTheRecords == MCSpec => []VariablesOfToken
  <1>1. MCInit => XmlInv
    BY XmlInitInv DEF MCInit
  <1>2. XmlInv /\ [MCNext]_vars => XmlInv'
    BY XmlInductive
  <1>3. XmlInv => VariablesOfToken
    BY DEF XmlInv, VariablesOfToken
  <1>4. QED
    BY <1>1, <1>2, <1>3, PTL DEF MCSpec

-----------------------------------------------------------------------------
(* csv and the pull parser.  What TextReadersProofs proves of them holds   *)
(* of the program, which reads as they do or leaves their variables alone. *)

\* csv: whatever characters a file has and however many files are read in turn,
\* csv/csv_input.c loses none of them, its records and fields are those that
\* csvconvert and csvsplit find, and what csvprint wrote is read back.
THEOREM RecordsAreRead == MCSpec => []ReadAsWritten
  <1>1. MCInit => CsvInit
    BY DEF MCInit
  <1>2. [MCNext]_vars => [CsvNext]_csvVars
    BY DEF MCNext, vars, csvVars
  <1>3. CsvSpec => []CsvRecords
    BY DocumentsAssumption, CsvDoesRead
  <1>4. QED
    BY <1>1, <1>2, <1>3, PTL DEF MCSpec, CsvSpec, ReadAsWritten

\* xml: in whatever blocks a file is read, the tokens that xml/xml_puller.c
\* delivers cover it from its first byte on, in order and each with its place, and
\* well-formed documents are delivered to their end when nothing has failed.
THEOREM TokensAreDelivered == MCSpec => []TokensOfDocuments
  <1>1. MCInit => PullerInv
    BY PullerInitInv DEF MCInit
  <1>2. [MCNext]_vars => [P!PullerNext]_pullerVars
    BY DEF MCNext, vars, pullerVars
  <1>3. PullerInv /\ [P!PullerNext]_pullerVars => PullerInv'
    BY PullerNextInv
  <1>4. QED
    BY <1>1, <1>2, <1>3, TokensRight, PTL DEF MCSpec, TokensOfDocuments

=============================================================================
