-------------------------- MODULE RedisCallsProofs --------------------------
(***************************************************************************)
(* Proofs about RedisCalls, for arrays of every length and every number of *)
(* arguments.                                                              *)
(*                                                                         *)
(* The argument.  Most of the functions of redis/redis.c are regular: what *)
(* they put into argv fits its block, is what validate has checked, and is *)
(* all freed.  There is one lemma for each function, which also names its  *)
(* converter; the functions that are not regular say where they are not.   *)
(* A call keeps the form that was accepted, and the blocks it has          *)
(* allocated follow from it at each step (CallInv).                        *)
(***************************************************************************)
EXTENDS RedisCalls, SequenceTheorems, TLAPS

-----------------------------------------------------------------------------
(* Forms.                                                                  *)

FormFields ==
  {"valid", "nargs", "sub", "words", "cap", "torn", "conv", "dest", "lost",
   "sync", "piped", "answer"}

\* A form as Argv, Format and Counted make it, and Into changes it.
Shape(f, v, w, cap, conv, dest) ==
  /\ DOMAIN f = FormFields
  /\ f.valid = v /\ f.nargs = Len(v) /\ f.words = w /\ f.cap = cap
  /\ f.conv = conv /\ f.dest = dest /\ f.sub = "" /\ f.torn = {}
  /\ f.lost = 0 /\ f.sync = "all" /\ f.piped = "all" /\ f.answer = "one"

LEMMA ArgvShape == \A v, w : Shape(Argv(v, w), v, w, ArgvSlots, "none", 0)
  BY DEF Shape, FormFields, Argv

LEMMA CapShape ==
  ASSUME NEW f, NEW v, NEW w, NEW cap, NEW conv, NEW dest, NEW n,
         Shape(f, v, w, cap, conv, dest)
  PROVE  Shape([f EXCEPT !.cap = n], v, w, n, conv, dest)
  BY DEF Shape, FormFields

LEMMA FormatShape == \A v, w : Shape(Format(v, w), v, w, 0, "none", 0)
  BY ArgvShape, CapShape DEF Format

LEMMA CountedShape == \A v, w : Shape(Counted(v, w), v, w, Len(w), "none", 0)
  BY ArgvShape, CapShape DEF Counted

LEMMA IntoShape ==
  ASSUME NEW f, NEW v, NEW w, NEW cap, NEW conv, NEW dest, NEW c, NEW d,
         Shape(f, v, w, cap, conv, dest)
  PROVE  Shape(Into(f, c, d), v, w, cap, c, d)
  BY DEF Shape, FormFields, Into

\* What validate has found out about the arguments a.
Suits(v, a) ==
  \A k \in 1 .. Len(v) :
    /\ v[k] \in {S, N} => a[k] = SCALAR
    /\ v[k] = A => a[k] # SCALAR

\* A word of argv is read from an argument of its kind.
Held(x, a) == (x > 0 => a[x] = SCALAR) /\ (x < 0 => a[-x] # SCALAR)

WordsFit(w, a) == \A i \in 1 .. Len(w) : Held(w[i], a)

\* Who validates v can read the words w and store the reply into dest.
Reading(v, w, dest, a) ==
  /\ Len(v) \in Nat /\ w \in Seq(Int)
  /\ Suits(v, a) => WordsFit(w, a) /\ (dest > 0 => a[dest] # SCALAR)

\* Few enough words for an argv that mem_cdo has started.
Short(w) == Len(w) <= 25

\* The parts of being regular.
Sized(f) ==
  /\ DOMAIN f = FormFields
  /\ f.nargs \in Nat /\ f.cap \in Nat /\ Len(f.words) \in Nat

Roomy(f) == f.cap = 0 \/ Len(f.words) <= f.cap

Fitting(f, a) ==
  /\ Fits(f, a) => WordsFit(f.words, a) /\ (f.dest > 0 => a[f.dest] # SCALAR)
  /\ f.torn = {}

Freeing(f) == f.lost = 0 /\ f.sync = "all" /\ f.piped = "all"

Ordinary(f) == f.sub \notin {"exists", "channels", "numsub"}

Converting(f, conv) == f.conv = conv /\ (conv # "none" => f.dest > 0)

Regular(f, a, conv) ==
  /\ Sized(f) /\ Roomy(f) /\ Fitting(f, a) /\ Freeing(f)
  /\ Ordinary(f) /\ Converting(f, conv) /\ f.answer = "one"

LEMMA ShapeFits ==
  ASSUME NEW a, NEW f, NEW v, NEW w, NEW cap, NEW conv, NEW dest,
         Shape(f, v, w, cap, conv, dest), Reading(v, w, dest, a)
  PROVE  Fitting(f, a)
  BY DEF Shape, Reading, Suits, Fitting, Fits

LEMMA ShapeParts ==
  ASSUME NEW f, NEW v, NEW w, NEW cap \in Nat, NEW conv, NEW dest,
         Shape(f, v, w, cap, conv, dest), Len(v) \in Nat, Len(w) \in Nat
  PROVE  /\ Sized(f) /\ Freeing(f) /\ Ordinary(f)
         /\ Len(w) <= cap => Roomy(f)
         /\ dest > 0 => Converting(f, conv)
  BY DEF Shape, Sized, Roomy, Freeing, Ordinary, Converting

LEMMA ShapeRegular ==
  ASSUME NEW a, NEW f, NEW v, NEW w, NEW cap \in Nat, NEW conv, NEW dest,
         Shape(f, v, w, cap, conv, dest), Reading(v, w, dest, a),
         cap = 0 \/ Len(w) <= cap, conv # "none" => dest > 0
  PROVE  Regular(f, a, conv)
  <1>1. Fitting(f, a)
    BY ShapeFits
  <1>2. Sized(f) /\ Roomy(f)
    <2>1. Len(v) \in Nat /\ Len(w) \in Nat
      BY DEF Reading
    <2>2. QED
      BY <2>1 DEF Shape, Sized, Roomy
  <1>3. Freeing(f) /\ Ordinary(f) /\ Converting(f, conv) /\ f.answer = "one"
    BY DEF Shape, Freeing, Ordinary, Converting
  <1>4. QED
    BY <1>1, <1>2, <1>3 DEF Regular

\* The six ways to make a regular form.
LEMMA FormatPlain ==
  ASSUME NEW a, NEW v, NEW w, Reading(v, w, 0, a)
  PROVE  Regular(Format(v, w), a, "none")
  BY ShapeRegular, FormatShape

LEMMA FormatInto ==
  ASSUME NEW a, NEW v, NEW w, NEW conv, NEW dest,
         Reading(v, w, dest, a), dest > 0
  PROVE  Regular(Into(Format(v, w), conv, dest), a, conv)
  BY ShapeRegular, FormatShape, IntoShape

LEMMA ArgvPlain ==
  ASSUME NEW a, NEW v, NEW w, Reading(v, w, 0, a), Short(w)
  PROVE  Regular(Argv(v, w), a, "none")
  BY ShapeRegular, ArgvShape DEF ArgvSlots, Short

LEMMA ArgvInto ==
  ASSUME NEW a, NEW v, NEW w, NEW conv, NEW dest,
         Reading(v, w, dest, a), dest > 0, Short(w)
  PROVE  Regular(Into(Argv(v, w), conv, dest), a, conv)
  BY ShapeRegular, ArgvShape, IntoShape DEF ArgvSlots, Short

LEMMA CountedPlain ==
  ASSUME NEW a, NEW v, NEW w, Reading(v, w, 0, a)
  PROVE  Regular(Counted(v, w), a, "none")
  <1>1. Len(w) \in Nat
    BY DEF Reading
  <1>2. QED
    BY <1>1, ShapeRegular, CountedShape

LEMMA CountedInto ==
  ASSUME NEW a, NEW v, NEW w, NEW conv, NEW dest,
         Reading(v, w, dest, a), dest > 0
  PROVE  Regular(Into(Counted(v, w), conv, dest), a, conv)
  <1>1. Len(w) \in Nat
    BY DEF Reading
  <1>2. Shape(Into(Counted(v, w), conv, dest), v, w, Len(w), conv, dest)
    BY CountedShape, IntoShape
  <1>3. QED
    BY <1>1, <1>2, ShapeRegular

LEMMA ElementsFit ==
  ASSUME NEW a \in Seq(Int), NEW k \in Nat
  PROVE  Elements(a, k) \in Seq(Int) /\ WordsFit(Elements(a, k), a)
  BY DEF Elements, WordsFit, Held, SCALAR

LEMMA ConcatFit ==
  ASSUME NEW a, NEW u \in Seq(Int), NEW w \in Seq(Int),
         WordsFit(u, a), WordsFit(w, a)
  PROVE  u \o w \in Seq(Int) /\ WordsFit(u \o w, a)
  BY DEF WordsFit

\* The words of a form may be followed by the elements of an array.
LEMMA LongerReading ==
  ASSUME NEW a \in Seq(Int), NEW k \in Nat, NEW v, NEW u, NEW dest,
         Reading(v, u, dest, a)
  PROVE  Reading(v, u \o Elements(a, k), dest, a)
  <1>1. /\ Len(v) \in Nat /\ u \in Seq(Int)
        /\ Suits(v, a) => WordsFit(u, a) /\ (dest > 0 => a[dest] # SCALAR)
    BY DEF Reading
  <1>2. Elements(a, k) \in Seq(Int) /\ WordsFit(Elements(a, k), a)
    BY ElementsFit
  <1>3. u \o Elements(a, k) \in Seq(Int)
    BY <1>1, <1>2
  <1>4. WordsFit(u, a) => WordsFit(u \o Elements(a, k), a)
    BY <1>1, <1>2, ConcatFit
  <1>5. QED
    BY <1>1, <1>3, <1>4 DEF Reading

-----------------------------------------------------------------------------
(* The regular functions, in the order of the source.                      *)

LEMMA ExecForms ==
  ASSUME NEW a
  PROVE  \A f \in Exec(a) : Regular(f, a, "tipoExec")
  <1>1. Reading(<<A>>, <<0>>, 1, a)
    BY DEF Reading, Suits, WordsFit, Held, S, N, A
  <1>2. QED
    BY <1>1, FormatInto DEF Exec

LEMMA ZrangebylexForms ==
  ASSUME NEW a
  PROVE  \A f \in Zrangebylex(a) : Regular(f, a, "theRest")
  <1>1. Reading(<<S, A, S, S>>, <<0, 1, 3, 4>>, 2, a)
    BY DEF Reading, Suits, WordsFit, Held, S, N, A
  <1>2. QED
    BY <1>1, FormatInto DEF Zrangebylex

LEMMA SscanForms ==
  ASSUME NEW a
  PROVE  \A f \in Sscan(a) : Regular(f, a, "tipoScan")
  <1>1. Reading(<<S, N, A>>, <<0, 1, 2>>, 3, a)
    BY DEF Reading, Suits, WordsFit, Held, S, N, A
  <1>2. Reading(<<S, N, A, S>>, <<0, 1, 2, 0, 4>>, 3, a)
    BY DEF Reading, Suits, WordsFit, Held, S, N, A
  <1>3. QED
    BY <1>1, <1>2, FormatInto DEF Sscan

LEMMA ScanForms ==
  ASSUME NEW a
  PROVE  \A f \in Scan(a) : Regular(f, a, "tipoScan")
  <1>1. Reading(<<N, A>>, <<0, 1>>, 2, a) /\ Short(<<0, 1>>)
    BY DEF Reading, Suits, WordsFit, Held, S, N, A, Short
  <1>2. Reading(<<N, A, S>>, <<0, 1, 0, 3>>, 2, a) /\ Short(<<0, 1, 0, 3>>)
    BY DEF Reading, Suits, WordsFit, Held, S, N, A, Short
  <1>3. QED
    BY <1>1, <1>2, ArgvInto DEF Scan

LEMMA SelectForms ==
  ASSUME NEW a
  PROVE  \A f \in Select(a) : Regular(f, a, "none")
  <1>1. Reading(<<N>>, <<0, 1>>, 0, a)
    BY DEF Reading, Suits, WordsFit, Held, S, N, A
  <1>2. QED
    BY <1>1, FormatPlain DEF Select

LEMMA RandomkeyForms ==
  ASSUME NEW a, NEW cmd
  PROVE  \A f \in Randomkey(a, cmd) : Regular(f, a, "none")
  <1>1. Reading(<<>>, <<0, 0>>, 0, a) /\ Short(<<0, 0>>)
    BY DEF Reading, Suits, WordsFit, Held, S, N, A, Short
  <1>2. Reading(<<>>, <<0>>, 0, a) /\ Short(<<0>>)
    BY DEF Reading, Suits, WordsFit, Held, S, N, A, Short
  <1>3. QED
    BY <1>1, <1>2, ArgvPlain DEF Randomkey

LEMMA ClientOneForms ==
  ASSUME NEW a
  PROVE  \A f \in ClientOne(a) : Regular(f, a, "none")
  <1>1. Reading(<<>>, <<0, 0>>, 0, a) /\ Short(<<0, 0>>)
    BY DEF Reading, Suits, WordsFit, Held, S, N, A, Short
  <1>2. QED
    BY <1>1, ArgvPlain DEF ClientOne

LEMMA ScardForms ==
  ASSUME NEW a
  PROVE  \A f \in Scard(a) : Regular(f, a, "none")
  <1>1. Reading(<<S>>, <<0, 1>>, 0, a) /\ Short(<<0, 1>>)
    BY DEF Reading, Suits, WordsFit, Held, S, N, A, Short
  <1>2. QED
    BY <1>1, ArgvPlain DEF Scard

LEMMA SinterForms ==
  ASSUME NEW a \in Seq(Int)
  PROVE  \A f \in Sinter(a) : Regular(f, a, "theRest")
  <1>1. Reading(<<A, A>>, <<0>> \o Elements(a, 1), 2, a)
    <2>1. Reading(<<A, A>>, <<0>>, 2, a)
      BY DEF Reading, Suits, WordsFit, Held, S, N, A
    <2>2. QED
      BY <2>1, LongerReading
  <1>2. QED
    BY <1>1, CountedInto DEF Sinter

LEMMA SubscribeForms ==
  ASSUME NEW a \in Seq(Int)
  PROVE  \A f \in Subscribe(a) : Regular(f, a, "none")
  <1>1. Reading(<<S>>, <<0, 1>>, 0, a) /\ Short(<<0, 1>>)
    BY DEF Reading, Suits, WordsFit, Held, S, N, A, Short
  <1>2. Reading(<<A>>, <<0>> \o Elements(a, 1), 0, a)
    <2>1. Reading(<<A>>, <<0>>, 0, a)
      BY DEF Reading, Suits, WordsFit, Held, S, N, A
    <2>2. QED
      BY <2>1, LongerReading
  <1>3. QED
    BY <1>1, <1>2, ArgvPlain, CountedPlain DEF Subscribe

LEMMA GetrangeForms ==
  ASSUME NEW a
  PROVE  \A f \in Getrange(a) : Regular(f, a, "none")
  <1>1. Reading(<<S, N, N>>, <<0, 1, 2, 3>>, 0, a) /\ Short(<<0, 1, 2, 3>>)
    BY DEF Reading, Suits, WordsFit, Held, S, N, A, Short
  <1>2. QED
    BY <1>1, ArgvPlain DEF Getrange

LEMMA ZaddForms ==
  ASSUME NEW a \in Seq(Int)
  PROVE  \A f \in Zadd(a) : Regular(f, a, "none")
  <1>1. Reading(<<S, N, S>>, <<0, 1, 2, 3>>, 0, a) /\ Short(<<0, 1, 2, 3>>)
    BY DEF Reading, Suits, WordsFit, Held, S, N, A, Short
  <1>2. Reading(<<S, A>>, <<0, 1>> \o Elements(a, 2), 0, a)
    <2>1. Reading(<<S, A>>, <<0, 1>>, 0, a)
      BY DEF Reading, Suits, WordsFit, Held, S, N, A
    <2>2. QED
      BY <2>1, LongerReading
  <1>3. QED
    BY <1>1, <1>2, ArgvPlain, CountedPlain DEF Zadd

LEMMA SetrangeForms ==
  ASSUME NEW a
  PROVE  \A f \in Setrange(a) : Regular(f, a, "none")
  <1>1. Reading(<<S, N, S>>, <<0, 1, 2, 3>>, 0, a) /\ Short(<<0, 1, 2, 3>>)
    BY DEF Reading, Suits, WordsFit, Held, S, N, A, Short
  <1>2. QED
    BY <1>1, ArgvPlain DEF Setrange

LEMMA BitcountForms ==
  ASSUME NEW a
  PROVE  \A f \in Bitcount(a) : Regular(f, a, "none")
  <1>1. Reading(<<S>>, <<0, 1>>, 0, a) /\ Short(<<0, 1>>)
    BY DEF Reading, Suits, WordsFit, Held, S, N, A, Short
  <1>2. Reading(<<S, N, N>>, <<0, 1, 2, 3>>, 0, a) /\ Short(<<0, 1, 2, 3>>)
    BY DEF Reading, Suits, WordsFit, Held, S, N, A, Short
  <1>3. QED
    BY <1>1, <1>2, ArgvPlain DEF Bitcount

LEMMA GeodistForms ==
  ASSUME NEW a
  PROVE  \A f \in Geodist(a) : Regular(f, a, "none")
  <1>1. Reading(<<S, S, S>>, <<0, 1, 2, 3>>, 0, a) /\ Short(<<0, 1, 2, 3>>)
    BY DEF Reading, Suits, WordsFit, Held, S, N, A, Short
  <1>2. Reading(<<S, S, S, S>>, <<0, 1, 2, 3, 4>>, 0, a) /\ Short(<<0, 1, 2, 3, 4>>)
    BY DEF Reading, Suits, WordsFit, Held, S, N, A, Short
  <1>3. QED
    BY <1>1, <1>2, ArgvPlain DEF Geodist

\* The four ways to call one of the radius functions.
LEMMA RadiusForms ==
  ASSUME NEW a, NEW v, NEW w, NEW k, NEW e, NEW conv,
         Reading(v, w \o e, 2, a), Short(w \o e),
         Reading(v \o <<S>>, w \o <<k + 1>> \o e, 2, a),
         Short(w \o <<k + 1>> \o e),
         Reading(v \o <<S>>, w \o <<0, k + 1>> \o e, 2, a),
         Short(w \o <<0, k + 1>> \o e),
         Reading(v \o <<S, N>>, w \o <<k + 1, 0, k + 2>> \o e, 2, a),
         Short(w \o <<k + 1, 0, k + 2>> \o e)
  PROVE  \A f \in Radius(v, w, k, e, conv) : Regular(f, a, conv)
  BY ArgvInto DEF Radius

LEMMA GeoradiusForms ==
  ASSUME NEW a
  PROVE  \A f \in Georadius(a) : Regular(f, a, "theRest")
  <1> DEFINE v == <<S, A, N, N, N, S>>
             w == <<0, 1, 3, 4, 5, 6>>
  <1>1. /\ Reading(v, w \o <<>>, 2, a)
        /\ Short(w \o <<>>)
    BY DEF Reading, Suits, WordsFit, Held, S, N, A, Short
  <1>2. /\ Reading(v \o <<S>>, w \o <<6 + 1>> \o <<>>, 2, a)
        /\ Short(w \o <<6 + 1>> \o <<>>)
    BY DEF Reading, Suits, WordsFit, Held, S, N, A, Short
  <1>3. /\ Reading(v \o <<S>>, w \o <<0, 6 + 1>> \o <<>>, 2, a)
        /\ Short(w \o <<0, 6 + 1>> \o <<>>)
    BY DEF Reading, Suits, WordsFit, Held, S, N, A, Short
  <1>4. /\ Reading(v \o <<S, N>>, w \o <<6 + 1, 0, 6 + 2>> \o <<>>, 2, a)
        /\ Short(w \o <<6 + 1, 0, 6 + 2>> \o <<>>)
    BY DEF Reading, Suits, WordsFit, Held, S, N, A, Short
  <1> HIDE DEF v, w
  <1>5. \A f \in Radius(v, w, 6, <<>>, "theRest") : Regular(f, a, "theRest")
    BY <1>1, <1>2, <1>3, <1>4, RadiusForms
  <1>6. QED
    BY <1>5 DEF Georadius, v, w

LEMMA GeoradiusbymemberForms ==
  ASSUME NEW a
  PROVE  \A f \in Georadiusbymember(a) : Regular(f, a, "theRest")
  <1> DEFINE v == <<S, A, S, N, S>>
             w == <<0, 1, 3, 4, 5>>
  <1>1. /\ Reading(v, w \o <<>>, 2, a)
        /\ Short(w \o <<>>)
    BY DEF Reading, Suits, WordsFit, Held, S, N, A, Short
  <1>2. /\ Reading(v \o <<S>>, w \o <<5 + 1>> \o <<>>, 2, a)
        /\ Short(w \o <<5 + 1>> \o <<>>)
    BY DEF Reading, Suits, WordsFit, Held, S, N, A, Short
  <1>3. /\ Reading(v \o <<S>>, w \o <<0, 5 + 1>> \o <<>>, 2, a)
        /\ Short(w \o <<0, 5 + 1>> \o <<>>)
    BY DEF Reading, Suits, WordsFit, Held, S, N, A, Short
  <1>4. /\ Reading(v \o <<S, N>>, w \o <<5 + 1, 0, 5 + 2>> \o <<>>, 2, a)
        /\ Short(w \o <<5 + 1, 0, 5 + 2>> \o <<>>)
    BY DEF Reading, Suits, WordsFit, Held, S, N, A, Short
  <1> HIDE DEF v, w
  <1>5. \A f \in Radius(v, w, 5, <<>>, "theRest") : Regular(f, a, "theRest")
    BY <1>1, <1>2, <1>3, <1>4, RadiusForms
  <1>6. QED
    BY <1>5 DEF Georadiusbymember, v, w

LEMMA GeoradiusWDForms ==
  ASSUME NEW a, NEW cmd
  PROVE  \A f \in GeoradiusWD(a, cmd) : Regular(f, a, "tipoExec")
  <1> DEFINE v == <<S, A, N, N, N, S>>
             w == <<0, 1, 3, 4, 5, 6>>
  <1>1. /\ Reading(v, w \o <<0>>, 2, a)
        /\ Short(w \o <<0>>)
    BY DEF Reading, Suits, WordsFit, Held, S, N, A, Short
  <1>2. /\ Reading(v \o <<S>>, w \o <<6 + 1>> \o <<0>>, 2, a)
        /\ Short(w \o <<6 + 1>> \o <<0>>)
    BY DEF Reading, Suits, WordsFit, Held, S, N, A, Short
  <1>3. /\ Reading(v \o <<S>>, w \o <<0, 6 + 1>> \o <<0>>, 2, a)
        /\ Short(w \o <<0, 6 + 1>> \o <<0>>)
    BY DEF Reading, Suits, WordsFit, Held, S, N, A, Short
  <1>4. /\ Reading(v \o <<S, N>>, w \o <<6 + 1, 0, 6 + 2>> \o <<0>>, 2, a)
        /\ Short(w \o <<6 + 1, 0, 6 + 2>> \o <<0>>)
    BY DEF Reading, Suits, WordsFit, Held, S, N, A, Short
  <1>5. /\ Reading(v, w \o <<0, 0>>, 2, a)
        /\ Short(w \o <<0, 0>>)
    BY DEF Reading, Suits, WordsFit, Held, S, N, A, Short
  <1>6. /\ Reading(v \o <<S>>, w \o <<6 + 1>> \o <<0, 0>>, 2, a)
        /\ Short(w \o <<6 + 1>> \o <<0, 0>>)
    BY DEF Reading, Suits, WordsFit, Held, S, N, A, Short
  <1>7. /\ Reading(v \o <<S>>, w \o <<0, 6 + 1>> \o <<0, 0>>, 2, a)
        /\ Short(w \o <<0, 6 + 1>> \o <<0, 0>>)
    BY DEF Reading, Suits, WordsFit, Held, S, N, A, Short
  <1>8. /\ Reading(v \o <<S, N>>, w \o <<6 + 1, 0, 6 + 2>> \o <<0, 0>>, 2, a)
        /\ Short(w \o <<6 + 1, 0, 6 + 2>> \o <<0, 0>>)
    BY DEF Reading, Suits, WordsFit, Held, S, N, A, Short
  <1> HIDE DEF v, w
  <1>9. \A f \in Radius(v, w, 6, <<0>>, "tipoExec") : Regular(f, a, "tipoExec")
    BY <1>1, <1>2, <1>3, <1>4, RadiusForms
  <1>10. \A f \in Radius(v, w, 6, <<0, 0>>, "tipoExec") : Regular(f, a, "tipoExec")
    BY <1>5, <1>6, <1>7, <1>8, RadiusForms
  <1>11. QED
    BY <1>9, <1>10 DEF GeoradiusWD, Wanted, v, w

LEMMA GeoradiusbymemberWDForms ==
  ASSUME NEW a, NEW cmd
  PROVE  \A f \in GeoradiusbymemberWD(a, cmd) : Regular(f, a, "tipoExec")
  <1> DEFINE v == <<S, A, S, N, S>>
             w == <<0, 1, 3, 4, 5>>
  <1>1. /\ Reading(v, w \o <<0>>, 2, a)
        /\ Short(w \o <<0>>)
    BY DEF Reading, Suits, WordsFit, Held, S, N, A, Short
  <1>2. /\ Reading(v \o <<S>>, w \o <<5 + 1>> \o <<0>>, 2, a)
        /\ Short(w \o <<5 + 1>> \o <<0>>)
    BY DEF Reading, Suits, WordsFit, Held, S, N, A, Short
  <1>3. /\ Reading(v \o <<S>>, w \o <<0, 5 + 1>> \o <<0>>, 2, a)
        /\ Short(w \o <<0, 5 + 1>> \o <<0>>)
    BY DEF Reading, Suits, WordsFit, Held, S, N, A, Short
  <1>4. /\ Reading(v \o <<S, N>>, w \o <<5 + 1, 0, 5 + 2>> \o <<0>>, 2, a)
        /\ Short(w \o <<5 + 1, 0, 5 + 2>> \o <<0>>)
    BY DEF Reading, Suits, WordsFit, Held, S, N, A, Short
  <1>5. /\ Reading(v, w \o <<0, 0>>, 2, a)
        /\ Short(w \o <<0, 0>>)
    BY DEF Reading, Suits, WordsFit, Held, S, N, A, Short
  <1>6. /\ Reading(v \o <<S>>, w \o <<5 + 1>> \o <<0, 0>>, 2, a)
        /\ Short(w \o <<5 + 1>> \o <<0, 0>>)
    BY DEF Reading, Suits, WordsFit, Held, S, N, A, Short
  <1>7. /\ Reading(v \o <<S>>, w \o <<0, 5 + 1>> \o <<0, 0>>, 2, a)
        /\ Short(w \o <<0, 5 + 1>> \o <<0, 0>>)
    BY DEF Reading, Suits, WordsFit, Held, S, N, A, Short
  <1>8. /\ Reading(v \o <<S, N>>, w \o <<5 + 1, 0, 5 + 2>> \o <<0, 0>>, 2, a)
        /\ Short(w \o <<5 + 1, 0, 5 + 2>> \o <<0, 0>>)
    BY DEF Reading, Suits, WordsFit, Held, S, N, A, Short
  <1> HIDE DEF v, w
  <1>9. \A f \in Radius(v, w, 5, <<0>>, "tipoExec") : Regular(f, a, "tipoExec")
    BY <1>1, <1>2, <1>3, <1>4, RadiusForms
  <1>10. \A f \in Radius(v, w, 5, <<0, 0>>, "tipoExec") : Regular(f, a, "tipoExec")
    BY <1>5, <1>6, <1>7, <1>8, RadiusForms
  <1>11. QED
    BY <1>9, <1>10 DEF GeoradiusbymemberWD, Wanted, v, w

LEMMA SetbitForms ==
  ASSUME NEW a
  PROVE  \A f \in Setbit(a) : Regular(f, a, "none")
  <1>1. Reading(<<S, N, N>>, <<0, 1, 2, 3>>, 0, a)
    BY DEF Reading, Suits, WordsFit, Held, S, N, A
  <1>2. QED
    BY <1>1, FormatPlain DEF Setbit

LEMMA LinsertForms ==
  ASSUME NEW a
  PROVE  \A f \in Linsert(a) : Regular(f, a, "none")
  <1>1. Reading(<<S, S, S>>, <<0, 1, 0, 2, 3>>, 0, a) /\ Short(<<0, 1, 0, 2, 3>>)
    BY DEF Reading, Suits, WordsFit, Held, S, N, A, Short
  <1>2. QED
    BY <1>1, ArgvPlain DEF Linsert

LEMMA SmoveForms ==
  ASSUME NEW a
  PROVE  \A f \in Smove(a) : Regular(f, a, "none")
  <1>1. Reading(<<S, S, S>>, <<0, 1, 2, 3>>, 0, a) /\ Short(<<0, 1, 2, 3>>)
    BY DEF Reading, Suits, WordsFit, Held, S, N, A, Short
  <1>2. QED
    BY <1>1, ArgvPlain DEF Smove

LEMMA ZincrbyForms ==
  ASSUME NEW a
  PROVE  \A f \in Zincrby(a) : Regular(f, a, "none")
  <1>1. Reading(<<S, N, S>>, <<0, 1, 2, 3>>, 0, a) /\ Short(<<0, 1, 2, 3>>)
    BY DEF Reading, Suits, WordsFit, Held, S, N, A, Short
  <1>2. QED
    BY <1>1, ArgvPlain DEF Zincrby

LEMMA HincrbyForms ==
  ASSUME NEW a
  PROVE  \A f \in Hincrby(a) : Regular(f, a, "none")
  <1>1. Reading(<<S, S, N>>, <<0, 1, 2, 3>>, 0, a) /\ Short(<<0, 1, 2, 3>>)
    BY DEF Reading, Suits, WordsFit, Held, S, N, A, Short
  <1>2. QED
    BY <1>1, ArgvPlain DEF Hincrby

LEMMA RestoreForms ==
  ASSUME NEW a
  PROVE  \A f \in Restore(a) : Regular(f, a, "none")
  <1>1. Reading(<<S, S, S>>, <<0, 1, 2, 3>>, 0, a)
    BY DEF Reading, Suits, WordsFit, Held, S, N, A
  <1>2. QED
    BY <1>1, FormatPlain DEF Restore

LEMMA ExpireForms ==
  ASSUME NEW a
  PROVE  \A f \in Expire(a) : Regular(f, a, "none")
  <1>1. Reading(<<S, N>>, <<0, 1, 2>>, 0, a)
    BY DEF Reading, Suits, WordsFit, Held, S, N, A
  <1>2. QED
    BY <1>1, FormatPlain DEF Expire

LEMMA SismemberForms ==
  ASSUME NEW a, NEW cmd
  PROVE  \A f \in Sismember(a, cmd) : Regular(f, a, "none")
  <1>1. Reading(<<S, S>>, <<0, 0, 1, 2>>, 0, a) /\ Short(<<0, 0, 1, 2>>)
    BY DEF Reading, Suits, WordsFit, Held, S, N, A, Short
  <1>2. Reading(<<S, S>>, <<0, 1, 2>>, 0, a) /\ Short(<<0, 1, 2>>)
    BY DEF Reading, Suits, WordsFit, Held, S, N, A, Short
  <1>3. QED
    BY <1>1, <1>2, ArgvPlain DEF Sismember

LEMMA ZrangeForms ==
  ASSUME NEW a, NEW cmd
  PROVE  \A f \in Zrange(a, cmd) : Regular(f, a, "theRest")
  <1>1. Reading(<<S, A, N, N>>, <<0, 1, 3, 4, 0>>, 2, a) /\ Short(<<0, 1, 3, 4, 0>>)
    BY DEF Reading, Suits, WordsFit, Held, S, N, A, Short
  <1>2. Reading(<<S, A, N, N>>, <<0, 1, 3, 4>>, 2, a) /\ Short(<<0, 1, 3, 4>>)
    BY DEF Reading, Suits, WordsFit, Held, S, N, A, Short
  <1>3. QED
    BY <1>1, <1>2, ArgvInto DEF Zrange

LEMMA ZunionstoreForms ==
  ASSUME NEW a \in Seq(Int)
  PROVE  \A f \in Zunionstore(a) : Regular(f, a, "none")
  <1> DEFINE head    == <<0, 1, 0>>
             keys    == head \o Elements(a, 2)
             weights == <<0>> \o Elements(a, 3)
             last    == <<4, 4>>
  <1>1. weights \in Seq(Int) /\ WordsFit(weights, a)
    BY ElementsFit, ConcatFit DEF WordsFit, Held
  <1>2. Elements(a, 2) \in Seq(Int) /\ WordsFit(Elements(a, 2), a)
    BY ElementsFit
  <1>3. head \in Seq(Int) /\ (a[1] = SCALAR => WordsFit(head, a))
    BY DEF WordsFit, Held
  <1>4. last \in Seq(Int) /\ (a[4] = SCALAR => WordsFit(last, a))
    BY DEF WordsFit, Held
  <1> HIDE DEF weights, head, last
  <1>5. keys \in Seq(Int) /\ (a[1] = SCALAR => WordsFit(keys, a))
    BY <1>2, <1>3, ConcatFit
  <1> HIDE DEF keys
  <1>6. Reading(<<S, A>>, keys, 0, a)
    BY <1>5 DEF Reading, Suits, S, N, A
  <1>7. Reading(<<S, A, S>>, keys \o <<3, 3>>, 0, a)
    <2> DEFINE weight == <<3, 3>>
    <2>1. weight \in Seq(Int) /\ (a[3] = SCALAR => WordsFit(weight, a))
      BY DEF WordsFit, Held
    <2>2. Suits(<<S, A, S>>, a) => a[1] = SCALAR /\ a[3] = SCALAR
      BY DEF Suits, S, N, A
    <2> HIDE DEF weight
    <2>3. /\ keys \o weight \in Seq(Int)
          /\ a[1] = SCALAR /\ a[3] = SCALAR => WordsFit(keys \o weight, a)
      BY <1>5, <2>1, ConcatFit
    <2>4. QED
      BY <2>2, <2>3 DEF Reading, weight
  <1>8. /\ keys \o weights \in Seq(Int)
        /\ a[1] = SCALAR => WordsFit(keys \o weights, a)
    BY <1>1, <1>5, ConcatFit
  <1>9. Reading(<<S, A, A>>, keys \o weights, 0, a)
    <2>1. Suits(<<S, A, A>>, a) => a[1] = SCALAR
      BY DEF Suits, S, N, A
    <2>2. QED
      BY <1>8, <2>1 DEF Reading
  <1>10. Reading(<<S, A, A, S>>, keys \o weights \o last, 0, a)
    <2>1. Suits(<<S, A, A, S>>, a) => a[1] = SCALAR /\ a[4] = SCALAR
      BY DEF Suits, S, N, A
    <2> DEFINE both == keys \o weights
    <2>2. both \in Seq(Int) /\ (a[1] = SCALAR => WordsFit(both, a))
      BY <1>8
    <2> HIDE DEF both
    <2>3. /\ both \o last \in Seq(Int)
          /\ a[1] = SCALAR /\ a[4] = SCALAR => WordsFit(both \o last, a)
      BY <1>4, <2>2, ConcatFit
    <2>4. QED
      BY <2>1, <2>3 DEF Reading, both
  <1>11. QED
    BY <1>6, <1>7, <1>9, <1>10, CountedPlain
    DEF Zunionstore, keys, head, weights, last

LEMMA KeysForms ==
  ASSUME NEW a, NEW cmd
  PROVE  \A f \in Keys(a, cmd) : Regular(f, a, "theRest")
  <1>1. Reading(<<S, A>>, <<0, 0, 1>>, 2, a) /\ Short(<<0, 0, 1>>)
    BY DEF Reading, Suits, WordsFit, Held, S, N, A, Short
  <1>2. Reading(<<S, A>>, <<0, 1>>, 2, a) /\ Short(<<0, 1>>)
    BY DEF Reading, Suits, WordsFit, Held, S, N, A, Short
  <1>3. QED
    BY <1>1, <1>2, ArgvInto DEF Keys

LEMMA GeohashForms ==
  ASSUME NEW a \in Seq(Int)
  PROVE  \A f \in Geohash(a) : Regular(f, a, "theRest")
  <1>1. Reading(<<S, A, A>>, <<0, 1>> \o Elements(a, 2), 3, a)
    <2>1. Reading(<<S, A, A>>, <<0, 1>>, 3, a)
      BY DEF Reading, Suits, WordsFit, Held, S, N, A
    <2>2. QED
      BY <2>1, LongerReading
  <1>2. QED
    BY <1>1, CountedInto DEF Geohash

LEMMA InfoForms ==
  ASSUME NEW a
  PROVE  \A f \in Info(a) : Regular(f, a, "tipoInfo")
  <1>1. Reading(<<A>>, <<0>>, 1, a) /\ Short(<<0>>)
    BY DEF Reading, Suits, WordsFit, Held, S, N, A, Short
  <1>2. Reading(<<A, S>>, <<0, 2>>, 1, a) /\ Short(<<0, 2>>)
    BY DEF Reading, Suits, WordsFit, Held, S, N, A, Short
  <1>3. QED
    BY <1>1, <1>2, ArgvInto DEF Info

LEMMA MsetForms ==
  ASSUME NEW a \in Seq(Int)
  PROVE  \A f \in Mset(a) : Regular(f, a, "none")
  <1>1. Reading(<<A>>, <<0>> \o Elements(a, 1), 0, a)
    <2>1. Reading(<<A>>, <<0>>, 0, a)
      BY DEF Reading, Suits, WordsFit, Held, S, N, A
    <2>2. QED
      BY <2>1, LongerReading
  <1>2. QED
    BY <1>1, CountedPlain DEF Mset

LEMMA MgetForms ==
  ASSUME NEW a \in Seq(Int)
  PROVE  \A f \in Mget(a) : Regular(f, a, "theRest")
  <1>1. Reading(<<S, A>>, <<0, 1>>, 2, a) /\ Short(<<0, 1>>)
    BY DEF Reading, Suits, WordsFit, Held, S, N, A, Short
  <1>2. Reading(<<A, A>>, <<0>> \o Elements(a, 1), 2, a)
    <2>1. Reading(<<A, A>>, <<0>>, 2, a)
      BY DEF Reading, Suits, WordsFit, Held, S, N, A
    <2>2. QED
      BY <2>1, LongerReading
  <1>3. QED
    BY <1>1, <1>2, ArgvInto, CountedInto DEF Mget

-----------------------------------------------------------------------------
(* The other functions.                                                    *)

\* f differs from g at most in what it frees and answers.
Alike(f, g) ==
  /\ DOMAIN f = FormFields
  /\ f.nargs = g.nargs /\ f.valid = g.valid /\ f.words = g.words
  /\ f.cap = g.cap /\ f.torn = g.torn /\ f.conv = g.conv
  /\ f.dest = g.dest /\ f.sub = g.sub

LEMMA AlikeForms ==
  ASSUME NEW a, NEW conv, NEW f, NEW g, Regular(g, a, conv), Alike(f, g)
  PROVE  /\ Sized(f) /\ Roomy(f) /\ Fitting(f, a) /\ Ordinary(f)
         /\ Converting(f, conv)
  BY DEF Alike, Regular, Sized, Roomy, Fitting, Fits, Ordinary, Converting

\* A form of a subcommand.
LEMMA SubRegular ==
  ASSUME NEW a, NEW conv, NEW f, Regular(f, a, conv), NEW name,
         name \notin {"exists", "channels", "numsub"}
  PROVE  Regular(Sub(f, name), a, conv)
  BY DEF Sub, Regular, Sized, FormFields, Roomy, Fitting, Fits, Ordinary,
         Converting, Freeing

LEMMA BitopForms ==
  ASSUME NEW a \in Seq(Int)
  PROVE  \A f \in Bitop(a) : Regular(f, a, "none")
  <1>1. Reading(<<S, S, S>>, <<0, 1, 2, 3>>, 0, a) /\ Short(<<0, 1, 2, 3>>)
    BY DEF Reading, Suits, WordsFit, Held, S, N, A, Short
  <1>2. Reading(<<S, S, A>>, <<0, 1, 2>> \o Elements(a, 3), 0, a)
    <2>1. Reading(<<S, S, A>>, <<0, 1, 2>>, 0, a)
      BY DEF Reading, Suits, WordsFit, Held, S, N, A
    <2>2. QED
      BY <2>1, LongerReading
  <1>3. QED
    BY <1>1, <1>2, ArgvPlain, CountedPlain, SubRegular DEF Bitop

LEMMA ObjectForms ==
  ASSUME NEW a
  PROVE  \A f \in Object(a) : Regular(f, a, "none")
  <1>1. Reading(<<S, S>>, <<0, 1, 2>>, 0, a) /\ Short(<<0, 1, 2>>)
    BY DEF Reading, Suits, WordsFit, Held, S, N, A, Short
  <1>2. QED
    BY <1>1, ArgvPlain, SubRegular DEF Object

LEMMA SlowlogForms ==
  ASSUME NEW a, NEW f \in Slowlog(a)
  PROVE  /\ Sized(f) /\ Roomy(f) /\ Fitting(f, a) /\ Freeing(f) /\ Ordinary(f)
         /\ \/ Converting(f, "none") /\ f.nargs = 1
            \/ Converting(f, "tipoExec") /\ f.nargs > 1
         /\ f.answer = "null"
  <1>1. Reading(<<S>>, <<0, 1>>, 0, a) /\ Short(<<0, 1>>)
    BY DEF Reading, Suits, WordsFit, Held, S, N, A, Short
  <1>2. Reading(<<S, A>>, <<0, 1>>, 2, a) /\ Short(<<0, 1>>)
    BY DEF Reading, Suits, WordsFit, Held, S, N, A, Short
  <1>3. Reading(<<S, S, A>>, <<0, 1, 2>>, 3, a) /\ Short(<<0, 1, 2>>)
    BY DEF Reading, Suits, WordsFit, Held, S, N, A, Short
  <1>4. PICK g \in {Argv(<<S>>, <<0, 1>>),
                    Into(Argv(<<S, A>>, <<0, 1>>), "tipoExec", 2),
                    Into(Argv(<<S, S, A>>, <<0, 1, 2>>), "tipoExec", 3)} :
          f = [g EXCEPT !.answer = "null"]
    BY DEF Slowlog
  <1>5. CASE g = Argv(<<S>>, <<0, 1>>)
    <2>1. Regular(g, a, "none")
      BY <1>1, <1>5, ArgvPlain
    <2>2. g.nargs = 1
      BY <1>5 DEF Argv
    <2>3. Alike(f, g) /\ Freeing(f) /\ f.nargs = 1 /\ f.answer = "null"
      BY <1>4, <2>1, <2>2 DEF Alike, Regular, Sized, FormFields, Freeing
    <2>4. QED
      BY <2>1, <2>3, AlikeForms
  <1>6. CASE g = Into(Argv(<<S, A>>, <<0, 1>>), "tipoExec", 2)
    <2>1. Regular(g, a, "tipoExec")
      BY <1>2, <1>6, ArgvInto
    <2>2. g.nargs = 2
      BY <1>6 DEF Argv, Into
    <2>3. Alike(f, g) /\ Freeing(f) /\ f.nargs = 2 /\ f.answer = "null"
      BY <1>4, <2>1, <2>2 DEF Alike, Regular, Sized, FormFields, Freeing
    <2>4. QED
      BY <2>1, <2>3, AlikeForms
  <1>7. CASE g = Into(Argv(<<S, S, A>>, <<0, 1, 2>>), "tipoExec", 3)
    <2>1. Regular(g, a, "tipoExec")
      BY <1>3, <1>7, ArgvInto
    <2>2. g.nargs = 3
      BY <1>7 DEF Argv, Into
    <2>3. Alike(f, g) /\ Freeing(f) /\ f.nargs = 3 /\ f.answer = "null"
      BY <1>4, <2>1, <2>2 DEF Alike, Regular, Sized, FormFields, Freeing
    <2>4. QED
      BY <2>1, <2>3, AlikeForms
  <1>8. QED
    BY <1>4, <1>5, <1>6, <1>7

LEMMA EvalshaForms ==
  ASSUME NEW a \in Seq(Int), NEW f \in Evalsha(a)
  PROVE  /\ Sized(f) /\ Roomy(f) /\ Fitting(f, a) /\ Ordinary(f)
         /\ Converting(f, "tipoExec")
         /\ f.lost = 0 /\ f.sync = "all" /\ f.answer = "one"
  <1> DEFINE w == <<0, 1, 2>> \o Elements(a, 3)
  <1>1. Reading(<<S, N, A, A>>, w, 4, a)
    <2>1. Reading(<<S, N, A, A>>, <<0, 1, 2>>, 4, a)
      BY DEF Reading, Suits, WordsFit, Held, S, N, A
    <2>2. QED
      BY <2>1, LongerReading
  <1> DEFINE g == Into(Counted(<<S, N, A, A>>, w), "tipoExec", 4)
  <1>2. f = [g EXCEPT !.piped = "none"]
    BY DEF Evalsha
  <1> HIDE DEF w
  <1>3. Regular(g, a, "tipoExec")
    BY <1>1, CountedInto
  <1> HIDE DEF g
  <1>4. Alike(f, g) /\ f.lost = 0 /\ f.sync = "all" /\ f.answer = "one"
    BY <1>2, <1>3 DEF Alike, Regular, Sized, FormFields, Freeing
  <1>5. QED
    BY <1>3, <1>4, AlikeForms

LEMMA ClientTwoForms ==
  ASSUME NEW a, NEW cmd, NEW f \in ClientTwo(a, cmd)
  PROVE  /\ Sized(f) /\ Roomy(f) /\ Fitting(f, a) /\ Freeing(f) /\ Ordinary(f)
         /\ f.conv = IF cmd = "clientList" THEN "tipoClient" ELSE "none"
         /\ f.answer = "one"
  <1> DEFINE head == IF cmd \in {"clientKillAddr", "clientKillId", "clientKillType"}
                     THEN <<0, 0, 0>> ELSE <<0, 0>>
             conv == IF cmd = "clientList" THEN "tipoClient" ELSE "none"
  <1>1. Reading(<<S>>, head \o <<1>>, 0, a) /\ Short(head \o <<1>>)
    <2>1. /\ Reading(<<S>>, <<0, 0, 0>> \o <<1>>, 0, a)
          /\ Short(<<0, 0, 0>> \o <<1>>)
      BY DEF Reading, Suits, WordsFit, Held, S, N, A, Short
    <2>2. Reading(<<S>>, <<0, 0>> \o <<1>>, 0, a) /\ Short(<<0, 0>> \o <<1>>)
      BY DEF Reading, Suits, WordsFit, Held, S, N, A, Short
    <2>3. QED
      BY <2>1, <2>2
  <1>2. Reading(<<A>>, head, 1, a) /\ Short(head)
    <2>1. Reading(<<A>>, <<0, 0, 0>>, 1, a) /\ Short(<<0, 0, 0>>)
      BY DEF Reading, Suits, WordsFit, Held, S, N, A, Short
    <2>2. Reading(<<A>>, <<0, 0>>, 1, a) /\ Short(<<0, 0>>)
      BY DEF Reading, Suits, WordsFit, Held, S, N, A, Short
    <2>3. QED
      BY <2>1, <2>2
  <1>3. f \in {Into(Argv(<<S>>, head \o <<1>>), conv, 0),
               Into(Argv(<<A>>, head), conv, 1)}
    BY DEF ClientTwo
  <1> HIDE DEF head, conv
  <1>4. ASSUME NEW v, NEW w, NEW dest, Reading(v, w, dest, a), Short(w),
               f = Into(Argv(v, w), conv, dest)
        PROVE  /\ Sized(f) /\ Roomy(f) /\ Fitting(f, a) /\ Freeing(f)
               /\ Ordinary(f) /\ f.conv = conv /\ f.answer = "one"
    <2>1. Shape(f, v, w, 25, conv, dest)
      BY <1>4, ArgvShape, IntoShape DEF ArgvSlots
    <2>2. Fitting(f, a)
      BY <1>4, <2>1, ShapeFits
    <2>3. Len(w) \in Nat /\ Len(v) \in Nat /\ Len(w) <= 25
      BY <1>4 DEF Reading, Short
    <2>4. Sized(f) /\ Roomy(f) /\ Freeing(f) /\ Ordinary(f)
      BY <2>1, <2>3, ShapeParts
    <2>5. f.conv = conv /\ f.answer = "one"
      BY <2>1 DEF Shape
    <2>6. QED
      BY <2>2, <2>4, <2>5
  <1>5. QED
    BY <1>1, <1>2, <1>3, <1>4 DEF conv

LEMMA SpopForms ==
  ASSUME NEW a, NEW f \in Spop(a)
  PROVE  \/ Regular(f, a, "none") /\ f.nargs = 1
         \/ Regular(f, a, "theRest") /\ f.nargs = 3
  <1>1. Reading(<<S>>, <<0, 1>>, 0, a) /\ Short(<<0, 1>>)
    BY DEF Reading, Suits, WordsFit, Held, S, N, A, Short
  <1>2. Reading(<<S, N, A>>, <<0, 1, 2>>, 3, a) /\ Short(<<0, 1, 2>>)
    BY DEF Reading, Suits, WordsFit, Held, S, N, A, Short
  <1>3. CASE f = Argv(<<S>>, <<0, 1>>)
    <2>1. Regular(f, a, "none")
      BY <1>1, <1>3, ArgvPlain
    <2>2. f.nargs = 1
      BY <1>3 DEF Argv
    <2>3. QED
      BY <2>1, <2>2
  <1>4. CASE f = Into(Argv(<<S, N, A>>, <<0, 1, 2>>), "theRest", 3)
    <2>1. Regular(f, a, "theRest")
      BY <1>2, <1>4, ArgvInto
    <2>2. f.nargs = 3
      BY <1>4 DEF Argv, Into
    <2>3. QED
      BY <2>1, <2>2
  <1>5. QED
    BY <1>3, <1>4 DEF Spop

LEMMA SrandmemberForms ==
  ASSUME NEW a, NEW f \in Srandmember(a)
  PROVE  /\ Sized(f) /\ Roomy(f) /\ Fitting(f, a) /\ Freeing(f) /\ Ordinary(f)
         /\ Converting(f, "theRest") /\ f.nargs = 3 /\ f.answer = "null"
  <1> DEFINE g == Into(Format(<<S, N, A>>, <<0, 1, 2>>), "theRest", 3)
  <1>1. Reading(<<S, N, A>>, <<0, 1, 2>>, 3, a)
    BY DEF Reading, Suits, WordsFit, Held, S, N, A
  <1>2. Regular(g, a, "theRest")
    BY <1>1, FormatInto
  <1>3. g.nargs = 3
    BY DEF Format, Argv, Into
  <1>4. f = [g EXCEPT !.answer = "null"]
    BY DEF Srandmember
  <1> HIDE DEF g
  <1>5. Alike(f, g) /\ Freeing(f) /\ f.nargs = 3 /\ f.answer = "null"
    BY <1>2, <1>3, <1>4 DEF Alike, Regular, Sized, FormFields, Freeing
  <1>6. QED
    BY <1>2, <1>5, AlikeForms

\* The timeout has no slot of its own.
LEMMA BrpopForms ==
  ASSUME NEW a \in Seq(Int), NEW f \in Brpop(a)
  PROVE  /\ Sized(f) /\ Fitting(f, a) /\ Freeing(f) /\ Ordinary(f)
         /\ (Roomy(f) \/ Len(f.words) = f.cap + 1)
         /\ Converting(f, "theRest") /\ f.answer = "one"
  <1> DEFINE keys == <<0>> \o Elements(a, 1)
             w == keys \o <<3>>
             g == [Counted(<<A, A, N>>, w) EXCEPT !.cap = Len(keys)]
  <1>1. Reading(<<S, A, N>>, <<0, 1, 3>>, 2, a) /\ Short(<<0, 1, 3>>)
    BY DEF Reading, Suits, WordsFit, Held, S, N, A, Short
  <1>2. keys \in Seq(Int) /\ WordsFit(keys, a)
    BY ElementsFit, ConcatFit DEF WordsFit, Held
  <1> HIDE DEF keys
  <1>3. Reading(<<A, A, N>>, w, 2, a) /\ Len(w) = Len(keys) + 1 /\ Len(keys) \in Nat
    <2>1. Suits(<<A, A, N>>, a) => a[2] # SCALAR /\ a[3] = SCALAR
      BY DEF Suits, S, N, A
    <2>2. a[3] = SCALAR => WordsFit(w, a)
      BY <1>2 DEF WordsFit, Held
    <2>3. w \in Seq(Int) /\ Len(w) = Len(keys) + 1 /\ Len(keys) \in Nat
      BY <1>2
    <2>4. Len(<<A, A, N>>) \in Nat
      OBVIOUS
    <2> HIDE DEF w
    <2>5. QED
      BY <2>1, <2>2, <2>3, <2>4 DEF Reading
  <1> HIDE DEF w
  <1>4. CASE f = Into(Argv(<<S, A, N>>, <<0, 1, 3>>), "theRest", 2)
    <2>1. Regular(f, a, "theRest")
      BY <1>1, <1>4, ArgvInto
    <2>2. QED
      BY <2>1 DEF Regular
  <1>5. CASE f = Into(g, "theRest", 2)
    <2>1. Shape(f, <<A, A, N>>, w, Len(keys), "theRest", 2)
      BY <1>5, CountedShape, CapShape, IntoShape
    <2>2. Fitting(f, a)
      BY <1>3, <2>1, ShapeFits
    <2>3. Len(<<A, A, N>>) \in Nat
      OBVIOUS
    <2>4. Sized(f) /\ Freeing(f) /\ Ordinary(f) /\ Converting(f, "theRest")
      <3>1. Len(w) \in Nat
        BY <1>3
      <3>2. 2 > 0
        OBVIOUS
      <3>3. QED
        BY <1>3, <2>1, <2>3, <3>1, <3>2, ShapeParts
    <2>5. Len(f.words) = f.cap + 1 /\ f.answer = "one"
      BY <1>3, <2>1 DEF Shape
    <2>6. QED
      BY <2>2, <2>4, <2>5
  <1>6. QED
    BY <1>4, <1>5 DEF Brpop, keys, w

\* argv is begun twice.
LEMMA SaddForms ==
  ASSUME NEW a \in Seq(Int), NEW f \in Sadd(a)
  PROVE  /\ Sized(f) /\ Roomy(f) /\ Fitting(f, a) /\ Ordinary(f)
         /\ Converting(f, "none")
         /\ f.sync = "all" /\ f.piped = "all" /\ f.answer = "one"
         /\ f.lost \in Nat
  <1>1. Reading(<<S, S>>, <<0, 1, 2>>, 0, a) /\ Short(<<0, 1, 2>>)
    BY DEF Reading, Suits, WordsFit, Held, S, N, A, Short
  <1> DEFINE w == <<0, 1>> \o Elements(a, 2)
  <1>2. Reading(<<S, A>>, w, 0, a)
    <2>1. Reading(<<S, A>>, <<0, 1>>, 0, a)
      BY DEF Reading, Suits, WordsFit, Held, S, N, A
    <2>2. QED
      BY <2>1, LongerReading
  <1> HIDE DEF w
  <1>3. CASE f = [Argv(<<S, S>>, <<0, 1, 2>>) EXCEPT !.lost = 1]
    <2>1. Regular(Argv(<<S, S>>, <<0, 1, 2>>), a, "none")
      BY <1>1, ArgvPlain
    <2>2. /\ Alike(f, Argv(<<S, S>>, <<0, 1, 2>>))
          /\ f.sync = "all" /\ f.piped = "all" /\ f.answer = "one" /\ f.lost = 1
      BY <1>3, <2>1 DEF Alike, Regular, Sized, FormFields, Freeing
    <2>3. QED
      BY <2>1, <2>2, AlikeForms
  <1>4. CASE f = [Counted(<<S, A>>, w) EXCEPT !.lost = 2]
    <2>1. Regular(Counted(<<S, A>>, w), a, "none")
      BY <1>2, CountedPlain
    <2>2. /\ Alike(f, Counted(<<S, A>>, w))
          /\ f.sync = "all" /\ f.piped = "all" /\ f.answer = "one" /\ f.lost = 2
      BY <1>4, <2>1 DEF Alike, Regular, Sized, FormFields, Freeing
    <2>3. QED
      BY <2>1, <2>2, AlikeForms
  <1>5. QED
    BY <1>3, <1>4 DEF Sadd, w

\* argv is freed and the strings in it are not.
LEMMA HmsetForms ==
  ASSUME NEW a \in Seq(Int), NEW f \in Hmset(a)
  PROVE  /\ Sized(f) /\ Roomy(f) /\ Fitting(f, a) /\ Ordinary(f)
         /\ Converting(f, "none") /\ f.lost = 0 /\ f.answer = "one"
  <1> DEFINE w == <<0, 1>> \o Elements(a, 2)
             g == Counted(<<S, A>>, w)
  <1>1. Reading(<<S, A>>, w, 0, a)
    <2>1. Reading(<<S, A>>, <<0, 1>>, 0, a)
      BY DEF Reading, Suits, WordsFit, Held, S, N, A
    <2>2. QED
      BY <2>1, LongerReading
  <1>2. f = [g EXCEPT !.sync = "block", !.piped = "block"]
    BY DEF Hmset
  <1> HIDE DEF w
  <1>3. Regular(g, a, "none")
    BY <1>1, CountedPlain
  <1> HIDE DEF g
  <1>4. Alike(f, g) /\ f.lost = 0 /\ f.answer = "one"
    BY <1>2, <1>3 DEF Alike, Regular, Sized, FormFields, Freeing
  <1>5. QED
    BY <1>3, <1>4, AlikeForms

LEMMA HmgetForms ==
  ASSUME NEW a \in Seq(Int), NEW cmd, NEW f \in Hmget(a, cmd)
  PROVE  /\ Sized(f) /\ Roomy(f) /\ Fitting(f, a) /\ Ordinary(f)
         /\ Converting(f, IF cmd = "geopos" THEN "tipoExec" ELSE "theRest")
         /\ f.lost = 0 /\ f.answer = "one"
  <1> DEFINE conv == IF cmd = "geopos" THEN "tipoExec" ELSE "theRest"
             w == <<0, 1>> \o Elements(a, 2)
             g == Into(Counted(<<S, A, A>>, w), conv, 3)
             h == Into(Format(<<S, S, A>>, <<0, 1, 2>>), conv, 3)
  <1>1. Reading(<<S, S, A>>, <<0, 1, 2>>, 3, a)
    BY DEF Reading, Suits, WordsFit, Held, S, N, A
  <1>2. Reading(<<S, A, A>>, w, 3, a)
    <2>1. Reading(<<S, A, A>>, <<0, 1>>, 3, a)
      BY DEF Reading, Suits, WordsFit, Held, S, N, A
    <2>2. QED
      BY <2>1, LongerReading
  <1>3. f \in {h, [g EXCEPT !.sync = "block", !.piped = "none"]}
    BY DEF Hmget
  <1> HIDE DEF w, conv
  <1>4. Regular(g, a, conv) /\ Regular(h, a, conv)
    BY <1>1, <1>2, CountedInto, FormatInto
  <1> HIDE DEF g, h
  <1>5. CASE f = h
    BY <1>4, <1>5 DEF Regular, Freeing, conv
  <1>6. CASE f = [g EXCEPT !.sync = "block", !.piped = "none"]
    <2>1. Alike(f, g) /\ f.lost = 0 /\ f.answer = "one"
      BY <1>4, <1>6 DEF Alike, Regular, Sized, FormFields, Freeing
    <2>2. QED
      BY <1>4, <2>1, AlikeForms DEF conv
  <1>7. QED
    BY <1>3, <1>5, <1>6

\* A form whose arguments are not, or not all, as validate has found them.
LEMMA BitposForms ==
  ASSUME NEW a, NEW f \in Bitpos(a)
  PROVE  /\ Sized(f) /\ Roomy(f) /\ Freeing(f) /\ Ordinary(f)
         /\ Converting(f, "none") /\ f.answer = "one"
  <1>1. Reading(<<S, N>>, <<0, 1, 2>>, 0, a) /\ Short(<<0, 1, 2>>)
    BY DEF Reading, Suits, WordsFit, Held, S, N, A, Short
  <1>2. Reading(<<S, N, N>>, <<0, 1, 2, 3>>, 0, a) /\ Short(<<0, 1, 2, 3>>)
    BY DEF Reading, Suits, WordsFit, Held, S, N, A, Short
  <1>3. /\ Reading(<<S, N, N, N>>, <<0, 1, 2, 3, 4>>, 0, a)
        /\ Short(<<0, 1, 2, 3, 4>>)
    BY DEF Reading, Suits, WordsFit, Held, S, N, A, Short
  <1>4. \E g : Regular(g, a, "none") /\ (f = g \/ \E t : f = [g EXCEPT !.torn = t])
    <2>1. CASE f = Argv(<<S, N>>, <<0, 1, 2>>)
      BY <1>1, <2>1, ArgvPlain
    <2>2. CASE f = [Argv(<<S, N, N>>, <<0, 1, 2, 3>>) EXCEPT !.torn = {3}]
      <3> DEFINE g == Argv(<<S, N, N>>, <<0, 1, 2, 3>>)
      <3>1. Regular(g, a, "none")
        BY <1>2, ArgvPlain
      <3> HIDE DEF g
      <3>2. QED
        BY <2>2, <3>1 DEF g
    <2>3. CASE f = [Argv(<<S, N, N, N>>, <<0, 1, 2, 3, 4>>) EXCEPT !.torn = {3, 4}]
      <3> DEFINE g == Argv(<<S, N, N, N>>, <<0, 1, 2, 3, 4>>)
      <3>1. Regular(g, a, "none")
        BY <1>3, ArgvPlain
      <3> HIDE DEF g
      <3>2. QED
        BY <2>3, <3>1 DEF g
    <2>4. QED
      BY <2>1, <2>2, <2>3 DEF Bitpos
  <1>5. PICK g : Regular(g, a, "none") /\ (f = g \/ \E t : f = [g EXCEPT !.torn = t])
    BY <1>4
  <1>6. CASE f = g
    BY <1>5, <1>6 DEF Regular
  <1>7. ASSUME NEW t, f = [g EXCEPT !.torn = t]
        PROVE  /\ Sized(f) /\ Roomy(f) /\ Freeing(f) /\ Ordinary(f)
               /\ Converting(f, "none") /\ f.answer = "one"
    BY <1>5, <1>7
    DEF Regular, Sized, FormFields, Roomy, Freeing, Ordinary, Converting
  <1>8. QED
    BY <1>5, <1>6, <1>7

LEMMA SetForms ==
  ASSUME NEW a, NEW f \in Set(a)
  PROVE  /\ Sized(f) /\ Roomy(f) /\ Freeing(f) /\ Ordinary(f)
         /\ Converting(f, "none") /\ f.answer = "one"
  <1>1. PICK n \in 2 .. 5 :
          f = [Argv(<<S, S>>, [i \in 1 .. n + 1 |-> i - 1]) EXCEPT !.nargs = n]
    BY DEF Set
  <1> DEFINE w == [i \in 1 .. n + 1 |-> i - 1]
             g == Argv(<<S, S>>, w)
  <1>2. Len(w) = n + 1 /\ Len(w) \in Nat
    OBVIOUS
  <1> HIDE DEF w
  <1>3. Shape(g, <<S, S>>, w, ArgvSlots, "none", 0)
    BY ArgvShape
  <1>4. f = [g EXCEPT !.nargs = n]
    BY <1>1 DEF w
  <1> HIDE DEF g
  <1>5. /\ DOMAIN f = FormFields /\ f.nargs = n /\ f.words = w
        /\ f.cap = ArgvSlots /\ f.sub = "" /\ f.conv = "none"
    BY <1>3, <1>4 DEF Shape, FormFields
  <1>6. Freeing(f) /\ f.answer = "one"
    BY <1>3, <1>4 DEF Shape, FormFields, Freeing
  <1>7. ArgvSlots \in Nat /\ n \in Nat /\ n + 1 <= ArgvSlots
    BY DEF ArgvSlots
  <1>8. Sized(f) /\ Roomy(f)
    BY <1>2, <1>5, <1>7 DEF Sized, Roomy
  <1>9. QED
    BY <1>5, <1>6, <1>8 DEF Ordinary, Converting

\* A form of a subcommand that decides what is answered.
LEMMA SubShape ==
  ASSUME NEW v, NEW w, NEW cap \in Nat, NEW conv, NEW dest, NEW name, NEW g,
         Shape(g, v, w, cap, conv, dest), Len(v) \in Nat, Len(w) \in Nat,
         NEW f, f = Sub(g, name)
  PROVE  /\ Sized(f) /\ Freeing(f) /\ f.answer = "one" /\ f.sub = name
         /\ f.cap = cap /\ f.words = w /\ f.conv = conv /\ f.dest = dest
         /\ f.nargs = g.nargs /\ f.valid = g.valid /\ f.torn = {}
  <1>1. Sized(g) /\ Freeing(g)
    BY ShapeParts
  <1>2. QED
    BY <1>1 DEF Sub, Shape, Sized, FormFields, Freeing

LEMMA PubsubForms ==
  ASSUME NEW a \in Seq(Int), NEW f \in Pubsub(a)
  PROVE  /\ Sized(f) /\ Freeing(f) /\ f.cap = ArgvSlots /\ f.answer = "one"
         /\ \/ f.sub = "numpat" /\ f.conv = "none"
            \/ f.sub = "channels" /\ f.conv = "theRest" /\ f.dest > 0
            \/ f.sub = "numsub" /\ f.conv = "theRest1" /\ f.dest > 0
  <1> DEFINE w == <<0, 1>> \o Elements(a, 2)
  <1>1. Len(w) \in Nat
    BY ElementsFit
  <1> HIDE DEF w
  <1>2. ArgvSlots \in Nat
    BY DEF ArgvSlots
  <1>3. CASE f = Sub(Argv(<<S>>, <<0, 1>>), "numpat")
    <2>1. Len(<<S>>) \in Nat /\ Len(<<0, 1>>) \in Nat
      OBVIOUS
    <2>2. QED
      BY <1>2, <1>3, <2>1, ArgvShape, SubShape
  <1>4. CASE f = Sub(Into(Argv(<<S, A>>, <<0, 1>>), "theRest", 2), "channels")
    <2>1. Len(<<S, A>>) \in Nat /\ Len(<<0, 1>>) \in Nat /\ 2 > 0
      OBVIOUS
    <2>2. Shape(Into(Argv(<<S, A>>, <<0, 1>>), "theRest", 2),
                <<S, A>>, <<0, 1>>, ArgvSlots, "theRest", 2)
      BY ArgvShape, IntoShape
    <2>3. /\ Sized(f) /\ Freeing(f) /\ f.answer = "one"
          /\ f.sub = "channels" /\ f.cap = ArgvSlots
          /\ f.conv = "theRest" /\ f.dest = 2
      BY <1>2, <1>4, <2>1, <2>2, SubShape
    <2>4. QED
      BY <2>1, <2>3
  <1>5. CASE f = Sub(Into(Argv(<<S, "either", A>>, <<0, 1, 2>>), "theRest", 3),
                     "channels")
    <2>1. Len(<<S, "either", A>>) \in Nat /\ Len(<<0, 1, 2>>) \in Nat /\ 3 > 0
      OBVIOUS
    <2>2. Shape(Into(Argv(<<S, "either", A>>, <<0, 1, 2>>), "theRest", 3),
                <<S, "either", A>>, <<0, 1, 2>>, ArgvSlots, "theRest", 3)
      BY ArgvShape, IntoShape
    <2>3. /\ Sized(f) /\ Freeing(f) /\ f.answer = "one"
          /\ f.sub = "channels" /\ f.cap = ArgvSlots
          /\ f.conv = "theRest" /\ f.dest = 3
      BY <1>2, <1>5, <2>1, <2>2, SubShape
    <2>4. QED
      BY <2>1, <2>3
  <1>6. CASE f = Sub(Into(Argv(<<S, "either", A>>, w), "theRest1", 3), "numsub")
    <2>1. Len(<<S, "either", A>>) \in Nat /\ 3 > 0
      OBVIOUS
    <2>2. Shape(Into(Argv(<<S, "either", A>>, w), "theRest1", 3),
                <<S, "either", A>>, w, ArgvSlots, "theRest1", 3)
      BY ArgvShape, IntoShape
    <2>3. QED
      BY <1>1, <1>2, <1>6, <2>1, <2>2, SubShape
  <1>7. QED
    BY <1>3, <1>4, <1>5, <1>6 DEF Pubsub, w

\* The reply is stored into the array only by EXISTS.
LEMMA ScriptForms ==
  ASSUME NEW a \in Seq(Int), NEW f \in Script(a)
  PROVE  /\ Sized(f) /\ Roomy(f) /\ Freeing(f) /\ Fitting(f, a)
         /\ f.conv = "theRest" /\ f.answer = "one"
         /\ \/ f.sub \in {"load", "kill", "flush"}
            \/ f.sub = "exists" /\ f.dest > 0
  <1>1. ASSUME NEW v, NEW w, NEW cap \in Nat, NEW dest, NEW name, NEW g,
               Shape(g, v, w, cap, "theRest", dest), Reading(v, w, dest, a),
               Len(w) <= cap, f = Sub(g, name)
        PROVE  /\ Sized(f) /\ Roomy(f) /\ Freeing(f) /\ Fitting(f, a)
               /\ f.conv = "theRest" /\ f.answer = "one"
               /\ f.sub = name /\ f.dest = dest
    <2>1. Len(v) \in Nat /\ Len(w) \in Nat
      BY <1>1 DEF Reading
    <2>2. /\ Sized(f) /\ Freeing(f) /\ f.answer = "one" /\ f.sub = name
          /\ f.cap = cap /\ f.words = w /\ f.conv = "theRest" /\ f.dest = dest
          /\ f.nargs = g.nargs /\ f.valid = g.valid /\ f.torn = {}
      BY <1>1, <2>1, SubShape
    <2>3. Fitting(g, a)
      BY <1>1, ShapeFits
    <2>4. g.words = w /\ g.dest = dest
      BY <1>1 DEF Shape
    <2>5. Fitting(f, a)
      BY <2>2, <2>3, <2>4 DEF Fitting, Fits
    <2>6. Roomy(f)
      BY <1>1, <2>2 DEF Roomy
    <2>7. QED
      BY <2>2, <2>5, <2>6
  <1> DEFINE w == <<0, 1>> \o Elements(a, 2)
  <1>2. Reading(<<S, A, A>>, w, 3, a) /\ Len(w) \in Nat
    <2>1. Reading(<<S, A, A>>, <<0, 1>>, 3, a)
      BY DEF Reading, Suits, WordsFit, Held, S, N, A
    <2>2. Len(w) \in Nat
      BY ElementsFit
    <2>3. QED
      BY <2>1, <2>2, LongerReading
  <1> HIDE DEF w
  <1>3. Reading(<<S, S>>, <<0, 0, 2>>, 0, a) /\ Len(<<0, 0, 2>>) <= ArgvSlots
    BY DEF Reading, Suits, WordsFit, Held, S, N, A, ArgvSlots
  <1>4. Reading(<<S>>, <<0, 0>>, 0, a) /\ Len(<<0, 0>>) <= ArgvSlots
    BY DEF Reading, Suits, WordsFit, Held, S, N, A, ArgvSlots
  <1>5. /\ Shape(Into(Argv(<<S, S>>, <<0, 0, 2>>), "theRest", 0),
                 <<S, S>>, <<0, 0, 2>>, ArgvSlots, "theRest", 0)
        /\ Shape(Into(Argv(<<S>>, <<0, 0>>), "theRest", 0),
                 <<S>>, <<0, 0>>, ArgvSlots, "theRest", 0)
        /\ Shape(Into(Counted(<<S, A, A>>, w), "theRest", 3),
                 <<S, A, A>>, w, Len(w), "theRest", 3)
    BY ArgvShape, CountedShape, IntoShape
  <1>6. ArgvSlots \in Nat /\ 3 > 0 /\ Len(w) <= Len(w)
    BY <1>2 DEF ArgvSlots
  <1>7. CASE f = Sub(Into(Argv(<<S, S>>, <<0, 0, 2>>), "theRest", 0), "load")
    BY <1>1, <1>3, <1>5, <1>6, <1>7
  <1>8. CASE f = Sub(Into(Argv(<<S>>, <<0, 0>>), "theRest", 0), "kill")
    BY <1>1, <1>4, <1>5, <1>6, <1>8
  <1>9. CASE f = Sub(Into(Argv(<<S>>, <<0, 0>>), "theRest", 0), "flush")
    BY <1>1, <1>4, <1>5, <1>6, <1>9
  <1>10. CASE f = Sub(Into(Counted(<<S, A, A>>, w), "theRest", 3), "exists")
    BY <1>1, <1>2, <1>5, <1>6, <1>10
  <1>11. QED
    BY <1>7, <1>8, <1>9, <1>10 DEF Script, w

LEMMA SplitFit ==
  ASSUME NEW a, NEW k \in Nat, k > 0, NEW n \in Nat
  PROVE  /\ Split(k, n) \in Seq(Int)
         /\ a[k] = SCALAR => WordsFit(Split(k, n), a)
  BY DEF Split, WordsFit, Held

LEMMA SortLimitForms ==
  ASSUME NEW a, NEW cmd, NEW f \in SortLimit(a, cmd)
  PROVE  /\ Sized(f) /\ Freeing(f) /\ Ordinary(f) /\ Fitting(f, a)
         /\ f.cap = ArgvSlots /\ f.conv = "theRest" /\ f.answer = "one"
         /\ f.dest = IF cmd = "sortLimitStore" THEN 0 ELSE 2
  <1> DEFINE head == <<0, 1, 0, 3, 4>>
             tail == IF cmd = "sortLimitStore" THEN <<0, 2>> ELSE <<>>
             type == IF cmd = "sortLimitStore" THEN S ELSE A
             dest == IF cmd = "sortLimitStore" THEN 0 ELSE 2
             read == a[1] = SCALAR /\ a[3] = SCALAR /\ a[4] = SCALAR
             stored == (dest = 0 /\ a[2] = SCALAR) \/ dest = 2
  <1>1. head \in Seq(Int) /\ (read => WordsFit(head, a))
    BY DEF WordsFit, Held
  <1>2. /\ tail \in Seq(Int)
        /\ stored => WordsFit(tail, a)
    <2>1. CASE cmd = "sortLimitStore"
      <3>1. <<0, 2>> \in Seq(Int) /\ (a[2] = SCALAR => WordsFit(<<0, 2>>, a))
        BY DEF WordsFit, Held
      <3>2. QED
        BY <2>1, <3>1
    <2>2. CASE cmd # "sortLimitStore"
      <3>1. <<>> \in Seq(Int) /\ WordsFit(<<>>, a)
        BY DEF WordsFit
      <3>2. QED
        BY <2>2, <3>1
    <2>3. QED
      BY <2>1, <2>2
  <1>3. ASSUME NEW v \in {<<S, type, N, N>>, <<S, type, N, N, S>>}, Suits(v, a)
        PROVE  /\ read /\ stored
               /\ dest > 0 => a[dest] # SCALAR
               /\ Len(v) = 5 => a[5] = SCALAR
    <2>1. CASE v = <<S, type, N, N>>
      <3>1. Len(v) = 4
        BY <2>1
      <3>2. v[1] = S /\ v[2] = type /\ 1 \in 1 .. Len(v) /\ 2 \in 1 .. Len(v)
            /\ v[3] = N /\ v[4] = N /\ 3 \in 1 .. Len(v) /\ 4 \in 1 .. Len(v)
        BY <2>1
      <3> HIDE DEF type
      <3>3. read /\ (type = S => a[2] = SCALAR) /\ (type = A => a[2] # SCALAR)
        BY <1>3, <3>2 DEF Suits, S, N, A
      <3>4. QED
        BY <3>1, <3>3 DEF type
    <2>2. CASE v = <<S, type, N, N, S>>
      <3>1. v[5] = S /\ 5 \in 1 .. Len(v)
        BY <2>2
      <3>2. v[1] = S /\ v[2] = type /\ 1 \in 1 .. Len(v) /\ 2 \in 1 .. Len(v)
            /\ v[3] = N /\ v[4] = N /\ 3 \in 1 .. Len(v) /\ 4 \in 1 .. Len(v)
        BY <2>2
      <3> HIDE DEF type
      <3>3. /\ read /\ (type = S => a[2] = SCALAR) /\ (type = A => a[2] # SCALAR)
            /\ a[5] = SCALAR
        BY <1>3, <3>1, <3>2 DEF Suits, S, N, A
      <3>4. QED
        BY <3>3 DEF type
    <2>3. QED
      BY <1>3, <2>1, <2>2
  <1>4. ASSUME NEW v, NEW w, Reading(v, w, dest, a),
               f = Into(Argv(v, w), "theRest", dest)
        PROVE  /\ Sized(f) /\ Freeing(f) /\ Ordinary(f) /\ Fitting(f, a)
               /\ f.cap = ArgvSlots /\ f.conv = "theRest" /\ f.answer = "one"
               /\ f.dest = dest
    <2>1. Shape(f, v, w, ArgvSlots, "theRest", dest)
      BY <1>4, ArgvShape, IntoShape
    <2>2. ArgvSlots \in Nat /\ Len(v) \in Nat /\ Len(w) \in Nat
      BY <1>4 DEF ArgvSlots, Reading
    <2>3. Sized(f) /\ Freeing(f) /\ Ordinary(f)
      BY <2>1, <2>2, ShapeParts
    <2>4. Fitting(f, a)
      BY <1>4, <2>1, ShapeFits
    <2>5. QED
      BY <2>1, <2>3, <2>4 DEF Shape
  <1>5. \/ f = Into(Argv(<<S, type, N, N>>, head \o tail), "theRest", dest)
        \/ \E n \in OptionWords :
             f = Into(Argv(<<S, type, N, N, S>>, head \o Split(5, n) \o tail),
                      "theRest", dest)
    BY DEF SortLimit
  <1>6. /\ Len(<<S, type, N, N>>) = 4 /\ Len(<<S, type, N, N, S>>) = 5
        /\ OptionWords \subseteq Nat
    BY OptionsAssumption
  <1>7. dest = IF cmd = "sortLimitStore" THEN 0 ELSE 2
    OBVIOUS
  <1> DEFINE v == <<S, type, N, N>>
             u == <<S, type, N, N, S>>
  <1>8. /\ Len(v) \in Nat /\ Len(u) \in Nat
        /\ Suits(v, a) => /\ read /\ stored
                          /\ dest > 0 => a[dest] # SCALAR
        /\ Suits(u, a) => /\ read /\ stored
                          /\ dest > 0 => a[dest] # SCALAR
                          /\ a[5] = SCALAR
    BY <1>3, <1>6
  <1> HIDE DEF head, tail, dest, read, stored, v, u
  <1>9. Reading(v, head \o tail, dest, a)
    BY <1>1, <1>2, <1>8, ConcatFit DEF Reading
  <1>10. ASSUME NEW n \in OptionWords
         PROVE  Reading(u, head \o Split(5, n) \o tail, dest, a)
    <2>1. Split(5, n) \in Seq(Int) /\ (a[5] = SCALAR => WordsFit(Split(5, n), a))
      BY <1>6, SplitFit
    <2>2. /\ head \o Split(5, n) \in Seq(Int)
          /\ read /\ a[5] = SCALAR => WordsFit(head \o Split(5, n), a)
      BY <1>1, <2>1, ConcatFit
    <2> DEFINE both == head \o Split(5, n)
    <2>3. both \in Seq(Int) /\ (read /\ a[5] = SCALAR => WordsFit(both, a))
      BY <2>2
    <2> HIDE DEF both
    <2>4. Reading(u, both \o tail, dest, a)
      BY <1>2, <1>8, <2>3, ConcatFit DEF Reading
    <2>5. QED
      BY <2>4 DEF both
  <1>11. QED
    BY <1>4, <1>5, <1>7, <1>9, <1>10 DEF u, v

LEMMA SortForms ==
  ASSUME NEW a, NEW cmd, NEW f \in Sort(a, cmd)
  PROVE  /\ Sized(f) /\ Freeing(f) /\ Ordinary(f) /\ Fitting(f, a)
         /\ f.cap = ArgvSlots /\ f.conv = "theRest" /\ f.answer = "one"
         /\ f.dest = IF cmd = "sortStore" THEN 0 ELSE 2
  <1> DEFINE head == <<0, 1>>
             tail == IF cmd = "sortStore" THEN <<0, 2>> ELSE <<>>
             type == IF cmd = "sortStore" THEN S ELSE A
             dest == IF cmd = "sortStore" THEN 0 ELSE 2
             read == a[1] = SCALAR
             stored == (dest = 0 /\ a[2] = SCALAR) \/ dest = 2
  <1>1. head \in Seq(Int) /\ (read => WordsFit(head, a))
    BY DEF WordsFit, Held
  <1>2. /\ tail \in Seq(Int)
        /\ stored => WordsFit(tail, a)
    <2>1. CASE cmd = "sortStore"
      <3>1. <<0, 2>> \in Seq(Int) /\ (a[2] = SCALAR => WordsFit(<<0, 2>>, a))
        BY DEF WordsFit, Held
      <3>2. QED
        BY <2>1, <3>1
    <2>2. CASE cmd # "sortStore"
      <3>1. <<>> \in Seq(Int) /\ WordsFit(<<>>, a)
        BY DEF WordsFit
      <3>2. QED
        BY <2>2, <3>1
    <2>3. QED
      BY <2>1, <2>2
  <1>3. ASSUME NEW v \in {<<S, type>>, <<S, type, S>>}, Suits(v, a)
        PROVE  /\ read /\ stored
               /\ dest > 0 => a[dest] # SCALAR
               /\ Len(v) = 3 => a[3] = SCALAR
    <2>1. CASE v = <<S, type>>
      <3>1. Len(v) = 2
        BY <2>1
      <3>2. v[1] = S /\ v[2] = type /\ 1 \in 1 .. Len(v) /\ 2 \in 1 .. Len(v)
        BY <2>1
      <3> HIDE DEF type
      <3>3. read /\ (type = S => a[2] = SCALAR) /\ (type = A => a[2] # SCALAR)
        BY <1>3, <3>2 DEF Suits, S, N, A
      <3>4. QED
        BY <3>1, <3>3 DEF type
    <2>2. CASE v = <<S, type, S>>
      <3>1. v[3] = S /\ 3 \in 1 .. Len(v)
        BY <2>2
      <3>2. v[1] = S /\ v[2] = type /\ 1 \in 1 .. Len(v) /\ 2 \in 1 .. Len(v)
        BY <2>2
      <3> HIDE DEF type
      <3>3. /\ read /\ (type = S => a[2] = SCALAR) /\ (type = A => a[2] # SCALAR)
            /\ a[3] = SCALAR
        BY <1>3, <3>1, <3>2 DEF Suits, S, N, A
      <3>4. QED
        BY <3>3 DEF type
    <2>3. QED
      BY <1>3, <2>1, <2>2
  <1>4. ASSUME NEW v, NEW w, Reading(v, w, dest, a),
               f = Into(Argv(v, w), "theRest", dest)
        PROVE  /\ Sized(f) /\ Freeing(f) /\ Ordinary(f) /\ Fitting(f, a)
               /\ f.cap = ArgvSlots /\ f.conv = "theRest" /\ f.answer = "one"
               /\ f.dest = dest
    <2>1. Shape(f, v, w, ArgvSlots, "theRest", dest)
      BY <1>4, ArgvShape, IntoShape
    <2>2. ArgvSlots \in Nat /\ Len(v) \in Nat /\ Len(w) \in Nat
      BY <1>4 DEF ArgvSlots, Reading
    <2>3. Sized(f) /\ Freeing(f) /\ Ordinary(f)
      BY <2>1, <2>2, ShapeParts
    <2>4. Fitting(f, a)
      BY <1>4, <2>1, ShapeFits
    <2>5. QED
      BY <2>1, <2>3, <2>4 DEF Shape
  <1>5. \/ f = Into(Argv(<<S, type>>, head \o tail), "theRest", dest)
        \/ \E n \in OptionWords :
             f = Into(Argv(<<S, type, S>>, head \o Split(3, n) \o tail),
                      "theRest", dest)
    BY DEF Sort
  <1>6. /\ Len(<<S, type>>) = 2 /\ Len(<<S, type, S>>) = 3
        /\ OptionWords \subseteq Nat
    BY OptionsAssumption
  <1>7. dest = IF cmd = "sortStore" THEN 0 ELSE 2
    OBVIOUS
  <1> DEFINE v == <<S, type>>
             u == <<S, type, S>>
  <1>8. /\ Len(v) \in Nat /\ Len(u) \in Nat
        /\ Suits(v, a) => /\ read /\ stored
                          /\ dest > 0 => a[dest] # SCALAR
        /\ Suits(u, a) => /\ read /\ stored
                          /\ dest > 0 => a[dest] # SCALAR
                          /\ a[3] = SCALAR
    BY <1>3, <1>6
  <1> HIDE DEF head, tail, dest, read, stored, v, u
  <1>9. Reading(v, head \o tail, dest, a)
    BY <1>1, <1>2, <1>8, ConcatFit DEF Reading
  <1>10. ASSUME NEW n \in OptionWords
         PROVE  Reading(u, head \o Split(3, n) \o tail, dest, a)
    <2>1. Split(3, n) \in Seq(Int) /\ (a[3] = SCALAR => WordsFit(Split(3, n), a))
      BY <1>6, SplitFit
    <2>2. /\ head \o Split(3, n) \in Seq(Int)
          /\ read /\ a[3] = SCALAR => WordsFit(head \o Split(3, n), a)
      BY <1>1, <2>1, ConcatFit
    <2> DEFINE both == head \o Split(3, n)
    <2>3. both \in Seq(Int) /\ (read /\ a[3] = SCALAR => WordsFit(both, a))
      BY <2>2
    <2> HIDE DEF both
    <2>4. Reading(u, both \o tail, dest, a)
      BY <1>2, <1>8, <2>3, ConcatFit DEF Reading
    <2>5. QED
      BY <2>4 DEF both
  <1>11. QED
    BY <1>4, <1>5, <1>7, <1>9, <1>10 DEF u, v

-----------------------------------------------------------------------------
(* Which command is handed to which function, and what it is answered.     *)

Scans == {"scan", "sscan", "hscan", "zscan"}

\* The commands that are not always answered by a value.
Telling ==
  FlatCommands \cup NestedCommands \cup Scans
  \cup {"spop", "srandmember", "eval", "evalsha", "slowlog", "info",
        "clientList"}

PlainFunctions ==
  {"Select", "Randomkey", "ClientOne", "Subscribe", "Getrange", "Zadd",
   "Setrange", "Bitcount", "Geodist", "Setbit", "Bitop", "Linsert", "Smove",
   "Zincrby", "Hincrby", "Restore", "Expire", "Sismember", "Object",
   "Zunionstore", "Mset", "Sadd", "Bitpos", "Set", "Hmset"}

FlatFunctions ==
  {"Keys", "Zrange", "Sinter", "Brpop", "Zrangebylex", "Georadius",
   "Georadiusbymember", "Geohash", "Mget"}

\* The commands a function is called for are of the kind it can store.
Told(cmd, tipo) ==
  \/ tipo \in PlainFunctions /\ cmd \notin Telling
     /\ (tipo = "Bitpos" => cmd = "bitpos") /\ (tipo = "Set" => cmd = "set")
     /\ (tipo = "Hmset" => cmd = "hmset")
  \/ tipo \in FlatFunctions /\ cmd \in FlatCommands
     /\ (tipo = "Brpop" => cmd \in {"blpop", "brpop"})
  \/ tipo \in {"Exec", "GeoradiusWD", "GeoradiusbymemberWD"}
     /\ cmd \in NestedCommands
  \/ tipo \in {"Scan", "Sscan"} /\ cmd \in Scans
  \/ tipo = "Scard" /\ cmd \notin Telling \ {"srandmember"}
  \/ tipo = "ClientTwo" /\ cmd \notin Telling \ {"clientList"}
  \/ tipo = "Evalsha" /\ cmd \in {"eval", "evalsha"}
  \/ tipo = "Hmget" /\ cmd \in {"hmget", "geopos"}
  \/ tipo = "Sort" /\ cmd \in {"sort", "sortStore"}
  \/ tipo = "SortLimit" /\ cmd \in {"sortLimit", "sortLimitStore"}
  \/ <<cmd, tipo>> \in
       {<<"slowlog", "Slowlog">>, <<"script", "Script">>,
        <<"pubsub", "Pubsub">>, <<"spop", "Spop">>, <<"info", "Info">>,
        <<"srandmember", "Srandmember">>}

LEMMA Told1 ==
  ASSUME NEW d \in Dispatch1
  PROVE  Told(d[1], d[2]) /\ d = <<d[1], d[2]>>
  BY DEF Dispatch1, Via, Told, Telling, Scans, FlatCommands, NestedCommands,
         PlainFunctions, FlatFunctions

LEMMA Told2 ==
  ASSUME NEW d \in Dispatch2
  PROVE  Told(d[1], d[2]) /\ d = <<d[1], d[2]>>
  BY DEF Dispatch2, Via, Told, Telling, Scans, FlatCommands, NestedCommands,
         PlainFunctions, FlatFunctions

LEMMA Told3 ==
  ASSUME NEW d \in Dispatch3
  PROVE  Told(d[1], d[2]) /\ d = <<d[1], d[2]>>
  BY DEF Dispatch3, Via, Told, Telling, Scans, FlatCommands, NestedCommands,
         PlainFunctions, FlatFunctions

LEMMA Told4 ==
  ASSUME NEW d \in Dispatch4
  PROVE  Told(d[1], d[2]) /\ d = <<d[1], d[2]>>
  BY DEF Dispatch4, Via, Told, Telling, Scans, FlatCommands, NestedCommands,
         PlainFunctions, FlatFunctions

LEMMA Told5 ==
  ASSUME NEW d \in Dispatch5
  PROVE  Told(d[1], d[2]) /\ d = <<d[1], d[2]>>
  BY DEF Dispatch5, Via, Told, Telling, Scans, FlatCommands, NestedCommands,
         PlainFunctions, FlatFunctions

LEMMA Told6 ==
  ASSUME NEW d \in Dispatch6
  PROVE  Told(d[1], d[2]) /\ d = <<d[1], d[2]>>
  BY DEF Dispatch6, Via, Told, Telling, Scans, FlatCommands, NestedCommands,
         PlainFunctions, FlatFunctions

LEMMA Told7 ==
  ASSUME NEW d \in Dispatch7
  PROVE  Told(d[1], d[2]) /\ d = <<d[1], d[2]>>
  BY DEF Dispatch7, Via, Told, Telling, Scans, FlatCommands, NestedCommands,
         PlainFunctions, FlatFunctions

LEMMA Told8 ==
  ASSUME NEW d \in Dispatch8
  PROVE  Told(d[1], d[2]) /\ d = <<d[1], d[2]>>
  BY DEF Dispatch8, Via, Told, Telling, Scans, FlatCommands, NestedCommands,
         PlainFunctions, FlatFunctions

LEMMA Told9 ==
  ASSUME NEW d \in Dispatch9
  PROVE  Told(d[1], d[2]) /\ d = <<d[1], d[2]>>
  BY DEF Dispatch9, Via, Told, Telling, Scans, FlatCommands, NestedCommands,
         PlainFunctions, FlatFunctions

LEMMA Told10 ==
  ASSUME NEW d \in Dispatch10
  PROVE  Told(d[1], d[2]) /\ d = <<d[1], d[2]>>
  BY DEF Dispatch10, Via, Told, Telling, Scans, FlatCommands, NestedCommands,
         PlainFunctions, FlatFunctions

LEMMA Told11 ==
  ASSUME NEW d \in Dispatch11
  PROVE  Told(d[1], d[2]) /\ d = <<d[1], d[2]>>
  BY DEF Dispatch11, Via, Told, Telling, Scans, FlatCommands, NestedCommands,
         PlainFunctions, FlatFunctions

LEMMA Told12 ==
  ASSUME NEW d \in Dispatch12
  PROVE  Told(d[1], d[2]) /\ d = <<d[1], d[2]>>
  BY DEF Dispatch12, Via, Told, Telling, Scans, FlatCommands, NestedCommands,
         PlainFunctions, FlatFunctions

LEMMA Told13 ==
  ASSUME NEW d \in Dispatch13
  PROVE  Told(d[1], d[2]) /\ d = <<d[1], d[2]>>
  BY DEF Dispatch13, Via, Told, Telling, Scans, FlatCommands, NestedCommands,
         PlainFunctions, FlatFunctions

LEMMA Told14 ==
  ASSUME NEW d \in Dispatch14
  PROVE  Told(d[1], d[2]) /\ d = <<d[1], d[2]>>
  BY DEF Dispatch14, Via, Told, Telling, Scans, FlatCommands, NestedCommands,
         PlainFunctions, FlatFunctions

LEMMA Told15 ==
  ASSUME NEW d \in Dispatch15
  PROVE  Told(d[1], d[2]) /\ d = <<d[1], d[2]>>
  BY DEF Dispatch15, Via, Told, Telling, Scans, FlatCommands, NestedCommands,
         PlainFunctions, FlatFunctions

LEMMA AllTold ==
  ASSUME NEW d \in Dispatch
  PROVE  Told(d[1], d[2]) /\ d = <<d[1], d[2]>>
  BY Told1, Told2, Told3, Told4, Told5, Told6, Told7, Told8, Told9, Told10,
     Told11, Told12, Told13, Told14, Told15
  DEF Dispatch

-----------------------------------------------------------------------------
(* What the forms of a command have in common.                             *)

\* The replies of the command are those its converter can store.
Matches(cmd, f) ==
  LET answers == Answers(cmd, f) IN
  \/ f.conv = "none" /\ answers = {"value"}
  \/ f.conv = "theRest" /\ answers = {"value"}
  \/ f.conv = "theRest" /\ f.dest > 0 /\ answers = {"flat", "empty"}
  \/ f.conv = "theRest1" /\ f.dest > 0 /\ answers = {"pairs", "empty"}
  \/ f.conv = "tipoScan" /\ f.dest > 0 /\ answers = {"pair", "last"}
  \/ f.conv = "tipoExec" /\ f.dest > 0
     /\ answers \subseteq {"nested", "flat", "empty", "value"}
  \/ f.conv = "tipoInfo" /\ f.dest > 0 /\ cmd = "info" /\ answers = {"text"}
  \/ f.conv = "tipoClient" /\ cmd = "clientList" /\ answers = {"text"}

\* argv is as long as what is put into it, the exceptions aside.
Housed(cmd, f) ==
  \/ Roomy(f)
  \/ cmd \in {"blpop", "brpop"} /\ Len(f.words) = f.cap + 1
  \/ cmd \in OpenEnded /\ f.cap = ArgvSlots

\* The commands whose function forgets blocks on a connection.
Sloppy ==
  {"hmset", "hmget", "geopos"}
  \cup {d[1] : d \in {e \in Dispatch : e[2] = "Sadd"}}

\* All is freed, the exceptions aside.
Frees(cmd, f) ==
  /\ f.lost \in Nat
  /\ cmd \notin Sloppy =>
       /\ f.lost = 0 /\ f.sync = "all"
       /\ cmd \notin {"eval", "evalsha"} => f.piped = "all"

Good(cmd, a, f) ==
  /\ Sized(f) /\ Housed(cmd, f) /\ Frees(cmd, f) /\ Matches(cmd, f)
  /\ cmd \notin {"set", "pubsub", "bitpos"} => Fitting(f, a)
  /\ f.answer # "one" =>
       f.answer = "null" /\ cmd \in {"slowlog", "srandmember"}

LEMMA PlainAnswers ==
  ASSUME NEW cmd, NEW f, Ordinary(f),
         \/ cmd \notin Telling
         \/ cmd \in {"spop", "srandmember"} /\ f.nargs # 3
  PROVE  Answers(cmd, f) = {"value"}
  BY DEF Answers, Ordinary, Telling, Scans, FlatCommands, NestedCommands

LEMMA FlatAnswers ==
  ASSUME NEW cmd, NEW f, f.sub # "numsub",
         \/ cmd \in FlatCommands
         \/ cmd \in {"spop", "srandmember"} /\ f.nargs = 3
         \/ cmd \in {"script", "pubsub"} /\ f.sub \in {"exists", "channels"}
  PROVE  Answers(cmd, f) = {"flat", "empty"}
  BY DEF Answers, FlatCommands, NestedCommands

LEMMA NestedAnswers ==
  ASSUME NEW cmd, NEW f, Ordinary(f),
         \/ cmd \in NestedCommands \cup {"eval", "evalsha"}
         \/ cmd = "slowlog" /\ f.nargs > 1
  PROVE  Answers(cmd, f) \subseteq {"nested", "flat", "empty", "value"}
  BY DEF Answers, Ordinary, FlatCommands, NestedCommands

LEMMA ScanAnswers ==
  ASSUME NEW cmd \in Scans, NEW f, Ordinary(f)
  PROVE  Answers(cmd, f) = {"pair", "last"}
  BY DEF Answers, Ordinary, FlatCommands, NestedCommands, Scans

LEMMA TextAnswers ==
  ASSUME NEW cmd \in {"info", "clientList"}, NEW f, Ordinary(f)
  PROVE  Answers(cmd, f) = {"text"}
  BY DEF Answers, Ordinary, FlatCommands, NestedCommands

LEMMA RegularGood ==
  ASSUME NEW cmd, NEW a, NEW conv, NEW f, Regular(f, a, conv), Matches(cmd, f)
  PROVE  Good(cmd, a, f)
  BY DEF Regular, Good, Housed, Frees, Freeing

LEMMA PlainGood ==
  ASSUME NEW cmd, NEW a, NEW f, Regular(f, a, "none"),
         \/ cmd \notin Telling
         \/ cmd \in {"spop", "srandmember"} /\ f.nargs # 3
  PROVE  Good(cmd, a, f)
  <1>1. f.conv = "none" /\ Ordinary(f)
    BY DEF Regular, Converting
  <1>2. Answers(cmd, f) = {"value"}
    BY <1>1, PlainAnswers
  <1>3. QED
    BY <1>1, <1>2, RegularGood DEF Matches

LEMMA FlatGood ==
  ASSUME NEW cmd, NEW a, NEW f, Regular(f, a, "theRest"),
         \/ cmd \in FlatCommands
         \/ cmd \in {"spop", "srandmember"} /\ f.nargs = 3
  PROVE  Good(cmd, a, f)
  <1>1. f.conv = "theRest" /\ f.dest > 0 /\ f.sub # "numsub"
    BY DEF Regular, Converting, Ordinary
  <1>2. Answers(cmd, f) = {"flat", "empty"}
    BY <1>1, FlatAnswers
  <1>3. QED
    BY <1>1, <1>2, RegularGood DEF Matches

LEMMA NestedGood ==
  ASSUME NEW cmd \in NestedCommands, NEW a, NEW f, Regular(f, a, "tipoExec")
  PROVE  Good(cmd, a, f)
  <1>1. f.conv = "tipoExec" /\ f.dest > 0 /\ Ordinary(f)
    BY DEF Regular, Converting
  <1>2. Answers(cmd, f) \subseteq {"nested", "flat", "empty", "value"}
    BY <1>1, NestedAnswers
  <1>3. QED
    BY <1>1, <1>2, RegularGood DEF Matches

LEMMA ScanGood ==
  ASSUME NEW cmd \in Scans, NEW a, NEW f, Regular(f, a, "tipoScan")
  PROVE  Good(cmd, a, f)
  <1>1. f.conv = "tipoScan" /\ f.dest > 0 /\ Ordinary(f)
    BY DEF Regular, Converting
  <1>2. Answers(cmd, f) = {"pair", "last"}
    BY <1>1, ScanAnswers
  <1>3. QED
    BY <1>1, <1>2, RegularGood DEF Matches

-----------------------------------------------------------------------------
(* The exceptions.                                                         *)

LEMMA ScardGood ==
  ASSUME NEW a, NEW cmd, cmd \notin Telling \ {"srandmember"}, NEW f \in Scard(a)
  PROVE  Good(cmd, a, f)
  <1>1. Regular(f, a, "none")
    BY ScardForms
  <1>2. f.nargs = 1
    <2>1. f = Argv(<<S>>, <<0, 1>>) /\ Len(<<S>>) = 1
      BY DEF Scard
    <2>2. QED
      BY <2>1 DEF Argv
  <1>3. QED
    BY <1>1, <1>2, PlainGood

LEMMA SlowlogGood ==
  ASSUME NEW a, NEW f \in Slowlog(a)
  PROVE  Good("slowlog", a, f)
  <1>1. /\ Sized(f) /\ Roomy(f) /\ Fitting(f, a) /\ Freeing(f) /\ Ordinary(f)
        /\ \/ Converting(f, "none") /\ f.nargs = 1
           \/ Converting(f, "tipoExec") /\ f.nargs > 1
        /\ f.answer = "null"
    BY SlowlogForms
  <1>2. Matches("slowlog", f)
    <2>1. CASE Converting(f, "none") /\ f.nargs = 1
      BY <1>1, <2>1
      DEF Matches, Converting, Answers, Ordinary, FlatCommands, NestedCommands
    <2>2. CASE Converting(f, "tipoExec") /\ f.nargs > 1
      BY <1>1, <2>2, NestedAnswers DEF Matches, Converting
    <2>3. QED
      BY <1>1, <2>1, <2>2
  <1>3. QED
    BY <1>1, <1>2 DEF Good, Housed, Frees, Freeing

LEMMA EvalshaGood ==
  ASSUME NEW a \in Seq(Int), NEW cmd \in {"eval", "evalsha"}, NEW f \in Evalsha(a)
  PROVE  Good(cmd, a, f)
  <1>1. /\ Sized(f) /\ Roomy(f) /\ Fitting(f, a) /\ Ordinary(f)
        /\ Converting(f, "tipoExec")
        /\ f.lost = 0 /\ f.sync = "all" /\ f.answer = "one"
    BY EvalshaForms
  <1>2. Matches(cmd, f)
    BY <1>1, NestedAnswers DEF Matches, Converting
  <1>3. QED
    BY <1>1, <1>2 DEF Good, Housed, Frees

LEMMA ClientTwoGood ==
  ASSUME NEW a, NEW cmd, cmd \notin Telling \ {"clientList"},
         NEW f \in ClientTwo(a, cmd)
  PROVE  Good(cmd, a, f)
  <1>1. /\ Sized(f) /\ Roomy(f) /\ Fitting(f, a) /\ Freeing(f) /\ Ordinary(f)
        /\ f.conv = IF cmd = "clientList" THEN "tipoClient" ELSE "none"
        /\ f.answer = "one"
    BY ClientTwoForms
  <1>2. CASE cmd = "clientList"
    <2>1. Answers(cmd, f) = {"text"}
      BY <1>1, <1>2, TextAnswers
    <2>2. QED
      BY <1>1, <1>2, <2>1 DEF Matches, Good, Housed, Frees, Freeing
  <1>3. CASE cmd # "clientList"
    <2>1. Answers(cmd, f) = {"value"}
      BY <1>1, <1>3, PlainAnswers
    <2>2. QED
      BY <1>1, <1>3, <2>1 DEF Matches, Good, Housed, Frees, Freeing
  <1>4. QED
    BY <1>2, <1>3

LEMMA ScriptGood ==
  ASSUME NEW a \in Seq(Int), NEW f \in Script(a)
  PROVE  Good("script", a, f)
  <1>1. /\ Sized(f) /\ Roomy(f) /\ Freeing(f) /\ Fitting(f, a)
        /\ f.conv = "theRest" /\ f.answer = "one"
        /\ \/ f.sub \in {"load", "kill", "flush"}
           \/ f.sub = "exists" /\ f.dest > 0
    BY ScriptForms
  <1>2. CASE f.sub \in {"load", "kill", "flush"}
    <2>1. Answers("script", f) = {"value"}
      BY <1>2, PlainAnswers
      DEF Ordinary, Telling, Scans, FlatCommands, NestedCommands
    <2>2. QED
      BY <1>1, <2>1 DEF Matches, Good, Housed, Frees, Freeing
  <1>3. CASE f.sub = "exists" /\ f.dest > 0
    <2>1. Answers("script", f) = {"flat", "empty"}
      BY <1>3, FlatAnswers
    <2>2. QED
      BY <1>1, <1>3, <2>1 DEF Matches, Good, Housed, Frees, Freeing
  <1>4. QED
    BY <1>1, <1>2, <1>3

LEMMA PubsubGood ==
  ASSUME NEW a \in Seq(Int), NEW f \in Pubsub(a)
  PROVE  Good("pubsub", a, f)
  <1>1. /\ Sized(f) /\ Freeing(f) /\ f.cap = ArgvSlots /\ f.answer = "one"
        /\ \/ f.sub = "numpat" /\ f.conv = "none"
           \/ f.sub = "channels" /\ f.conv = "theRest" /\ f.dest > 0
           \/ f.sub = "numsub" /\ f.conv = "theRest1" /\ f.dest > 0
    BY PubsubForms
  <1>2. Matches("pubsub", f)
    <2>1. CASE f.sub = "numpat" /\ f.conv = "none"
      <3>1. Answers("pubsub", f) = {"value"}
        BY <2>1, PlainAnswers
        DEF Ordinary, Telling, Scans, FlatCommands, NestedCommands
      <3>2. QED
        BY <2>1, <3>1 DEF Matches
    <2>2. CASE f.sub = "channels" /\ f.conv = "theRest" /\ f.dest > 0
      <3>1. Answers("pubsub", f) = {"flat", "empty"}
        BY <2>2, FlatAnswers
      <3>2. QED
        BY <2>2, <3>1 DEF Matches
    <2>3. CASE f.sub = "numsub" /\ f.conv = "theRest1" /\ f.dest > 0
      <3>1. Answers("pubsub", f) = {"pairs", "empty"}
        BY <2>3 DEF Answers, FlatCommands, NestedCommands
      <3>2. QED
        BY <2>3, <3>1 DEF Matches
    <2>4. QED
      BY <1>1, <2>1, <2>2, <2>3
  <1>3. QED
    BY <1>1, <1>2 DEF Good, Housed, OpenEnded, Frees, Freeing

LEMMA SpopGood ==
  ASSUME NEW a, NEW f \in Spop(a)
  PROVE  Good("spop", a, f)
  BY SpopForms, PlainGood, FlatGood

LEMMA SrandmemberGood ==
  ASSUME NEW a, NEW f \in Srandmember(a)
  PROVE  Good("srandmember", a, f)
  <1>1. /\ Sized(f) /\ Roomy(f) /\ Fitting(f, a) /\ Freeing(f) /\ Ordinary(f)
        /\ Converting(f, "theRest") /\ f.nargs = 3 /\ f.answer = "null"
    BY SrandmemberForms
  <1>2. Answers("srandmember", f) = {"flat", "empty"}
    BY <1>1, FlatAnswers DEF Ordinary
  <1>3. Matches("srandmember", f)
    BY <1>1, <1>2 DEF Matches, Converting
  <1>4. QED
    BY <1>1, <1>3 DEF Good, Housed, Frees, Freeing

LEMMA BrpopGood ==
  ASSUME NEW a \in Seq(Int), NEW cmd \in {"blpop", "brpop"}, NEW f \in Brpop(a)
  PROVE  Good(cmd, a, f)
  <1>1. /\ Sized(f) /\ Fitting(f, a) /\ Freeing(f) /\ Ordinary(f)
        /\ (Roomy(f) \/ Len(f.words) = f.cap + 1)
        /\ Converting(f, "theRest") /\ f.answer = "one"
    BY BrpopForms
  <1>2. Answers(cmd, f) = {"flat", "empty"}
    BY <1>1, FlatAnswers DEF Ordinary, FlatCommands
  <1>3. Matches(cmd, f) /\ Housed(cmd, f)
    BY <1>1, <1>2 DEF Matches, Converting, Housed
  <1>4. QED
    BY <1>1, <1>3 DEF Good, Frees, Freeing

LEMMA SaddGood ==
  ASSUME NEW a \in Seq(Int), NEW cmd \in Sloppy, cmd \notin Telling,
         NEW f \in Sadd(a)
  PROVE  Good(cmd, a, f)
  <1>1. /\ Sized(f) /\ Roomy(f) /\ Fitting(f, a) /\ Ordinary(f)
        /\ Converting(f, "none")
        /\ f.sync = "all" /\ f.piped = "all" /\ f.answer = "one"
        /\ f.lost \in Nat
    BY SaddForms
  <1>2. Answers(cmd, f) = {"value"}
    BY <1>1, PlainAnswers
  <1>3. Matches(cmd, f)
    BY <1>1, <1>2 DEF Matches, Converting
  <1>4. QED
    BY <1>1, <1>3 DEF Good, Housed, Frees

LEMMA BitposGood ==
  ASSUME NEW a, NEW f \in Bitpos(a)
  PROVE  Good("bitpos", a, f)
  <1>1. /\ Sized(f) /\ Roomy(f) /\ Freeing(f) /\ Ordinary(f)
        /\ Converting(f, "none") /\ f.answer = "one"
    BY BitposForms
  <1>2. Answers("bitpos", f) = {"value"}
    BY <1>1, PlainAnswers DEF Telling, Scans, FlatCommands, NestedCommands
  <1>3. QED
    BY <1>1, <1>2 DEF Matches, Converting, Good, Housed, Frees, Freeing

LEMMA SetGood ==
  ASSUME NEW a, NEW f \in Set(a)
  PROVE  Good("set", a, f)
  <1>1. /\ Sized(f) /\ Roomy(f) /\ Freeing(f) /\ Ordinary(f)
        /\ Converting(f, "none") /\ f.answer = "one"
    BY SetForms
  <1>2. Answers("set", f) = {"value"}
    BY <1>1, PlainAnswers DEF Telling, Scans, FlatCommands, NestedCommands
  <1>3. QED
    BY <1>1, <1>2 DEF Matches, Converting, Good, Housed, Frees, Freeing

LEMMA SortLimitGood ==
  ASSUME NEW a, NEW cmd \in {"sortLimit", "sortLimitStore"},
         NEW f \in SortLimit(a, cmd)
  PROVE  Good(cmd, a, f)
  <1>1. /\ Sized(f) /\ Freeing(f) /\ Ordinary(f) /\ Fitting(f, a)
        /\ f.cap = ArgvSlots /\ f.conv = "theRest" /\ f.answer = "one"
        /\ f.dest = IF cmd = "sortLimitStore" THEN 0 ELSE 2
    BY SortLimitForms
  <1>2. Matches(cmd, f)
    <2>1. CASE cmd = "sortLimit"
      <3>1. Answers(cmd, f) = {"flat", "empty"}
        BY <1>1, <2>1, FlatAnswers DEF Ordinary, FlatCommands
      <3>2. f.dest > 0
        BY <1>1, <2>1
      <3>3. QED
        BY <1>1, <3>1, <3>2 DEF Matches
    <2>2. CASE cmd = "sortLimitStore"
      <3>1. Answers(cmd, f) = {"value"}
        BY <1>1, <2>2, PlainAnswers DEF Telling, Scans, FlatCommands, NestedCommands
      <3>2. QED
        BY <1>1, <3>1 DEF Matches
    <2>3. QED
      BY <2>1, <2>2
  <1>3. QED
    BY <1>1, <1>2 DEF Good, Housed, OpenEnded, Frees, Freeing

LEMMA SortGood ==
  ASSUME NEW a, NEW cmd \in {"sort", "sortStore"}, NEW f \in Sort(a, cmd)
  PROVE  Good(cmd, a, f)
  <1>1. /\ Sized(f) /\ Freeing(f) /\ Ordinary(f) /\ Fitting(f, a)
        /\ f.cap = ArgvSlots /\ f.conv = "theRest" /\ f.answer = "one"
        /\ f.dest = IF cmd = "sortStore" THEN 0 ELSE 2
    BY SortForms
  <1>2. Matches(cmd, f)
    <2>1. CASE cmd = "sort"
      <3>1. Answers(cmd, f) = {"flat", "empty"}
        BY <1>1, <2>1, FlatAnswers DEF Ordinary, FlatCommands
      <3>2. f.dest > 0
        BY <1>1, <2>1
      <3>3. QED
        BY <1>1, <3>1, <3>2 DEF Matches
    <2>2. CASE cmd = "sortStore"
      <3>1. Answers(cmd, f) = {"value"}
        BY <1>1, <2>2, PlainAnswers DEF Telling, Scans, FlatCommands, NestedCommands
      <3>2. QED
        BY <1>1, <3>1 DEF Matches
    <2>3. QED
      BY <2>1, <2>2
  <1>3. QED
    BY <1>1, <1>2 DEF Good, Housed, OpenEnded, Frees, Freeing

LEMMA InfoGood ==
  ASSUME NEW a, NEW f \in Info(a)
  PROVE  Good("info", a, f)
  <1>1. Regular(f, a, "tipoInfo")
    BY InfoForms
  <1>2. f.conv = "tipoInfo" /\ f.dest > 0 /\ Ordinary(f)
    BY <1>1 DEF Regular, Converting
  <1>3. Answers("info", f) = {"text"}
    BY <1>2, TextAnswers
  <1>4. QED
    BY <1>1, <1>2, <1>3, RegularGood DEF Matches

LEMMA HmsetGood ==
  ASSUME NEW a \in Seq(Int), NEW f \in Hmset(a)
  PROVE  Good("hmset", a, f)
  <1>1. /\ Sized(f) /\ Roomy(f) /\ Fitting(f, a) /\ Ordinary(f)
        /\ Converting(f, "none") /\ f.lost = 0 /\ f.answer = "one"
    BY HmsetForms
  <1>2. Answers("hmset", f) = {"value"}
    BY <1>1, PlainAnswers DEF Telling, Scans, FlatCommands, NestedCommands
  <1>3. QED
    BY <1>1, <1>2 DEF Matches, Converting, Good, Housed, Frees, Sloppy

LEMMA HmgetGood ==
  ASSUME NEW a \in Seq(Int), NEW cmd \in {"hmget", "geopos"},
         NEW f \in Hmget(a, cmd)
  PROVE  Good(cmd, a, f)
  <1>1. /\ Sized(f) /\ Roomy(f) /\ Fitting(f, a) /\ Ordinary(f)
        /\ Converting(f, IF cmd = "geopos" THEN "tipoExec" ELSE "theRest")
        /\ f.lost = 0 /\ f.answer = "one"
    BY HmgetForms
  <1>2. Matches(cmd, f)
    <2>1. CASE cmd = "geopos"
      <3>1. Answers(cmd, f) \subseteq {"nested", "flat", "empty", "value"}
        BY <1>1, <2>1, NestedAnswers DEF NestedCommands
      <3>2. QED
        BY <1>1, <2>1, <3>1 DEF Matches, Converting
    <2>2. CASE cmd = "hmget"
      <3>1. Answers(cmd, f) = {"flat", "empty"}
        BY <1>1, <2>2, FlatAnswers DEF Ordinary, FlatCommands
      <3>2. QED
        BY <1>1, <2>2, <3>1 DEF Matches, Converting
    <2>3. QED
      BY <2>1, <2>2
  <1>3. QED
    BY <1>1, <1>2 DEF Good, Housed, Frees, Sloppy

-----------------------------------------------------------------------------
(* Every form of every command.                                            *)

LEMMA GoodForms ==
  ASSUME NEW a \in Seq(Int), NEW cmd, NEW f \in Forms(cmd, a)
  PROVE  Good(cmd, a, f)
  <1>1. PICK d \in Dispatch : d[1] = cmd /\ f \in FormsOf(d[2], cmd, a)
    BY DEF Forms
  <1>2. PICK tipo : tipo = d[2]
    OBVIOUS
  <1>3. Told(cmd, tipo) /\ f \in FormsOf(tipo, cmd, a)
    BY <1>1, <1>2, AllTold
  <1> USE DEF Told, PlainFunctions, FlatFunctions
  <1>4. CASE tipo = "Select"
    <2>1. f \in Select(a)
      BY <1>3, <1>4 DEF FormsOf
    <2>2. QED
      BY <1>3, <1>4, <2>1, SelectForms, PlainGood
  <1>5. CASE tipo = "Randomkey"
    <2>1. f \in Randomkey(a, cmd)
      BY <1>3, <1>5 DEF FormsOf
    <2>2. QED
      BY <1>3, <1>5, <2>1, RandomkeyForms, PlainGood
  <1>6. CASE tipo = "ClientOne"
    <2>1. f \in ClientOne(a)
      BY <1>3, <1>6 DEF FormsOf
    <2>2. QED
      BY <1>3, <1>6, <2>1, ClientOneForms, PlainGood
  <1>7. CASE tipo = "Subscribe"
    <2>1. f \in Subscribe(a)
      BY <1>3, <1>7 DEF FormsOf
    <2>2. QED
      BY <1>3, <1>7, <2>1, SubscribeForms, PlainGood
  <1>8. CASE tipo = "Getrange"
    <2>1. f \in Getrange(a)
      BY <1>3, <1>8 DEF FormsOf
    <2>2. QED
      BY <1>3, <1>8, <2>1, GetrangeForms, PlainGood
  <1>9. CASE tipo = "Zadd"
    <2>1. f \in Zadd(a)
      BY <1>3, <1>9 DEF FormsOf
    <2>2. QED
      BY <1>3, <1>9, <2>1, ZaddForms, PlainGood
  <1>10. CASE tipo = "Setrange"
    <2>1. f \in Setrange(a)
      BY <1>3, <1>10 DEF FormsOf
    <2>2. QED
      BY <1>3, <1>10, <2>1, SetrangeForms, PlainGood
  <1>11. CASE tipo = "Bitcount"
    <2>1. f \in Bitcount(a)
      BY <1>3, <1>11 DEF FormsOf
    <2>2. QED
      BY <1>3, <1>11, <2>1, BitcountForms, PlainGood
  <1>12. CASE tipo = "Geodist"
    <2>1. f \in Geodist(a)
      BY <1>3, <1>12 DEF FormsOf
    <2>2. QED
      BY <1>3, <1>12, <2>1, GeodistForms, PlainGood
  <1>13. CASE tipo = "Setbit"
    <2>1. f \in Setbit(a)
      BY <1>3, <1>13 DEF FormsOf
    <2>2. QED
      BY <1>3, <1>13, <2>1, SetbitForms, PlainGood
  <1>14. CASE tipo = "Bitop"
    <2>1. f \in Bitop(a)
      BY <1>3, <1>14 DEF FormsOf
    <2>2. QED
      BY <1>3, <1>14, <2>1, BitopForms, PlainGood
  <1>15. CASE tipo = "Linsert"
    <2>1. f \in Linsert(a)
      BY <1>3, <1>15 DEF FormsOf
    <2>2. QED
      BY <1>3, <1>15, <2>1, LinsertForms, PlainGood
  <1>16. CASE tipo = "Smove"
    <2>1. f \in Smove(a)
      BY <1>3, <1>16 DEF FormsOf
    <2>2. QED
      BY <1>3, <1>16, <2>1, SmoveForms, PlainGood
  <1>17. CASE tipo = "Zincrby"
    <2>1. f \in Zincrby(a)
      BY <1>3, <1>17 DEF FormsOf
    <2>2. QED
      BY <1>3, <1>17, <2>1, ZincrbyForms, PlainGood
  <1>18. CASE tipo = "Hincrby"
    <2>1. f \in Hincrby(a)
      BY <1>3, <1>18 DEF FormsOf
    <2>2. QED
      BY <1>3, <1>18, <2>1, HincrbyForms, PlainGood
  <1>19. CASE tipo = "Restore"
    <2>1. f \in Restore(a)
      BY <1>3, <1>19 DEF FormsOf
    <2>2. QED
      BY <1>3, <1>19, <2>1, RestoreForms, PlainGood
  <1>20. CASE tipo = "Expire"
    <2>1. f \in Expire(a)
      BY <1>3, <1>20 DEF FormsOf
    <2>2. QED
      BY <1>3, <1>20, <2>1, ExpireForms, PlainGood
  <1>21. CASE tipo = "Sismember"
    <2>1. f \in Sismember(a, cmd)
      BY <1>3, <1>21 DEF FormsOf
    <2>2. QED
      BY <1>3, <1>21, <2>1, SismemberForms, PlainGood
  <1>22. CASE tipo = "Object"
    <2>1. f \in Object(a)
      BY <1>3, <1>22 DEF FormsOf
    <2>2. QED
      BY <1>3, <1>22, <2>1, ObjectForms, PlainGood
  <1>23. CASE tipo = "Zunionstore"
    <2>1. f \in Zunionstore(a)
      BY <1>3, <1>23 DEF FormsOf
    <2>2. QED
      BY <1>3, <1>23, <2>1, ZunionstoreForms, PlainGood
  <1>24. CASE tipo = "Mset"
    <2>1. f \in Mset(a)
      BY <1>3, <1>24 DEF FormsOf
    <2>2. QED
      BY <1>3, <1>24, <2>1, MsetForms, PlainGood
  <1>25. CASE tipo = "Keys"
    <2>1. f \in Keys(a, cmd)
      BY <1>3, <1>25 DEF FormsOf
    <2>2. QED
      BY <1>3, <1>25, <2>1, KeysForms, FlatGood
  <1>26. CASE tipo = "Zrange"
    <2>1. f \in Zrange(a, cmd)
      BY <1>3, <1>26 DEF FormsOf
    <2>2. QED
      BY <1>3, <1>26, <2>1, ZrangeForms, FlatGood
  <1>27. CASE tipo = "Sinter"
    <2>1. f \in Sinter(a)
      BY <1>3, <1>27 DEF FormsOf
    <2>2. QED
      BY <1>3, <1>27, <2>1, SinterForms, FlatGood
  <1>28. CASE tipo = "Zrangebylex"
    <2>1. f \in Zrangebylex(a)
      BY <1>3, <1>28 DEF FormsOf
    <2>2. QED
      BY <1>3, <1>28, <2>1, ZrangebylexForms, FlatGood
  <1>29. CASE tipo = "Georadius"
    <2>1. f \in Georadius(a)
      BY <1>3, <1>29 DEF FormsOf
    <2>2. QED
      BY <1>3, <1>29, <2>1, GeoradiusForms, FlatGood
  <1>30. CASE tipo = "Georadiusbymember"
    <2>1. f \in Georadiusbymember(a)
      BY <1>3, <1>30 DEF FormsOf
    <2>2. QED
      BY <1>3, <1>30, <2>1, GeoradiusbymemberForms, FlatGood
  <1>31. CASE tipo = "Geohash"
    <2>1. f \in Geohash(a)
      BY <1>3, <1>31 DEF FormsOf
    <2>2. QED
      BY <1>3, <1>31, <2>1, GeohashForms, FlatGood
  <1>32. CASE tipo = "Mget"
    <2>1. f \in Mget(a)
      BY <1>3, <1>32 DEF FormsOf
    <2>2. QED
      BY <1>3, <1>32, <2>1, MgetForms, FlatGood
  <1>33. CASE tipo = "Exec"
    <2>1. f \in Exec(a)
      BY <1>3, <1>33 DEF FormsOf
    <2>2. QED
      BY <1>3, <1>33, <2>1, ExecForms, NestedGood
  <1>34. CASE tipo = "GeoradiusWD"
    <2>1. f \in GeoradiusWD(a, cmd)
      BY <1>3, <1>34 DEF FormsOf
    <2>2. QED
      BY <1>3, <1>34, <2>1, GeoradiusWDForms, NestedGood
  <1>35. CASE tipo = "GeoradiusbymemberWD"
    <2>1. f \in GeoradiusbymemberWD(a, cmd)
      BY <1>3, <1>35 DEF FormsOf
    <2>2. QED
      BY <1>3, <1>35, <2>1, GeoradiusbymemberWDForms, NestedGood
  <1>36. CASE tipo = "Scan"
    <2>1. f \in Scan(a)
      BY <1>3, <1>36 DEF FormsOf
    <2>2. QED
      BY <1>3, <1>36, <2>1, ScanForms, ScanGood
  <1>37. CASE tipo = "Sscan"
    <2>1. f \in Sscan(a)
      BY <1>3, <1>37 DEF FormsOf
    <2>2. QED
      BY <1>3, <1>37, <2>1, SscanForms, ScanGood
  <1>38. CASE tipo = "Slowlog"
    <2>1. f \in Slowlog(a)
      BY <1>3, <1>38 DEF FormsOf
    <2>2. QED
      BY <1>3, <1>38, <2>1, SlowlogGood
  <1>39. CASE tipo = "Evalsha"
    <2>1. f \in Evalsha(a)
      BY <1>3, <1>39 DEF FormsOf
    <2>2. QED
      BY <1>3, <1>39, <2>1, EvalshaGood
  <1>40. CASE tipo = "ClientTwo"
    <2>1. f \in ClientTwo(a, cmd)
      BY <1>3, <1>40 DEF FormsOf
    <2>2. QED
      BY <1>3, <1>40, <2>1, ClientTwoGood
  <1>41. CASE tipo = "Script"
    <2>1. f \in Script(a)
      BY <1>3, <1>41 DEF FormsOf
    <2>2. QED
      BY <1>3, <1>41, <2>1, ScriptGood
  <1>42. CASE tipo = "Scard"
    <2>1. f \in Scard(a)
      BY <1>3, <1>42 DEF FormsOf
    <2>2. QED
      BY <1>3, <1>42, <2>1, ScardGood
  <1>43. CASE tipo = "Pubsub"
    <2>1. f \in Pubsub(a)
      BY <1>3, <1>43 DEF FormsOf
    <2>2. QED
      BY <1>3, <1>43, <2>1, PubsubGood
  <1>44. CASE tipo = "Spop"
    <2>1. f \in Spop(a)
      BY <1>3, <1>44 DEF FormsOf
    <2>2. QED
      BY <1>3, <1>44, <2>1, SpopGood
  <1>45. CASE tipo = "Brpop"
    <2>1. f \in Brpop(a)
      BY <1>3, <1>45 DEF FormsOf
    <2>2. QED
      BY <1>3, <1>45, <2>1, BrpopGood
  <1>46. CASE tipo = "Bitpos"
    <2>1. f \in Bitpos(a)
      BY <1>3, <1>46 DEF FormsOf
    <2>2. QED
      BY <1>3, <1>46, <2>1, BitposGood
  <1>47. CASE tipo = "Set"
    <2>1. f \in Set(a)
      BY <1>3, <1>47 DEF FormsOf
    <2>2. QED
      BY <1>3, <1>47, <2>1, SetGood
  <1>48. CASE tipo = "SortLimit"
    <2>1. f \in SortLimit(a, cmd)
      BY <1>3, <1>48 DEF FormsOf
    <2>2. QED
      BY <1>3, <1>48, <2>1, SortLimitGood
  <1>49. CASE tipo = "Sort"
    <2>1. f \in Sort(a, cmd)
      BY <1>3, <1>49 DEF FormsOf
    <2>2. QED
      BY <1>3, <1>49, <2>1, SortGood
  <1>50. CASE tipo = "Info"
    <2>1. f \in Info(a)
      BY <1>3, <1>50 DEF FormsOf
    <2>2. QED
      BY <1>3, <1>50, <2>1, InfoGood
  <1>51. CASE tipo = "Srandmember"
    <2>1. f \in Srandmember(a)
      BY <1>3, <1>51 DEF FormsOf
    <2>2. QED
      BY <1>3, <1>51, <2>1, SrandmemberGood
  <1>52. CASE tipo = "Hmset"
    <2>1. f \in Hmset(a)
      BY <1>3, <1>52 DEF FormsOf
    <2>2. QED
      BY <1>3, <1>52, <2>1, HmsetGood
  <1>53. CASE tipo = "Hmget"
    <2>1. f \in Hmget(a, cmd)
      BY <1>3, <1>53 DEF FormsOf
    <2>2. QED
      BY <1>3, <1>53, <2>1, HmgetGood
  <1>54. CASE tipo = "Sadd"
    <2>1. f \in Sadd(a)
      BY <1>3, <1>54 DEF FormsOf
    <2>2. cmd \in Sloppy
      BY <1>1, <1>2, <1>54 DEF Sloppy
    <2>3. QED
      BY <1>3, <1>54, <2>1, <2>2, SaddGood
  <1>55. QED
    BY <1>3, <1>4, <1>5, <1>6, <1>7, <1>8, <1>9, <1>10, <1>11, <1>12,
       <1>13, <1>14, <1>15, <1>16, <1>17, <1>18, <1>19, <1>20, <1>21,
       <1>22, <1>23, <1>24, <1>25, <1>26, <1>27, <1>28, <1>29, <1>30,
       <1>31, <1>32, <1>33, <1>34, <1>35, <1>36, <1>37, <1>38, <1>39,
       <1>40, <1>41, <1>42, <1>43, <1>44, <1>45, <1>46, <1>47, <1>48,
       <1>49, <1>50, <1>51, <1>52, <1>53, <1>54

-----------------------------------------------------------------------------
(* A call.                                                                 *)

\* The arguments of a call, whichever they are, are scalars and lengths.
LEMMA ArgumentsAreNumbers ==
  ASSUME NEW cmd, NEW x \in Arguments(cmd)
  PROVE  x \in Seq(Int)
  <1>1. CASE \E n \in 0 .. 8 : x = [k \in 1 .. n |-> SCALAR]
    BY <1>1 DEF SCALAR
  <1>2. CASE \E f \in Forms(cmd, <<>>) : x \in ArgumentsOf(f)
    <2>1. PICK f \in Forms(cmd, <<>>) : x \in ArgumentsOf(f)
      BY <1>2
    <2>2. f.nargs \in Nat
      <3>1. <<>> \in Seq(Int)
        OBVIOUS
      <3>2. Good(cmd, <<>>, f)
        BY <3>1, GoodForms
      <3>3. QED
        BY <3>2 DEF Good, Sized
    <2>3. PICK l \in [{0, 1} -> ArrayLengths], other \in {SCALAR, 1},
               wrong \in 0 .. f.nargs :
            x = [k \in 1 .. f.nargs |->
                   LET v == Value(IF k <= Len(f.valid) THEN f.valid[k] ELSE "either",
                                  l[k % 2], other)
                   IN IF k = wrong THEN Interchanged(v) ELSE v]
      BY <2>1 DEF ArgumentsOf
    <2>4. ASSUME NEW k \in 1 .. f.nargs
          PROVE  x[k] \in Int
      <3>1. k % 2 \in {0, 1}
        OBVIOUS
      <3>2. l[k % 2] \in Int
        <4>1. l \in [{0, 1} -> ArrayLengths]
          BY <2>3
        <4>2. l[k % 2] \in ArrayLengths
          BY <3>1, <4>1, Zenon
        <4>3. \A n \in ArrayLengths : n \in Int
          BY CallsAssumption
        <4>4. QED
          BY <4>2, <4>3, Zenon
      <3> DEFINE type == IF k <= Len(f.valid) THEN f.valid[k] ELSE "either"
                 v == Value(type, l[k % 2], other)
      <3>3. x[k] = IF k = wrong THEN Interchanged(v) ELSE v
        BY <2>3
      <3> HIDE DEF type
      <3>4. v \in Int
        BY <3>2 DEF Value, SCALAR
      <3> HIDE DEF v
      <3>5. QED
        BY <3>3, <3>4 DEF Interchanged, SCALAR
    <2>5. x \in [1 .. f.nargs -> Int]
      BY <2>3, <2>4
    <2>6. QED
      BY <2>2, <2>5
  <1>3. \/ x \in UNION {ArgumentsOf(f) : f \in Forms(cmd, <<>>)}
        \/ x \in {[k \in 1 .. n |-> SCALAR] : n \in 0 .. 8}
    BY DEF Arguments
  <1>4. QED
    BY <1>1, <1>2, <1>3, Zenon

\* What may have been read for a form.
Replies == IF call.backlog THEN AnyReply
           ELSE Answers(call.cmd, form) \cup {"queued", "error", "lost"}

Allocated == Blocks(form) + form.lost

\* The stages of a call that validate has accepted.
Stage ==
  \/ pc = "build" /\ heap = 0 /\ reply = NULL
  \/ pc = "issue" /\ heap = Allocated /\ reply = NULL
  \/ pc = "wait" /\ ~call.piped /\ heap = Allocated
  \/ /\ pc = "convert" /\ ~call.piped /\ reply \in Replies
     /\ heap = Allocated + (IF reply = "lost" THEN 0 ELSE 1)
  \/ /\ pc = "done" /\ call.piped /\ reply = NULL /\ ret = form.answer
     /\ heap = Allocated - Released(form, form.piped)
  \/ pc = "done" /\ Cut(form) /\ reply = NULL /\ ret = "uncut"
  \/ /\ pc = "done" /\ ~call.piped /\ reply \in Replies
     /\ ret = Converted(form, reply)
     /\ ret \notin Crashes =>
          heap = Allocated - Released(form, form.sync) + Forgotten(form, reply)

\* The blocks allocated follow from the form and the stage.
CallInv ==
  /\ call.args \in Seq(Int)
  /\ \/ pc = "validate" /\ form = NULL /\ heap = 0 /\ reply = NULL
     \/ pc = "done" /\ form = NULL /\ heap = 0 /\ ret = "error"
     \/ /\ form \in Forms(call.cmd, call.args)
        /\ Fits(form, call.args)
        /\ Stage

LEMMA InitCall == Init => CallInv
  BY ArgumentsAreNumbers DEF Init, CallInv

LEMMA NextCall == CallInv /\ [Next]_vars => CallInv'
  <1> SUFFICES ASSUME CallInv, [Next]_vars
               PROVE  CallInv'
    OBVIOUS
  <1>1. call' = call
    BY DEF Next, vars, Accept, Reject, Build, CutNowhere, IssuePiped, Issue,
           Receive, Convert, Finished
  <1>2. call.args \in Seq(Int)
    BY DEF CallInv
  <1>3. CASE Accept
    <2>1. heap = 0 /\ reply = NULL
      BY <1>3 DEF Accept, CallInv, Stage
    <2>2. QED
      BY <1>1, <1>2, <1>3, <2>1 DEF Accept, CallInv, Stage
  <1>4. CASE Reject
    <2>1. form = NULL /\ heap = 0
      BY <1>4 DEF Reject, CallInv, Stage
    <2>2. QED
      BY <1>1, <1>2, <1>4, <2>1 DEF Reject, Return, CallInv
  <1>5. ASSUME pc \notin {"validate", "done"}
        PROVE  /\ form \in Forms(call.cmd, call.args) /\ Fits(form, call.args)
               /\ Stage /\ Good(call.cmd, call.args, form)
    BY <1>2, <1>5, GoodForms DEF CallInv
  <1>6. ASSUME pc \notin {"validate", "done"}, form' = form, Stage'
        PROVE  CallInv'
    BY <1>1, <1>2, <1>5, <1>6 DEF CallInv
  <1>7. CASE Build
    <2>1. Blocks(form) \in Nat /\ form.lost \in Nat
      BY <1>5, <1>7 DEF Build, Good, Sized, Frees, Blocks
    <2>2. Stage'
      BY <1>5, <1>7, <2>1 DEF Build, Stage, Allocated
    <2>3. QED
      BY <1>6, <1>7, <2>2 DEF Build
  <1>8. CASE IssuePiped
    <2>1. Stage'
      BY <1>1, <1>5, <1>8 DEF IssuePiped, Return, Stage, Allocated
    <2>2. QED
      BY <1>6, <1>8, <2>1 DEF IssuePiped
  <1>9. CASE Issue
    <2>1. Stage'
      BY <1>1, <1>5, <1>9 DEF Issue, Stage, Allocated
    <2>2. QED
      BY <1>6, <1>9, <2>1 DEF Issue
  <1>10. CASE Receive
    <2>1. Blocks(form) \in Nat /\ form.lost \in Nat
      BY <1>5, <1>10 DEF Receive, Good, Sized, Frees, Blocks
    <2>2. Stage'
      BY <1>1, <1>5, <1>10, <2>1 DEF Receive, Stage, Allocated, Replies
    <2>3. QED
      BY <1>6, <1>10, <2>2 DEF Receive
  <1>11. CASE Convert
    <2>1. /\ Blocks(form) \in Nat /\ form.lost \in Nat
          /\ Released(form, form.sync) \in Nat
      BY <1>5, <1>11 DEF Convert, Good, Sized, Frees, Blocks, Released
    <2>2. /\ pc' = "done" /\ ~call.piped /\ reply \in Replies /\ reply' = reply
          /\ form' = form /\ ret' = Converted(form, reply)
          /\ heap = Allocated + (IF reply = "lost" THEN 0 ELSE 1)
          /\ ret' \notin Crashes =>
               heap' = heap - Released(form, form.sync) + Forgotten(form, reply)
                       - (IF reply = "lost" THEN 0 ELSE 1)
      BY <1>5, <1>11 DEF Convert, Return, Stage
    <2>3. Replies' = Replies /\ Allocated' = Allocated
      BY <1>1, <2>2 DEF Replies, Allocated
    <2>4. ret' \notin Crashes =>
            heap' = Allocated - Released(form, form.sync) + Forgotten(form, reply)
      BY <2>1, <2>2 DEF Allocated, Forgotten
    <2>5. Stage'
      BY <1>1, <2>2, <2>3, <2>4 DEF Stage
    <2>6. QED
      BY <1>6, <1>11, <2>2, <2>5 DEF Convert
  <1>12. CASE CutNowhere
    <2>1. reply = NULL
      BY <1>5, <1>12 DEF CutNowhere, Stage
    <2>2. Stage'
      BY <1>1, <1>12, <2>1 DEF CutNowhere, Return, Stage, Cut
    <2>3. QED
      BY <1>6, <1>12, <2>2 DEF CutNowhere
  <1>13. CASE UNCHANGED vars
    BY <1>13 DEF vars, CallInv, Stage, Allocated, Replies, Cut
  <1>14. QED
    BY <1>3, <1>4, <1>7, <1>8, <1>9, <1>10, <1>11, <1>12, <1>13
    DEF Next, Finished

\* The invariant of a call: where it is decides what it has allocated.
THEOREM Invariance == Spec => []CallInv
  BY InitCall, NextCall, PTL DEF Spec

-----------------------------------------------------------------------------
(* The theorems.                                                           *)

\* Every word of argv is written into the block allocated for it, except by
\* BRPOP and BLPOP, which write one slot behind it, and by PUBSUB and SORT, whose
\* block has 25 slots: for arrays of every length.
THEOREM WordsInBlock == Spec => []ArgvWithinBlock
  <1>1. CallInv => ArgvWithinBlock
    <2> SUFFICES ASSUME CallInv, form # NULL, form.cap > 0
                 PROVE  \/ Len(form.words) <= form.cap
                        \/ call.cmd \in {"brpop", "blpop"}
                           /\ Len(form.words) = form.cap + 1
                        \/ call.cmd \in OpenEnded /\ form.cap = ArgvSlots
      BY DEF ArgvWithinBlock
    <2>1. Good(call.cmd, call.args, form)
      BY GoodForms DEF CallInv
    <2>2. form.cap # 0
      OBVIOUS
    <2>3. QED
      BY <2>1, <2>2 DEF Good, Housed, Roomy
  <1>2. QED
    BY <1>1, Invariance, PTL

\* A string is read from a scalar, elements and the destination of a reply from
\* an array, and no number is used as a string, except by SET, PUBSUB and BITPOS.
THEOREM ArgumentsAreFit == Spec => []ArgumentsFit
  <1>1. CallInv => ArgumentsFit
    <2> SUFFICES ASSUME CallInv, form # NULL,
                        call.cmd \notin {"set", "pubsub", "bitpos"}
                 PROVE  /\ \A i \in 1 .. Len(form.words) :
                             Held(form.words[i], call.args)
                        /\ form.dest > 0 => call.args[form.dest] # SCALAR
                        /\ form.torn = {}
      BY DEF ArgumentsFit, Held
    <2>1. Good(call.cmd, call.args, form) /\ Fits(form, call.args)
      BY GoodForms DEF CallInv
    <2>2. QED
      BY <2>1 DEF Good, Fitting, WordsFit
  <1>2. QED
    BY <1>1, Invariance, PTL

\* What a function has allocated is freed when it returns, whichever way the
\* call went, except by the functions named in Leaky.
THEOREM AllIsFreed == Spec => []NothingLeaked
  <1>1. CallInv => NothingLeaked
    <2> SUFFICES ASSUME CallInv, pc = "done", ret \notin Crashes,
                        call.cmd \notin Leaky, form \in Forms(call.cmd, call.args),
                        Stage
                 PROVE  heap = 0
      BY DEF NothingLeaked, CallInv
    <2>1. Good(call.cmd, call.args, form)
      BY GoodForms DEF CallInv
    <2>2. /\ form.lost = 0 /\ form.sync = "all"
          /\ call.piped => form.piped = "all"
      BY <2>1 DEF Good, Frees, Leaky, Sloppy
    <2>3. Blocks(form) \in Nat /\ Released(form, "all") = Blocks(form)
      BY <2>1 DEF Good, Sized, Blocks, Released
    <2>a. ret # "uncut"
      BY DEF Crashes
    <2>4. CASE call.piped
      BY <2>2, <2>3, <2>4, <2>a DEF Stage, Allocated
    <2>5. CASE ~call.piped
      <3>1. form.conv \notin TextConverters
        BY <2>1 DEF Good, Matches, Leaky, TextConverters
      <3>2. Forgotten(form, reply) = 0
        BY <3>1 DEF Forgotten
      <3>3. QED
        BY <2>2, <2>3, <2>5, <2>a, <3>2 DEF Stage, Allocated
    <2>6. QED
      BY <2>4, <2>5
  <1>2. QED
    BY <1>1, Invariance, PTL

\* What a converter makes of a reply to its command.
LEMMA ReplyStored ==
  ASSUME NEW cmd, NEW f, Matches(cmd, f),
         NEW r \in Answers(cmd, f) \cup {"queued", "error", "lost"}
  PROVE  /\ Converted(f, r) \notin {"misread", "partial", "null"}
         /\ Converted(f, r) = "noarray" => cmd = "clientList" /\ f.dest = 0
  <1>1. CASE f.conv = "none" /\ Answers(cmd, f) = {"value"}
    BY <1>1
    DEF Converted, TheReply, Stored, ArrayReplies, TextConverters
  <1>2. CASE f.conv = "theRest" /\ Answers(cmd, f) = {"value"}
    BY <1>2
    DEF Converted, TheReply, Stored, ArrayReplies, TextConverters
  <1>3. CASE f.conv = "theRest" /\ f.dest > 0
             /\ Answers(cmd, f) = {"flat", "empty"}
    <2>1. f.dest # 0
      BY <1>3
    <2>2. CASE r \in {"flat", "empty"}
      <3>1. Converted(f, r) = Stored("theRest", r)
        BY <1>3, <2>1, <2>2 DEF Converted, ArrayReplies, TextConverters
      <3>2. QED
        BY <2>2, <3>1 DEF Stored
    <2>3. CASE r \in {"queued", "error", "lost"}
      BY <1>3, <2>3 DEF Converted, TheReply, ArrayReplies, TextConverters
    <2>4. QED
      BY <1>3, <2>2, <2>3
  <1>4. CASE f.conv = "theRest1" /\ f.dest > 0
             /\ Answers(cmd, f) = {"pairs", "empty"}
    <2>1. f.dest # 0
      BY <1>4
    <2>2. CASE r \in {"pairs", "empty"}
      <3>1. Converted(f, r) = Stored("theRest1", r)
        BY <1>4, <2>1, <2>2 DEF Converted, ArrayReplies, TextConverters
      <3>2. QED
        BY <2>2, <3>1 DEF Stored
    <2>3. CASE r \in {"queued", "error", "lost"}
      BY <1>4, <2>3 DEF Converted, TheReply, ArrayReplies, TextConverters
    <2>4. QED
      BY <1>4, <2>2, <2>3
  <1>5. CASE f.conv = "tipoScan" /\ f.dest > 0 /\ Answers(cmd, f) = {"pair", "last"}
    BY <1>5
    DEF Converted, TheReply, Stored, ArrayReplies, TextConverters
  <1>6. CASE f.conv = "tipoExec" /\ f.dest > 0
             /\ Answers(cmd, f) \subseteq {"nested", "flat", "empty", "value"}
    BY <1>6
    DEF Converted, TheReply, Stored, ArrayReplies, TextConverters
  <1>7. CASE f.conv = "tipoInfo" /\ f.dest > 0 /\ cmd = "info"
             /\ Answers(cmd, f) = {"text"}
    BY <1>7
    DEF Converted, TheReply, Stored, ArrayReplies, TextConverters
  <1>8. CASE f.conv = "tipoClient" /\ cmd = "clientList"
             /\ Answers(cmd, f) = {"text"}
    BY <1>8
    DEF Converted, TheReply, Stored, ArrayReplies, TextConverters
  <1>9. QED
    BY <1>1, <1>2, <1>3, <1>4, <1>5, <1>6, <1>7, <1>8 DEF Matches

LEMMA CrashOfALostReply ==
  ASSUME NEW f, NEW r, Converted(f, r) = "crash"
  PROVE  r = "lost"
  BY DEF Converted, TheReply, Stored, ArrayReplies, TextConverters

\* The converter a function has chosen stores what the server answers to its
\* command: it reads nothing beyond the reply, skips no inner array and has an
\* array to store it into, except for CLIENT LIST with a string.
THEOREM RepliesAreStored == Spec => []RepliesStored
  <1>1. CallInv => RepliesStored
    <2> SUFFICES ASSUME CallInv, pc = "done", ~call.backlog,
                        form \in Forms(call.cmd, call.args), Stage
                 PROVE  /\ ret \notin {"misread", "partial"}
                        /\ ret = "noarray" =>
                             call.cmd = "clientList" /\ form.dest = 0
                        /\ ret = "crash" => reply = "lost"
      BY DEF RepliesStored, CallInv
    <2>1. Good(call.cmd, call.args, form)
      BY GoodForms DEF CallInv
    <2>a. CASE ret = "uncut"
      BY <2>a
    <2>2. CASE call.piped
      BY <2>1, <2>2 DEF Stage, Good
    <2>3. CASE ~call.piped /\ ret # "uncut"
      <3>1. /\ reply \in Answers(call.cmd, form) \cup {"queued", "error", "lost"}
            /\ ret = Converted(form, reply)
        BY <2>3 DEF Stage, Replies
      <3>2. Matches(call.cmd, form)
        BY <2>1 DEF Good
      <3>3. QED
        BY <3>1, <3>2, ReplyStored, CrashOfALostReply
    <2>4. QED
      BY <2>a, <2>2, <2>3
  <1>2. QED
    BY <1>1, Invariance, PTL

\* An error of the server is returned as -1, except where the reply is taken for
\* text whatever it is.
THEOREM ErrorsAreReported == Spec => []ErrorsReported
  <1>1. CallInv => ErrorsReported
    <2> SUFFICES ASSUME CallInv, pc = "done", reply = "error",
                        form.conv \notin TextConverters, Stage
                 PROVE  ret = "error"
      BY DEF ErrorsReported, CallInv
    <2>1. reply # NULL
      BY NullAssumption DEF AnyReply
    <2>2. ret = Converted(form, "error")
      BY <2>1 DEF Stage
    <2>3. QED
      BY <2>2 DEF Converted, TheReply, ArrayReplies
  <1>2. QED
    BY <1>1, Invariance, PTL

LEMMA UncutIsNoValue == \A f, r : Converted(f, r) # "uncut"
  BY DEF Converted, TheReply, Stored, ArrayReplies, TextConverters

LEMMA NoNull ==
  ASSUME NEW f, NEW r, Converted(f, r) = "null"
  PROVE  f.conv = "none" /\ r \in ArrayReplies
  BY DEF Converted, TheReply, Stored, ArrayReplies, TextConverters

\* A function returns a value unless it was asked for an array it has no room
\* for, except slowlog and, from a pipeline, srandmember; zinterstore and
\* zunionstore may end in a string without a space.
THEOREM CallsAnswer == Spec => []AlwaysAnswers
  <1>1. CallInv /\ ret # "uncut" => AlwaysAnswers
    <2> SUFFICES ASSUME CallInv, pc = "done", ret = "null",
                        form \in Forms(call.cmd, call.args), Stage
                 PROVE  \/ call.backlog /\ ~call.piped /\ form.conv = "none"
                        \/ call.cmd = "srandmember" /\ call.piped
                        \/ call.cmd = "slowlog" /\ call.piped
      BY DEF AlwaysAnswers, CallInv
    <2>1. Good(call.cmd, call.args, form)
      BY GoodForms DEF CallInv
    <2>2. CASE call.piped
      BY <2>1, <2>2 DEF Stage, Good
    <2>3. CASE ~call.piped
      <3>1. reply \in Replies /\ Converted(form, reply) = "null"
        BY <2>3 DEF Stage
      <3>2. form.conv = "none"
        BY <3>1, NoNull
      <3>3. CASE ~call.backlog
        BY <2>1, <3>1, <3>3, ReplyStored DEF Good, Replies
      <3>4. QED
        BY <2>3, <3>2, <3>3
    <2>4. QED
      BY <2>2, <2>3
  <1>2. CallInv /\ ret = "uncut" => AlwaysAnswers
    <2> SUFFICES ASSUME CallInv, pc = "done", ret = "uncut"
                 PROVE  /\ call.cmd \in {"zinterstore", "zunionstore"}
                        /\ Len(call.args) > 2
                        /\ call.args[Len(call.args)] = SCALAR
      BY DEF AlwaysAnswers
    <2>1. form \in Forms(call.cmd, call.args) /\ Fits(form, call.args) /\ Stage
      BY DEF CallInv
    <2>2. Good(call.cmd, call.args, form)
      BY <2>1, GoodForms DEF CallInv
    <2>3. Cut(form)
      <3>1. ~call.piped => ret # Converted(form, reply)
        BY UncutIsNoValue
      <3>2. call.piped => ret # form.answer
        BY <2>2 DEF Good
      <3>3. QED
        BY <2>1, <3>1, <3>2 DEF Stage
    <2>4. QED
      BY <2>1, <2>3 DEF Cut, Fits
  <1>3. CallInv => AlwaysAnswers
    BY <1>1, <1>2
  <1>4. QED
    BY <1>3, Invariance, PTL

=============================================================================
