------------------------------ MODULE HaruDocs ------------------------------
(***************************************************************************)
(* The documents of haru/pdf.c and the objects in them.  The extension has *)
(* a table of handles for each kind of object; the objects belong to the   *)
(* library, which frees what is in a document with the document, without   *)
(* the extension taking their handles out of the tables.                   *)
(*                                                                         *)
(* A call is one step: the arguments are read, the library is called, and  *)
(* what it gives is handed back.  Most functions are a row of HaruCalls.   *)
(***************************************************************************)
EXTENDS HaruCalls, HandleTable, Sequences, FiniteSetsExt

CONSTANTS
  MaxObjects,  \* bound: objects the library makes
  MaxHandles,  \* bound: handles issued
  NULL

VARIABLES
  table,    \* for each kind the table of its handles
  objs,     \* the objects made: kind, document (an index) and liveness
  emptied,  \* documents whose contents were freed while they stayed
  got,      \* NULL or the object the last call got from the library
  ret,      \* what the last call returned
  fault     \* "none", or why the library was called with no live object

vars == <<table, objs, emptied, got, ret, fault>>

OK == <<"number", 0>>
NOK == <<"number", -1>>
Handle(kind, n) == <<kind, n>>
NoText == <<"text", "">>
SomeText == <<"text", "some">>

Init ==
  /\ table = [k \in HandleKinds |-> EmptyTable]
  /\ objs = <<>>
  /\ emptied = {}
  /\ got = NULL
  /\ ret = NoText
  /\ fault = "none"

Running == fault = "none"

Live(o) == objs[o].live

\* The handles issued of all kinds.
Issued == MapThenSumSet(LAMBDA k : table[k].hnum, HandleKinds)

\* The object a handle names.
Named(kind, n) == table[kind].names[n]

-----------------------------------------------------------------------------
(* The library.                                                            *)

\* The objects of a kind the library has in a document.
Contents(doc, kind) ==
  {o \in 1 .. Len(objs) : objs[o].doc = doc /\ objs[o].kind = kind /\ Live(o)}

\* Asked again for a font, an encoder or a page, it gives the one there is.
Shared == {"font", "encoder"}

\* The objects of a document but those of the kinds kept are freed.
Freed(doc, kept) ==
  [o \in 1 .. Len(objs) |->
     IF objs[o].doc = doc /\ o # doc /\ objs[o].kind \notin kept
     THEN [objs[o] EXCEPT !.live = FALSE]
     ELSE objs[o]]

-----------------------------------------------------------------------------
(* What a call does with what the library gives.                           *)

\* Mutant of HandOut: the handle returned is the next one.
HandOutNext(kind, o) ==
  /\ table' = [table EXCEPT ![kind] = Issue(@, o)]
  /\ ret' = Handle(kind, table[kind].hnum + 1)

\* The object gets a handle, which the function returns.
HandOut(kind, o) ==
  /\ table' = [table EXCEPT ![kind] = Issue(@, o)]
  /\ ret' = Handle(kind, table[kind].hnum)

\* A new object of a document.
Make(kind, doc) ==
  /\ Len(objs) < MaxObjects /\ Issued < MaxHandles
  /\ objs' = Append(objs, [kind |-> kind, doc |-> doc, live |-> TRUE])
  /\ got' = Len(objs) + 1
  /\ HandOut(kind, Len(objs) + 1)

\* An object the document has already.
GetAgain(kind, doc) ==
  /\ Issued < MaxHandles
  /\ \E o \in Contents(doc, kind) : got' = o /\ HandOut(kind, o)
  /\ UNCHANGED objs

\* No object comes from the library.
Return(value) ==
  /\ ret' = value
  /\ got' = NULL
  /\ UNCHANGED <<table, objs>>

GiveObject(kind, doc) ==
  \/ Make(kind, doc)
  \/ kind \in Shared /\ GetAgain(kind, doc)
  \/ Return(NoText)

\* The results that are not objects.
ValuesOf(gives) ==
  CASE gives \in {STATUS, TRUTH} -> {OK, NOK}
    [] gives = DONE -> {OK}
    [] gives = NUMBER -> {OK, <<"number", 1>>}
    [] gives = NONZERO -> {NOK, <<"number", 1>>}
    [] gives = TEXT -> {NoText, SomeText}
    [] OTHER -> {SomeText}

Give(gives, doc) ==
  IF gives \in HandleKinds THEN GiveObject(gives, doc)
  ELSE \E value \in ValuesOf(gives) : Return(value)

Crash(why) ==
  /\ fault' = why
  /\ UNCHANGED <<table, objs, emptied, got, ret>>

-----------------------------------------------------------------------------
(* The functions of HaruCalls.                                             *)

\* Two functions return a text and not -1 when an argument is refused.
RefusalOf(fn) ==
  IF fn \in {"GetCurrentEncoder", "GetInfoAttr"} THEN NoText ELSE NOK

\* Calls differ only in the handles they take, whether they read anything else,
\* and in what they give.
Shape(f) ==
  [handles |-> SelectSeq(f.args, LAMBDA a : a \in HandleKinds),
   reads |-> \E i \in 1 .. Len(f.args) : f.args[i] \notin HandleKinds \cup {ANY},
   gives |-> f.gives, refusal |-> RefusalOf(f.fn)]

Shapes == {Shape(f) : f \in Functions}

\* The handles a program passes, n[i] in the place of the i-th.
Passed(shape) ==
  {n \in [1 .. Len(shape.handles) -> 0 .. MaxHandles] :
     \A i \in DOMAIN n : n[i] \in Numbers(table[shape.handles[i]])}

AllFound(shape, n) ==
  \A i \in DOMAIN n : Found(table[shape.handles[i]], n[i])

\* The objects whose handles they are.
Objects(shape, n) == {Named(shape.handles[i], n[i]) : i \in DOMAIN n}

\* A handle is unknown or missing, or another argument is missing.
Refuse ==
  /\ Running
  /\ \E shape \in Shapes :
       /\ shape.reads \/ \E n \in Passed(shape) : ~AllFound(shape, n)
       /\ Return(shape.refusal)
  /\ UNCHANGED <<emptied, fault>>

Call ==
  /\ Running
  /\ \E shape \in Shapes : \E n \in Passed(shape) :
       /\ AllFound(shape, n)
       /\ \A o \in Objects(shape, n) : Live(o)
       /\ Give(shape.gives,
               IF n = <<>> THEN 0 ELSE objs[Named(shape.handles[1], n[1])].doc)
  /\ UNCHANGED <<emptied, fault>>

\* The handle is in its table, the object is not in the library any more.
CallStale ==
  /\ Running
  /\ \E shape \in Shapes : \E n \in Passed(shape) :
       /\ AllFound(shape, n)
       /\ \E o \in Objects(shape, n) : ~Live(o)
  /\ Crash("stale")

-----------------------------------------------------------------------------
(* The other functions.                                                    *)

New ==
  /\ Running
  /\ \/ Make("data", Len(objs) + 1)
     \/ Return(NoText)
  /\ UNCHANGED <<emptied, fault>>

\* Free, NewDoc, FreeDoc and FreeDocAll of no document.
RefuseDocument ==
  /\ Running
  /\ Return(NOK)
  /\ UNCHANGED <<emptied, fault>>

\* HPDF_Free runs as the handle is deleted.
Free ==
  /\ Running
  /\ \E n \in DOMAIN table["data"].names :
       LET doc == Named("data", n) IN
         /\ objs' = [Freed(doc, {}) EXCEPT ![doc].live = FALSE]
         /\ table' = [table EXCEPT !["data"] = Without(@, n)]
  /\ ret' = OK
  /\ got' = NULL
  /\ UNCHANGED <<emptied, fault>>

\* The library fails after it has freed the contents.
NewDoc ==
  /\ Running
  /\ \E n \in DOMAIN table["data"].names :
       objs' = Freed(Named("data", n), {"encoder"})
  /\ ret' \in {OK, NOK}
  /\ got' = NULL
  /\ UNCHANGED <<table, emptied, fault>>

\* FreeDoc and FreeDocAll, which frees the encoders too, delete the handle of a
\* document that the library keeps.
FreeDoc ==
  /\ Running
  /\ \E n \in DOMAIN table["data"].names, kept \in {{"encoder"}, {}} :
       LET doc == Named("data", n) IN
         /\ objs' = Freed(doc, kept)
         /\ table' = [table EXCEPT !["data"] = Without(@, n)]
         /\ emptied' = emptied \cup {doc}
  /\ ret' = OK
  /\ got' = NULL
  /\ UNCHANGED fault

\* The page gets a handle; returned are as many bytes of the page.
GetPageByIndex ==
  /\ Running
  /\ \E n \in DOMAIN table["data"].names :
       \/ /\ Issued < MaxHandles
          /\ \E page \in Contents(Named("data", n), "page") :
               /\ table' = [table EXCEPT !["page"] = Issue(@, page)]
               /\ got' = page
          /\ ret' = SomeText
          /\ UNCHANGED objs
       \/ Return(NoText)
  /\ UNCHANGED <<emptied, fault>>

\* The page is looked up among the images, as if it were a text; its bytes are
\* no handle.
GetCurrentPage ==
  /\ Running
  /\ \E n \in DOMAIN table["data"].names :
       \E page \in Contents(Named("data", n), "page") : got' = page
  /\ ret' = NoText
  /\ UNCHANGED <<table, objs, emptied, fault>>

\* A document without a page has no current one.
GetCurrentPageOfNone ==
  /\ Running
  /\ \E n \in DOMAIN table["data"].names :
       Contents(Named("data", n), "page") = {}
  /\ Crash("no page")

\* Any other parent than the handle of an outline is none.  The encoder is read
\* as a number, which a handle is not unless it is 0, and is always none.
CreateOutline ==
  /\ Running
  /\ \E n \in DOMAIN table["data"].names : \E p \in Numbers(table["outline"]) :
       /\ Found(table["outline"], p) => Live(Named("outline", p))
       /\ GiveObject("outline", Named("data", n))
  /\ UNCHANGED <<emptied, fault>>

CreateOutlineOfStale ==
  /\ Running
  /\ table["data"].names # <<>>
  /\ \E p \in DOMAIN table["outline"].names : ~Live(Named("outline", p))
  /\ Crash("stale")

\* Any other argument than the handle of a page, and a single character, is no
\* page, of which the library makes no destination.
CreateDestination ==
  /\ Running
  /\ \/ Return(NoText)
     \/ \E n \in DOMAIN table["page"].names :
          /\ Live(Named("page", n))
          /\ GiveObject("destination", objs[Named("page", n)].doc)
  /\ UNCHANGED <<emptied, fault>>

\* The encoder is none for 0 and refused for other numbers, which no handle is.
CreateTextAnnot ==
  /\ Running
  /\ \/ Return(NOK)
     \/ \E n \in DOMAIN table["page"].names :
          /\ Live(Named("page", n))
          /\ GiveObject("annotation", objs[Named("page", n)].doc)
  /\ UNCHANGED <<emptied, fault>>

\* Both of a page the library has freed.
CreateOnStalePage ==
  /\ Running
  /\ \E n \in DOMAIN table["page"].names : ~Live(Named("page", n))
  /\ Crash("stale")

Crashed == ~Running /\ UNCHANGED vars

Next ==
  \/ Refuse \/ Call \/ CallStale
  \/ New \/ RefuseDocument \/ Free \/ NewDoc \/ FreeDoc
  \/ GetPageByIndex \/ GetCurrentPage \/ GetCurrentPageOfNone
  \/ CreateOutline \/ CreateOutlineOfStale \/ CreateDestination
  \/ CreateTextAnnot \/ CreateOnStalePage
  \/ Crashed

Spec == Init /\ [][Next]_vars

-----------------------------------------------------------------------------
(* Properties.                                                             *)

\* A handle names an object of the kind of its table.  The handle of a document
\* names one that is there, whatever was freed; and a document that is there has
\* a handle, unless FreeDoc took it or the table lost it as it outgrew a size.
DocumentsNamed ==
  /\ \A k \in HandleKinds : \A n \in DOMAIN table[k].names :
       objs[Named(k, n)].kind = k
  /\ \A n \in DOMAIN table["data"].names : Live(Named("data", n))
  /\ \A o \in 1 .. Len(objs) :
       (Live(o) /\ objs[o].kind = "data" /\ o \notin emptied) =>
         \/ \E n \in DOMAIN table["data"].names : Named("data", n) = o
         \/ o \in Lost(table["data"].load)
  /\ \A k \in HandleKinds :
       DOMAIN table[k].load.lost \subseteq Outgrown(table[k].load.size)

\* The program can name the object a call got for it with what the call
\* returned, unless growing the table has just lost that handle.
\* GetPageByIndex and GetCurrentPage return something else.
ResultReachable ==
  got # NULL =>
    \/ /\ ret[1] \in HandleKinds
       /\ IF Found(table[ret[1]], ret[2]) THEN Named(ret[1], ret[2]) = got
          ELSE got \in Lost(table[ret[1]].load)
    \/ objs[got].kind = "page" /\ ret \in {NoText, SomeText}

\* No handle comes to name another object.
KeepsMeaning == \A k \in HandleKinds : Keeps(table[k], table'[k])

=============================================================================
