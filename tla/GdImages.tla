------------------------------ MODULE GdImages ------------------------------
(***************************************************************************)
(* The images of gd/gd.c and the functions that draw on them.              *)
(***************************************************************************)
EXTENDS HandleTable

CONSTANTS
  MaxImages  \* bound: images made

VARIABLES
  imgs,   \* the table of handles
  live,   \* the images of the library, by the order they were made in
  shown   \* what the last call returned

gdVars == <<imgs, live, shown>>

GdInit ==
  /\ imgs = EmptyTable
  /\ live = {}
  /\ shown = "nothing"

\* CreateFromFile tries three formats; it and CreateTrueColor end the same way.
Create ==
  /\ \/ /\ imgs.hnum < MaxImages
        /\ live' = live \cup {imgs.hnum}
        /\ imgs' = Issue(imgs, imgs.hnum)
        /\ shown' = "handle"
     \/ shown' = "" /\ UNCHANGED <<imgs, live>>

\* gdImageDestroy runs as the handle is deleted.
Destroy ==
  /\ \/ \E n \in DOMAIN imgs.names :
          /\ live' = live \ {imgs.names[n]}
          /\ imgs' = Without(imgs, n)
          /\ shown' = "0"
     \/ shown' = "-1" /\ UNCHANGED <<imgs, live>>

\* What the functions that draw and measure return; a file that cannot be
\* written and a color that cannot be had are -1.
Drawn ==
  [CopyResampled |-> {"0"}, FilledRectangle |-> {"0"}, Rectangle |-> {"0"},
   SetAntiAliasedDontBlend |-> {"0"}, SetThickness |-> {"0"},
   PngName |-> {"0", "-1"}, ColorAllocate |-> {"number", "-1"},
   SX |-> {"number"}, SY |-> {"number"}, Compare |-> {"number"}]

\* Without an image, or another argument, they return -1, and Compare one of
\* two numbers that tell which image it is.
Refused(fn) ==
  IF fn = "Compare" THEN {"first unknown", "second unknown"} ELSE {"-1"}

Draw ==
  /\ \E fn \in DOMAIN Drawn :
       \/ shown' \in Refused(fn)
       \/ imgs.names # <<>> /\ shown' \in Drawn[fn]
  /\ UNCHANGED <<imgs, live>>

\* StringFTCircle and StringFT, which leaves the bounds of the text in an array:
\* an error of the library or a refused argument is a message.
StringFT ==
  /\ shown' \in {"", "message"}
  /\ UNCHANGED <<imgs, live>>

GdNext ==
  \/ Create \/ Destroy \/ Draw \/ StringFT

-----------------------------------------------------------------------------
(* Properties.                                                             *)

\* An image has one handle from its making to its end, and no other, unless the
\* table lost it as it outgrew a size.
ImagesNamed ==
  /\ NamesAll(imgs, live)
  /\ \A m, n \in DOMAIN imgs.names : imgs.names[m] = imgs.names[n] => m = n

=============================================================================
