------------------------------- MODULE Reclen -------------------------------
(***************************************************************************)
(* The reader of records of fixed length of reclen/reclen.c.  Its files    *)
(* share one buffer, which lives as long as one of them is open, and are   *)
(* in a list that close and drop search by name.  A program can have two   *)
(* files of one name open: its input and one it reads with getline.        *)
(***************************************************************************)
EXTENDS Integers, Sequences, FiniteSetsExt, SequencesExt

CONSTANTS
  FileNames,   \* names of files
  Lengths,     \* values of RECLEN; 0 stands for those that are none
  FileSize,    \* bytes in each file
  MaxOpens,    \* bound: files opened
  NULL

VARIABLES
  reclen,   \* RECLEN
  files,    \* the files opened, with what gawk knows of each
  list,     \* file_list: indices of files
  buf,      \* the buffer: bytes allocated, 0 for none, and users
  record,   \* NULL or the record the last call of get_record returned
  sharing,  \* two files of one name have been open together
  broken    \* a freed node has been read

reclenVars == <<reclen, files, list, buf, record, sharing, broken>>

ReclenInit ==
  /\ reclen \in Lengths
  /\ files = <<>>
  /\ list = <<>>
  /\ buf = [len |-> 0, refs |-> 0]
  /\ record = NULL
  /\ sharing = FALSE
  /\ broken = FALSE

\* The files that have an iobuf of this reader.
Controlled == {f \in 1 .. Len(files) : files[f].state \in {"read", "dropped"}}

\* Where remove_buffer_from_list finds a name in the list, or 0.
Position(name) == SelectInSeq(list, LAMBDA f : files[f].name = name)

\* The walk to that node, or to the end, reads no node that was freed.
WalkDefined(name) ==
  \A i \in 1 .. Len(list) :
    (Position(name) = 0 \/ i <= Position(name)) => list[i] \in Controlled

Unlinked(name) ==
  IF Position(name) = 0 THEN list ELSE RemoveAt(list, Position(name))

SetReclen ==
  /\ reclen' \in Lengths \ {reclen}
  /\ record' = NULL
  /\ UNCHANGED <<files, list, buf, sharing>>

\* can_take_file and take_control_of; with no length gawk reads the file itself.
Open ==
  /\ Len(files) < MaxOpens
  /\ \E name \in FileNames :
       IF reclen = 0
       THEN /\ files' = Append(files, [name |-> name, left |-> FileSize,
                                       state |-> "gawk"])
            /\ UNCHANGED <<list, buf, sharing>>
       ELSE /\ files' = Append(files, [name |-> name, left |-> FileSize,
                                       state |-> "read"])
            /\ list' = <<Len(files) + 1>> \o list
            /\ buf' = [len |-> IF buf.refs = 0 THEN reclen ELSE buf.len,
                       refs |-> buf.refs + 1]
            /\ sharing' = (sharing \/ \E f \in Controlled :
                                        files[f].name = name)
  /\ record' = NULL
  /\ UNCHANGED reclen

\* Mutant of Grown: the buffer keeps its first size.
GrownNever(len) == len

\* RECLEN may have become larger than the buffer.
Grown(len) == Max({len, reclen})

\* read returns what there is, which may be less than a record in a pipe, or
\* fails.  At the end of the file, and while RECLEN is no length, it is EOF.
GetRecord ==
  /\ \E f \in Controlled :
       /\ files[f].state = "read"
       /\ IF reclen = 0
          THEN record' = NULL /\ UNCHANGED <<files, buf>>
          ELSE /\ buf' = [buf EXCEPT !.len = Grown(@)]
               /\ \/ \E n \in 1 .. Min({reclen, files[f].left}) :
                       /\ record' = [of |-> f, len |-> n]
                       /\ files' = [files EXCEPT ![f].left = @ - n]
                  \/ record' = NULL /\ UNCHANGED files
  /\ UNCHANGED <<reclen, list, sharing>>

\* The node stays with its iobuf; gawk reads the rest of the file itself.
Drop ==
  /\ \E name \in FileNames :
       /\ WalkDefined(name)
       /\ list' = Unlinked(name)
       /\ files' = [f \in 1 .. Len(files) |->
                      IF Position(name) # 0 /\ f = list[Position(name)]
                      THEN [files[f] EXCEPT !.state = "dropped"]
                      ELSE files[f]]
  /\ record' = NULL
  /\ UNCHANGED <<reclen, buf, sharing>>

\* The last user frees the buffer.  The node is freed whichever was unlinked.
Close ==
  /\ \E f \in Controlled :
       /\ WalkDefined(files[f].name)
       /\ list' = Unlinked(files[f].name)
       /\ files' = [files EXCEPT ![f].state = "closed"]
  /\ buf' = IF buf.refs = 1 THEN [len |-> 0, refs |-> 0]
            ELSE [buf EXCEPT !.refs = @ - 1]
  /\ record' = NULL
  /\ UNCHANGED <<reclen, sharing>>

\* A name is compared with that of a node that was freed.
ReadFreedNode ==
  /\ \E name \in FileNames : ~WalkDefined(name)
  /\ broken' = TRUE
  /\ UNCHANGED <<reclen, files, list, buf, record, sharing>>

ReclenNext ==
  /\ ~broken
  /\ \/ (SetReclen \/ Open \/ GetRecord \/ Drop \/ Close) /\ UNCHANGED broken
     \/ ReadFreedNode

-----------------------------------------------------------------------------
(* Properties.                                                             *)

\* The buffer lives as long as a file uses it and no longer, and a record that
\* was read fits in it.
BufferShared ==
  /\ buf.refs = Cardinality(Controlled)
  /\ buf.len > 0 <=> buf.refs > 0
  /\ record # NULL => record.len <= buf.len

\* Unless two files of one name were open together, no freed node is read and the
\* list has the files that were not dropped or closed, where each is found.
ListExact ==
  ~sharing =>
    /\ ~broken
    /\ ToSet(list) = {f \in Controlled : files[f].state = "read"}
    /\ IsInjective(list)
    /\ \A f \in ToSet(list) : list[Position(files[f].name)] = f

=============================================================================
