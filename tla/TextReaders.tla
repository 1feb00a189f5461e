---------------------------- MODULE TextReaders -----------------------------
(***************************************************************************)
(* The two readers that take a file apart character by character: that of  *)
(* csv, and the pull parser of xml.  No step of the one is a step of the   *)
(* other.                                                                  *)
(***************************************************************************)
EXTENDS CsvReader

CONSTANTS Streams, ReadSize, Slack

VARIABLES stream, multi, at, input, puller, expat, pc, tokens, failed

pullerVars == <<stream, multi, at, input, puller, expat, pc, tokens, failed>>

P == INSTANCE XmlPuller

\* The documents of csv are texts, or the records they have as the awk library
\* writes them.
ASSUME DocumentsAssumption == DocumentsWritten

\* A stream has whole tags; a good one is well-formed documents, as many as it says.
ASSUME StreamsAssumption == P!StreamsSpelt

\* A block has room for a byte.
ASSUME BlocksAssumption == ReadSize \in Nat /\ ReadSize > 0 /\ Slack \in Nat

\* What is null is no place and no token.
ASSUME NullAssumption == NULL \notin Nat /\ NULL \notin P!AnyToken

=============================================================================
