-------------------------- MODULE MCSelectSignals ---------------------------
(* Small instances of SelectSignals: a plain signal, one with a foreign     *)
(* handler, one that cannot be caught.                                      *)
EXTENDS SelectSignals
=============================================================================
