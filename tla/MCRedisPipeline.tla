-------------------------- MODULE MCRedisPipeline ---------------------------
(* Small instances of RedisPipeline for TLC.                               *)
EXTENDS RedisPipeline
=============================================================================
