---------------------------- MODULE MCWriterFence ----------------------------
(* An instance of WriterFence for TLC: each runtime serves every command. *)
EXTENDS WriterFence

SameExports == [r \in Runtime |-> Capability]
=============================================================================
