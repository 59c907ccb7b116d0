---- MODULE MCExternalStreams ----
(* A client that may be slow or leave, and one that reads; queues of one frame. *)
EXTENDS ExternalStreams
====
