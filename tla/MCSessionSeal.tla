---- MODULE MCSessionSeal ----
(* Appends and crashes while a caller pages through the journal and sessions are sealed. *)
EXTENDS SessionSeal
====
