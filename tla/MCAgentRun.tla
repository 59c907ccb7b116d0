---- MODULE MCAgentRun ----
(* Two callers cancel the same run. *)
EXTENDS AgentRun
CONSTANTS run, first, second
MCTarget == [c \in Cancels |-> run]
====
