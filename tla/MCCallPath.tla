---- MODULE MCCallPath ----
(* An outside request to a composition plugin, whose handler makes one call, to *)
(* an atomic plugin or to a capability of its own plugin.                       *)
EXTENDS CallPath
CONSTANTS composer, worker, c1, c2
MCParent == [c \in Calls |-> IF c = c1 THEN None ELSE c1]
MCProviders == [c \in Calls |-> IF c = c1 THEN {composer} ELSE {composer, worker}]
MCPings == [p \in Plugins |-> IF p = composer THEN 1 ELSE 0]
====
