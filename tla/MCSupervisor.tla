---- MODULE MCSupervisor ----
(* A provider that wants what its consumer provides, and the consumer. *)
EXTENDS Supervisor
CONSTANTS provider, consumer, need, work
MCProvides == [p \in Plugins |-> IF p = provider THEN {need} ELSE {work}]
MCRequires == [p \in Plugins |-> IF p = consumer THEN {need} ELSE {}]
MCWants == [p \in Plugins |-> IF p = provider THEN {work} ELSE {}]
OneRestart == [p \in Plugins |-> IF p = provider THEN 1 ELSE 0]
NoWants == [p \in Plugins |-> {}]
NoRestart == [p \in Plugins |-> 0]
====
