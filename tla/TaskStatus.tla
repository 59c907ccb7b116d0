------------------------------ MODULE TaskStatus ------------------------------
(* The status machine of a task, as the work registry enforces it.           *)
EXTENDS Integers

Status == {"PLANNED", "IN_PROGRESS", "IN_REVIEW", "DONE", "FAILED"}

\* Forms a mistake would give LegalTransition: any step forward, or any step.
LaxTransition(from, to) == to # "PLANNED" /\ from # to
AnyTransition(from, to) == TRUE

LegalTransition(from, to) ==
    \/ to = "FAILED" /\ from \notin {"DONE", "FAILED"}
    \/ <<from, to>> \in {<<"PLANNED", "IN_PROGRESS">>,
                         <<"IN_PROGRESS", "IN_REVIEW">>,
                         <<"IN_REVIEW", "DONE">>}

\* How far a status is along the machine; DONE and FAILED are its ends.
Rank == [PLANNED |-> 1, IN_PROGRESS |-> 2, IN_REVIEW |-> 3, DONE |-> 4, FAILED |-> 4]
=============================================================================
