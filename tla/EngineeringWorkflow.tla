-------------------------- MODULE EngineeringWorkflow --------------------------
(***************************************************************************)
(* The engineering workflow: the only way for an external identity to move *)
(* a task to DONE.  A run is one call of workflow.engineering.run; it owns *)
(* no state and drives the plugins that do, one call after the other.      *)
(* Several runs of one task may be under way.                              *)
(*                                                                         *)
(* A call is answered, or it fails: then its request was lost, or is still *)
(* on its way and may take effect at any later time.  A record of what     *)
(* happened goes to the event journal after each step; a failure to write  *)
(* it is ignored.                                                          *)
(***************************************************************************)
EXTENDS TaskStatus, FiniteSets, Sequences

CONSTANTS
    Run,      \* calls of workflow.engineering.run for the task
    MaxLate,  \* bound: requests that failed and are still on their way
    MaxFaults \* bound: calls that fail although the deadline is not over

ASSUME WorkflowAssumption == {MaxLate, MaxFaults} \subseteq Nat

VARIABLES
    task,      \* the task and its work context in the work registry
    review,    \* review[r]: the review run r asked for
    stage,     \* the stage the events of the journal project to
    late,      \* requests on their way whose caller has given up
    faults,    \* how many calls failed
    run        \* run[r]: where run r is and what it knows

services == <<task, review>>
vars == <<task, review, stage, late, faults, run>>

-----------------------------------------------------------------------------
Kind == {"build", "test"}
Result == {"none", "PASS", "FAIL"}

EvidenceRef == [run : Run, kind : Kind, result : {"PASS", "FAIL"}]
Task == [status : Status, version : Nat, wcVersion : Nat, evidence : SUBSET EvidenceRef]

\* A decided review keeps its status; acceptance results may be absent.
Review ==
    [status : {"none", "PENDING", "APPROVED", "CHANGES_REQUESTED"},
     results : {"absent", "satisfied", "unsatisfied"}]

NoReview == [status |-> "none", results |-> "absent"]
Pending == [status |-> "PENDING", results |-> "absent"]
Decision == {v \in Review : v.status \in {"APPROVED", "CHANGES_REQUESTED"}}

Outcome == {"none", "DONE", "GATE_FAILED", "AGENT_FAILED", "BUILD_FAILED",
            "TEST_FAILED", "TIMEOUT"}

\* The calls of a run, in the order of a run in which all goes well.
Step == {"allocate", "begin", "check", "agent", "diff", "build",
         "attachBuild", "test", "attachTest", "submit", "request", "poll", "look",
         "finish", "seal", "release"}

Stage == {"CREATED", "WORKSPACE", "AGENT", "DIFF", "BUILD", "TEST",
          "REVIEW_REQUESTED", "WAITING_REVIEW", "REVIEWED", "DONE", "SEALED"}

RunState ==
    [pc : Step \cup {"idle", "over", "dead"},
     ctx : {"live", "cancelled", "expired"}, \* why ctx.Err() is not nil
     ver : Nat, wcVer : Nat,                  \* versions the run expects
     agent : BOOLEAN,                         \* it has an agent run id
     build : Result, test : Result,           \* bOut and tOut
     outcome : Outcome,                       \* what it returned or will return
     todo : Seq(Stage),                       \* events to write before the next call
     drove : BOOLEAN]                         \* history: its IN_PROGRESS was accepted

NewRun ==
    [pc |-> "idle", ctx |-> "live", ver |-> 0, wcVer |-> 0, agent |-> FALSE,
     build |-> "none", test |-> "none", outcome |-> "none", todo |-> <<>>,
     drove |-> FALSE]

-----------------------------------------------------------------------------
(* What the plugins do with a request                                      *)

AnyVersion(version, expected) == TRUE
VersionMatches(version, expected) == version = expected

\* The work registry refuses a request with an old version, and an illegal
\* transition.
Accepts(q) ==
    /\ q.op \in Status => VersionMatches(task.version, q.ver) /\ LegalTransition(task.status, q.op)
    /\ q.op \in Kind => VersionMatches(task.wcVersion, q.ver)

Transition(q) ==
    /\ q.op \in Status
    /\ task' = [task EXCEPT !.status = q.op, !.version = @ + 1]
    /\ UNCHANGED review

AttachEvidence(q) ==
    /\ q.op \in Kind
    /\ task' = [task EXCEPT !.wcVersion = @ + 1,
                  !.evidence = @ \cup {[run |-> q.run, kind |-> q.op, result |-> q.result]}]
    /\ UNCHANGED review

RequestReview(q) ==
    /\ q.op = "review"
    /\ review' = [review EXCEPT ![q.run] = Pending]
    /\ UNCHANGED task

Effect(q) == Accepts(q) /\ (Transition(q) \/ AttachEvidence(q) \/ RequestReview(q))

\* A request whose caller has given up arrives.
ArriveLate(q) ==
    /\ Effect(q)
    /\ late' = late \ {q}
    /\ UNCHANGED <<stage, faults, run>>

\* The reviewer decides; a review is decided once.
Decide(r, v) ==
    /\ review[r].status = "PENDING"
    /\ v \in Decision
    /\ review' = [review EXCEPT ![r] = v]
    /\ UNCHANGED <<task, stage, late, faults, run>>

-----------------------------------------------------------------------------
(* The steps of a run                                                      *)

Request(r, op) == [run |-> r, op |-> op, ver |-> 0, result |-> "none"]
Versioned(r, op, ver) == [Request(r, op) EXCEPT !.ver = ver]

\* Run r makes its next call once its events are written.
At(r, step) == run[r].pc = step /\ run[r].todo = <<>>

\* The run becomes s.
Becomes(r, s) == run' = [run EXCEPT ![r] = s]

\* An early return: seal and release first, except before there is a workspace.
Failing(s, outcome) ==
    [s EXCEPT !.outcome = outcome, !.pc = IF s.agent THEN "seal" ELSE "release"]

\* Once the deadline of the run is over no call of it leaves the plugin.
CanSend(r) == run[r].ctx # "expired"

\* The call answers and the run becomes s.
Answered(r, q, s) ==
    /\ CanSend(r)
    /\ Effect(q)
    /\ Becomes(r, s)
    /\ UNCHANGED <<stage, late, faults>>

\* The call fails: it cannot be sent, or it is lost or late.
Fault(r, s) ==
    /\ IF CanSend(r) THEN faults < MaxFaults /\ faults' = faults + 1
                     ELSE UNCHANGED faults
    /\ Becomes(r, s)
    /\ UNCHANGED <<services, stage>>

Fails(r, q, s) ==
    \/ CanSend(r) /\ ~Accepts(q) /\ Becomes(r, s) /\ UNCHANGED <<services, stage, late, faults>>
    \/ /\ Fault(r, s)
       /\ \/ UNCHANGED late
          \/ CanSend(r) /\ Cardinality(late) < MaxLate /\ late' = late \cup {q}

\* The same for calls whose effect on other plugins is not modelled.
Goes(r, s) == Becomes(r, s) /\ UNCHANGED <<services, stage, late, faults>>
Asks(r, s) == CanSend(r) /\ Goes(r, s)
AsksInVain(r, s) == Fault(r, s) /\ UNCHANGED late

\* WorkGet.
Start(r) ==
    /\ run[r].pc = "idle"
    /\ \/ Asks(r, [run[r] EXCEPT !.pc = "allocate", !.ver = task.version,
                                 !.wcVer = task.wcVersion])
       \/ AsksInVain(r, [run[r] EXCEPT !.pc = "over", !.outcome = "GATE_FAILED"])

WorkspaceAlloc(r) ==
    /\ At(r, "allocate")
    /\ \/ Asks(r, [run[r] EXCEPT !.pc = "begin", !.todo = <<"WORKSPACE">>])
       \/ AsksInVain(r, [run[r] EXCEPT !.pc = "over", !.outcome = "GATE_FAILED"])

AnsweredVersion(ver) == ver + 1

\* WorkTransition to status `to`; the run becomes s if it is accepted, with the
\* version in the answer.
WorkTransition(r, to, s) ==
    \/ Answered(r, Versioned(r, to, run[r].ver), [s EXCEPT !.ver = AnsweredVersion(@)])
    \/ Fails(r, Versioned(r, to, run[r].ver), Failing(run[r], "GATE_FAILED"))

Begin(r) ==
    /\ At(r, "begin")
    /\ WorkTransition(r, "IN_PROGRESS", [run[r] EXCEPT !.pc = "check", !.drove = TRUE])

CtxDone(r) == run[r].ctx # "live"

CheckDeadline(r) ==
    /\ At(r, "check")
    /\ IF CtxDone(r)
       THEN Goes(r, Failing(run[r], "TIMEOUT"))
       ELSE Goes(r, [run[r] EXCEPT !.pc = "agent", !.todo = <<"AGENT">>])

\* The agent runs and is polled for its status.  A failed call may have
\* returned its id; an agent that did not complete has one.
AgentRun(r) ==
    /\ At(r, "agent")
    /\ \/ Asks(r, [run[r] EXCEPT !.pc = "diff", !.agent = TRUE])
       \/ Asks(r, Failing([run[r] EXCEPT !.agent = TRUE], "AGENT_FAILED"))
       \/ \E known \in BOOLEAN :
              AsksInVain(r, Failing([run[r] EXCEPT !.agent = known], "AGENT_FAILED"))

CollectDiff(r) ==
    /\ At(r, "diff")
    /\ \/ Asks(r, [run[r] EXCEPT !.pc = "build", !.todo = <<"DIFF">>])
       \/ AsksInVain(r, Failing(run[r], "GATE_FAILED"))

Build(r) ==
    /\ At(r, "build")
    /\ \/ \E res \in {"PASS", "FAIL"} :
             Asks(r, [run[r] EXCEPT !.pc = "attachBuild", !.build = res,
                                    !.todo = <<"BUILD">>])
       \/ AsksInVain(r, Failing(run[r], "BUILD_FAILED"))

Test(r) ==
    /\ At(r, "test")
    /\ \/ \E res \in {"PASS", "FAIL"} :
             Asks(r, [run[r] EXCEPT !.pc = "attachTest", !.test = res,
                                    !.todo = <<"TEST">>])
       \/ AsksInVain(r, Failing(run[r], "TEST_FAILED"))

OldVersion(s) == s
NewVersion(s) == [s EXCEPT !.wcVer = @ + 1]

\* An error of AttachEvidence is ignored: the run goes on with the old version.
Attach(r, step, kind, next) ==
    LET q == [Versioned(r, kind, run[r].wcVer) EXCEPT !.result = run[r][kind]]
    IN  /\ At(r, step)
        /\ \/ Answered(r, q, NewVersion([run[r] EXCEPT !.pc = next]))
           \/ Fails(r, q, [run[r] EXCEPT !.pc = next])

Submit(r) ==
    /\ At(r, "submit")
    /\ WorkTransition(r, "IN_REVIEW",
                      [run[r] EXCEPT !.pc = "request", !.todo = <<"REVIEW_REQUESTED">>])

ReviewRequest(r) ==
    /\ At(r, "request")
    /\ \/ Answered(r, Request(r, "review"),
                   [run[r] EXCEPT !.pc = "poll", !.todo = <<"WAITING_REVIEW">>])
       \/ Fails(r, Request(r, "review"), Failing(run[r], "GATE_FAILED"))

PollReview(r) ==
    /\ At(r, "poll")
    /\ IF CtxDone(r) THEN Goes(r, Failing(run[r], "TIMEOUT"))
                     ELSE Goes(r, [run[r] EXCEPT !.pc = "look"])

GateWithoutAcceptance(s, v) ==
    s.build = "PASS" /\ s.test = "PASS" /\ v.status = "APPROVED"
DoneGate(s, v) ==
    /\ s.build = "PASS"
    /\ s.test = "PASS"
    /\ v.status = "APPROVED"
    /\ v.results = "satisfied"

\* ReviewGet: poll again while the review is pending; else the gate decides.
\* The review is the run's own, so it names the diff of the run.
ReviewGet(r) ==
    /\ At(r, "look")
    /\ \/ /\ review[r].status = "PENDING"
          /\ Asks(r, [run[r] EXCEPT !.pc = "poll"])
       \/ /\ review[r].status # "PENDING"
          /\ IF DoneGate(run[r], review[r])
             THEN Asks(r, [run[r] EXCEPT !.pc = "finish", !.todo = <<"REVIEWED">>])
             ELSE Asks(r, [Failing(run[r], "GATE_FAILED") EXCEPT !.todo = <<"REVIEWED">>])
       \/ AsksInVain(r, Failing(run[r], "GATE_FAILED"))

Finish(r) ==
    /\ At(r, "finish")
    /\ WorkTransition(r, "DONE", [run[r] EXCEPT !.pc = "seal", !.outcome = "DONE",
                                                !.todo = <<"DONE">>])

\* Errors of the cleanup are ignored.
SessionSeal(r) ==
    /\ At(r, "seal")
    /\ \/ Asks(r, [run[r] EXCEPT !.pc = "release", !.todo = <<"SEALED">>])
       \/ AsksInVain(r, [run[r] EXCEPT !.pc = "release"])

WorkspaceRelease(r) ==
    /\ At(r, "release")
    /\ \/ Asks(r, [run[r] EXCEPT !.pc = "over"])
       \/ AsksInVain(r, [run[r] EXCEPT !.pc = "over"])

\* AppendEvent: the next event is written, or the error is ignored.
AppendEvent(r) ==
    /\ run[r].pc \in Step
    /\ run[r].todo # <<>>
    /\ LET s == [run[r] EXCEPT !.todo = Tail(@)]
       IN  \/ /\ CanSend(r)
              /\ Becomes(r, s)
              /\ stage' = Head(run[r].todo)
              /\ UNCHANGED <<services, late, faults>>
           \/ AsksInVain(r, s)

-----------------------------------------------------------------------------
(* The world of a run                                                      *)

\* The deadline of the request passes, or its consumer cancels it.
Expire(r) ==
    /\ run[r].pc \in Step
    /\ run[r].ctx # "expired"
    /\ Goes(r, [run[r] EXCEPT !.ctx = "expired"])

Cancel(r) ==
    /\ run[r].pc \in Step
    /\ run[r].ctx = "live"
    /\ Goes(r, [run[r] EXCEPT !.ctx = "cancelled"])

\* The workflow plugin dies, and every run in it.
Crash ==
    /\ \E r \in Run : run[r].pc \in Step
    /\ run' = [r \in Run |-> IF run[r].pc \in Step THEN [run[r] EXCEPT !.pc = "dead"]
                                                   ELSE run[r]]
    /\ UNCHANGED <<services, stage, late, faults>>

-----------------------------------------------------------------------------
Init ==
    /\ task = [status |-> "PLANNED", version |-> 1, wcVersion |-> 1, evidence |-> {}]
    /\ review = [r \in Run |-> NoReview]
    /\ stage = "CREATED"
    /\ late = {}
    /\ faults = 0
    /\ run = [r \in Run |-> NewRun]

Proceed(r) ==
    \/ WorkspaceAlloc(r) \/ Begin(r) \/ CheckDeadline(r)
    \/ AgentRun(r) \/ CollectDiff(r) \/ Build(r) \/ Test(r)
    \/ Attach(r, "attachBuild", "build", "test")
    \/ Attach(r, "attachTest", "test", "submit")
    \/ Submit(r) \/ ReviewRequest(r) \/ PollReview(r) \/ ReviewGet(r)
    \/ Finish(r) \/ SessionSeal(r) \/ WorkspaceRelease(r) \/ AppendEvent(r)

Next ==
    \/ \E r \in Run : Start(r) \/ Proceed(r) \/ Expire(r) \/ Cancel(r)
    \/ \E r \in Run, v \in Decision : Decide(r, v)
    \/ \E q \in late : ArriveLate(q)
    \/ Crash

Spec == Init /\ [][Next]_vars

-----------------------------------------------------------------------------
(* Properties *)

\* What a run asks of the work registry and of the review plugin.
Op == {"IN_PROGRESS", "IN_REVIEW", "DONE", "review"} \cup Kind

\* Every variable stays in its domain, and no run is ahead of the registry.
TypeOK ==
    /\ task \in Task
    /\ review \in [Run -> Review]
    /\ stage \in Stage
    /\ late \subseteq [run : Run, op : Op, ver : Nat, result : Result]
    /\ faults \in 0..MaxFaults
    /\ run \in [Run -> RunState]
    /\ \A r \in Run : run[r].ver <= task.version /\ run[r].wcVer <= task.wcVersion

\* A task is DONE only through the gate: some run saw its build and its test
\* pass, and the review it asked for approved with every criterion satisfied.
\* It must hold with several runs of the task, with transitions that arrive
\* when their caller has given up, and with crashes.
DoneThroughGate ==
    task.status = "DONE" =>
        \E r \in Run : /\ run[r].build = "PASS"
                       /\ run[r].test = "PASS"
                       /\ review[r].status = "APPROVED"
                       /\ review[r].results = "satisfied"

\* One run at most ever drives the task, and nobody else leaves evidence in it
\* or asks for a review: what the reviewer sees and the gate checks belongs to
\* the same attempt.
OneDriver ==
    \A r, s \in Run :
        run[r].drove /\ (run[s].drove \/ review[s] # NoReview
                         \/ \E ev \in task.evidence : ev.run = s) => r = s

\* A run that answers DONE tells the truth, and its own transition did it.
DoneIsDone ==
    \A r \in Run : run[r].outcome = "DONE" => run[r].drove /\ task.status = "DONE"

\* How far a stage of the journal lets a reader believe the task is.
Claims == [s \in Stage |->
    CASE s \in {"CREATED", "WORKSPACE", "SEALED"} -> 1
      [] s \in {"AGENT", "DIFF", "BUILD", "TEST"} -> 2
      [] s \in {"REVIEW_REQUESTED", "WAITING_REVIEW", "REVIEWED"} -> 3
      [] s = "DONE" -> 4]

\* What workflow.engineering.get answers as outcome: DONE from the stage DONE on.
GetOutcome == IF stage \in {"DONE", "SEALED"} THEN "DONE" ELSE ""

\* The journal never runs ahead of the registry: a reader who is shown a stage finds
\* the task at least that far, whatever other runs write meanwhile.  And who is told
\* that the task is done finds it DONE, as long as no run of it ended in another way (a
\* run that failed is sealed as well), also while a run is under way or after it died.
StageNotAhead ==
    /\ Rank[task.status] >= Claims[stage]
    /\ (\A r \in Run : run[r].outcome \in {"none", "DONE"}) /\ GetOutcome = "DONE"
         => task.status = "DONE"

\* The DONE gate of docs/M1-DESIGN.md: "build EvidenceRef.outcome == PASS AND test
\* EvidenceRef.outcome == PASS".  The code's gate looks at the results of its own
\* steps, and errors of AttachEvidence are ignored: a DONE task has both evidence
\* refs if no call was lost or late, whatever is cancelled, expires or crashes.
EvidenceBehindDone ==
    task.status = "DONE" /\ faults = 0 =>
        \A k \in Kind : \E ev \in task.evidence : ev.kind = k /\ ev.result = "PASS"

\* Behind these four: where a run is says what it has done, whose requests are still on
\* their way and how far the task is.
Before == {"idle", "allocate", "begin"}
Driving == {"check", "agent", "diff", "build", "attachBuild", "test", "attachTest", "submit"}
Reviewing == {"request", "poll", "look", "finish"}
After == {"seal", "release", "over", "dead"}

RunHonest(r, s) ==
    /\ s.pc \in Driving \cup Reviewing => s.drove
    /\ s.drove => task.status # "PLANNED"
    /\ s.pc \in Reviewing => task.status \in {"IN_REVIEW", "DONE"}
    /\ s.pc \in Before \cup Driving \cup {"request"} => review[r] = NoReview
    /\ s.pc = "finish" => DoneGate(s, review[r])
    /\ s.pc = "attachBuild" => s.build # "none"
    /\ s.pc = "attachTest" => s.test # "none"
    /\ s.pc \in {"seal", "release"} => s.outcome # "none"
    /\ \A i \in DOMAIN s.todo :
         /\ Rank[task.status] >= Claims[s.todo[i]]
         /\ s.todo[i] = "SEALED" => s.outcome # "none"

Honest(q, s) ==
    /\ q.op # "IN_PROGRESS" => s.drove
    /\ q.op \in {"review", "DONE"} => s.pc \in After
    /\ q.op = "review" => q = Request(q.run, "review") /\ review[q.run] = NoReview
    /\ q.op = "DONE" => DoneGate(s, review[q.run])
    /\ q.op \in Kind => q.result # "none"

Gated ==
    /\ task.status = "DONE" =>
         \E r \in Run : run[r].pc \in After /\ DoneGate(run[r], review[r])
    /\ Rank[task.status] >= Claims[stage]
    /\ stage = "SEALED" => \E r \in Run : run[r].outcome # "none"

Drivers == {r \in Run : run[r].drove}
Traces ==
    /\ \A r, s \in Drivers : r = s
    /\ \A r \in Run : review[r] # NoReview => r \in Drivers
    /\ \A ev \in task.evidence : ev.run \in Drivers

Left(kind, result) == \E ev \in task.evidence : ev.kind = kind /\ ev.result = result
EvidenceOf(s) ==
    /\ s.pc \in {"allocate", "begin"} => s.wcVer = 1 \/ Drivers # {}
    /\ s.pc \in Driving \cup Reviewing /\ s.ctx # "expired" =>
         /\ s.wcVer = task.wcVersion
         /\ s.pc \in {"test", "attachTest", "submit"} \cup Reviewing => Left("build", s.build)
         /\ s.pc \in {"submit"} \cup Reviewing => Left("test", s.test)

EvidenceLeft ==
    faults = 0 =>
        /\ late = {}
        /\ Drivers = {} => task.wcVersion = 1
        /\ \A r \in Run : EvidenceOf(run[r])

\* The state invariant: the types, that runs of one task do not mix, and what makes it
\* inductive.
Inv ==
    /\ TypeOK /\ OneDriver /\ DoneIsDone
    /\ task.status # "FAILED"
    /\ \A r \in Run : RunHonest(r, run[r])
    /\ \A q \in late : Honest(q, run[q.run])
    /\ Gated /\ Traces /\ EvidenceLeft /\ EvidenceBehindDone
=============================================================================
