------------------------------ MODULE AgentRun ------------------------------
(***************************************************************************)
(* org.vibe.agent.harness: a run is recorded as RUNNING, registered, and    *)
(* left to a goroutine that drives the provider and records how it ended; a *)
(* cancel stops a registered run and waits for it, and marks a run nobody   *)
(* drives.  The record is a line of agent-log.jsonl and an entry in memory; *)
(* a restart rebuilds the memory from the log and has lost the registry.    *)
(*                                                                          *)
(* A provider is the mock or a real command in a process group of its own;  *)
(* only the latter outlives the harness.  Frames and transcripts are left   *)
(* out but for the end of the provider they delay.                          *)
(***************************************************************************)
EXTENDS Naturals, Sequences, FiniteSets

CONSTANTS
  Runs, Cancels,
  Target,       \* [Cancels -> Runs]
  MaxFailures,  \* bound: appends that fail
  MaxRestarts   \* bound: restarts of the harness

ASSUME AgentRunAssumption ==
  /\ Target \in [Cancels -> Runs]
  /\ {MaxFailures, MaxRestarts} \subseteq Nat

VARIABLES
  status,   \* Store.byID: the status in memory
  records,  \* the statuses recorded in the log, in order
  driver,   \* startAgentRun and its goroutine
  ctx,      \* the run's context
  process,  \* the provider
  result,   \* what the provider returned
  entries,  \* runRegistry.entries
  cancel,   \* each call of cancelHandler
  failures, restarts

runVars == <<status, records, driver, ctx, process, result, entries, cancel, failures, restarts>>
recordVars == <<status, records, failures>>

Terminal == {"COMPLETED", "FAILED", "CANCELLED", "TIMEOUT"}
Statuses == {"none", "RUNNING"} \cup Terminal

RunInit ==
  /\ status = [r \in Runs |-> "none"]
  /\ records = [r \in Runs |-> <<>>]
  /\ driver = [r \in Runs |-> "no"]
  /\ ctx = [r \in Runs |-> "open"]
  /\ process = [r \in Runs |-> "no"]
  /\ result = [r \in Runs |-> "none"]
  /\ entries = {}
  /\ cancel = [c \in Cancels |-> [pc |-> "no", answer |-> "none"]]
  /\ failures = 0 /\ restarts = 0

(***************************************************************************)
(* The store.  The memory follows the log only when the append succeeds; a  *)
(* failed append, or one that the fence refuses, leaves the line or not.    *)
(***************************************************************************)
Recording(r, s) ==
  /\ records' = [records EXCEPT ![r] = Append(@, s)]
  /\ status' = [status EXCEPT ![r] = s]
  /\ UNCHANGED failures

RecordingFails(r, s) ==
  /\ failures < MaxFailures /\ failures' = failures + 1
  /\ records' \in {records, [records EXCEPT ![r] = Append(@, s)]}
  /\ UNCHANGED status

\* RecordCompleted and RecordCancelled refuse a run that has ended, which is looked
\* at under the mutex that covers the append.
Anytime(r) == TRUE
StillRunning(r) == status[r] = "RUNNING"

(***************************************************************************)
(* startAgentRun and runOnce.                                               *)
(***************************************************************************)
Start(r) ==
  /\ driver[r] = "no"
  /\ \/ Recording(r, "RUNNING") /\ driver' = [driver EXCEPT ![r] = "recorded"]
     \/ RecordingFails(r, "RUNNING") /\ driver' = [driver EXCEPT ![r] = "over"]
  /\ UNCHANGED <<ctx, process, result, entries, cancel, restarts>>

Register(r) ==
  /\ driver[r] = "recorded"
  /\ driver' = [driver EXCEPT ![r] = "driving"]
  /\ entries' = entries \cup {r}
  /\ UNCHANGED <<recordVars, ctx, process, result, cancel, restarts>>

\* A real provider starts no process when it is not configured or finds its context
\* ended; the mock looks at its context only after its first step.
StatusFromCtx(r) == IF ctx[r] = "expired" THEN "TIMEOUT" ELSE "CANCELLED"

Launch(r) ==
  /\ driver[r] = "driving"
  /\ \/ /\ process' = [process EXCEPT ![r] = "running"]
        /\ driver' = [driver EXCEPT ![r] = "running"]
        /\ UNCHANGED result
     \/ /\ \E s \in {"FAILED"} \cup (IF ctx[r] = "open" THEN {} ELSE {StatusFromCtx(r)}) :
             result' = [result EXCEPT ![r] = s]
        /\ driver' = [driver EXCEPT ![r] = "returned"]
        /\ UNCHANGED process
  /\ UNCHANGED <<recordVars, ctx, entries, cancel, restarts>>

\* The provider exits by itself, after its own timeout, or because the context has
\* ended: mapStatus looks at the context first, the mock calls every end of its
\* context a cancel and may have been at its last step.
Outcomes(r) ==
  {"COMPLETED", "FAILED", "TIMEOUT"}
    \cup (IF ctx[r] = "open" THEN {} ELSE {StatusFromCtx(r), "CANCELLED"})

ProviderReturns(r) ==
  /\ driver[r] = "running"
  /\ process' = [process EXCEPT ![r] = "stopped"]
  /\ driver' = [driver EXCEPT ![r] = "returned"]
  /\ \E s \in Outcomes(r) : result' = [result EXCEPT ![r] = s]
  /\ UNCHANGED <<recordVars, ctx, entries, cancel, restarts>>

Uninterrupted(r) == StillRunning(r) /\ ctx[r] = "open"
Completes(r) == StillRunning(r)

Persist(r) ==
  /\ driver[r] = "returned"
  /\ driver' = [driver EXCEPT ![r] = "persisted"]
  /\ IF Completes(r)
       THEN Recording(r, result[r]) \/ RecordingFails(r, result[r])
       ELSE UNCHANGED recordVars
  /\ UNCHANGED <<ctx, process, result, entries, cancel, restarts>>

Kept(r) == entries
Deregistered(r) == entries \ {r}

Unregister(r) ==
  /\ driver[r] = "persisted"
  /\ driver' = [driver EXCEPT ![r] = "unregistered"]
  /\ entries' = Deregistered(r)
  /\ UNCHANGED <<recordVars, ctx, process, result, cancel, restarts>>

CloseDone(r) ==
  /\ driver[r] = "unregistered"
  /\ driver' = [driver EXCEPT ![r] = "over"]
  /\ UNCHANGED <<recordVars, ctx, process, result, entries, cancel, restarts>>

\* The deadline of the request passes, or whoever reads its stream leaves.
ContextEnds(r) ==
  /\ driver[r] \notin {"no", "over"} /\ ctx[r] = "open"
  /\ \E e \in {"expired", "cancelled"} : ctx' = [ctx EXCEPT ![r] = e]
  /\ UNCHANGED <<recordVars, driver, process, result, entries, cancel, restarts>>

(***************************************************************************)
(* cancelHandler.                                                           *)
(***************************************************************************)
GoesOn(c, pc) == cancel' = [cancel EXCEPT ![c].pc = pc]
Answers(c, a) == cancel' = [cancel EXCEPT ![c] = [pc |-> "over", answer |-> a]]

\* GetByID: an ended run is a CONFLICT, an unknown one NOT_FOUND.
LookAt(c, next) ==
  IF status[Target[c]] = "RUNNING" THEN GoesOn(c, next) ELSE Answers(c, "refused")

CancelLooks(c) ==
  /\ cancel[c].pc = "no" /\ status[Target[c]] # "none"
  /\ LookAt(c, "stop")
  /\ UNCHANGED <<recordVars, driver, ctx, process, result, entries, restarts>>

CancelStops(c) ==
  LET r == Target[c] IN
  /\ cancel[c].pc = "stop"
  /\ IF r \in entries
       THEN /\ GoesOn(c, "wait")
            /\ ctx' = IF ctx[r] = "open" THEN [ctx EXCEPT ![r] = "cancelled"] ELSE ctx
       ELSE GoesOn(c, "recheck") /\ UNCHANGED ctx
  /\ UNCHANGED <<recordVars, driver, process, result, entries, restarts>>

DoneClosed(c) == cancel[c].pc = "wait" /\ driver[Target[c]] = "over"

CancelSeesDone(c) ==
  /\ DoneClosed(c)
  /\ LET s == status[Target[c]] IN Answers(c, IF s = "RUNNING" THEN "retry" ELSE s)
  /\ UNCHANGED <<recordVars, driver, ctx, process, result, entries, restarts>>

CancelGivesUp(c) ==
  /\ cancel[c].pc = "wait" /\ driver[Target[c]] # "over"
  /\ Answers(c, "retry")
  /\ UNCHANGED <<recordVars, driver, ctx, process, result, entries, restarts>>

CancelRechecks(c) ==
  /\ cancel[c].pc = "recheck"
  /\ LookAt(c, "record")
  /\ UNCHANGED <<recordVars, driver, ctx, process, result, entries, restarts>>

SaysRetry(c) == Answers(c, "retry")

RecordCancelled(c) ==
  LET r == Target[c] IN
  /\ cancel[c].pc = "record"
  /\ IF StillRunning(r)
       THEN \/ Recording(r, "CANCELLED") /\ Answers(c, "CANCELLED")
            \/ RecordingFails(r, "CANCELLED") /\ SaysRetry(c)
       ELSE UNCHANGED recordVars /\ Answers(c, "refused")
  /\ UNCHANGED <<driver, ctx, process, result, entries, restarts>>

(***************************************************************************)
(* The harness dies and comes back: a real provider lives on, orphaned.     *)
(***************************************************************************)
LastRecorded(r) == IF records[r] = <<>> THEN "none" ELSE records[r][Len(records[r])]

Restart ==
  /\ restarts < MaxRestarts /\ restarts' = restarts + 1
  /\ status' = [r \in Runs |-> LastRecorded(r)]
  /\ driver' = [r \in Runs |-> IF driver[r] = "no" THEN "no" ELSE "over"]
  /\ process' \in {[r \in Runs |-> IF process[r] = "running" THEN p ELSE process[r]] :
                     p \in {"stopped", "orphan"}}
  /\ entries' = {}
  /\ cancel' = [c \in Cancels |->
       IF cancel[c].pc \in {"no", "over"} THEN cancel[c] ELSE [pc |-> "over", answer |-> "lost"]]
  /\ UNCHANGED <<records, ctx, result, failures>>

Driving(r) ==
  \/ Register(r) \/ Launch(r) \/ ProviderReturns(r) \/ Persist(r)
  \/ Unregister(r) \/ CloseDone(r)

Cancelling(c) ==
  \/ CancelStops(c) \/ CancelSeesDone(c) \/ CancelGivesUp(c)
  \/ CancelRechecks(c) \/ RecordCancelled(c)

RunNext ==
  \/ \E r \in Runs : Start(r) \/ Driving(r) \/ ContextEnds(r)
  \/ \E c \in Cancels : CancelLooks(c) \/ Cancelling(c)
  \/ Restart

RunSpec == RunInit /\ [][RunNext]_runVars

(***************************************************************************)
(* Goroutines run; a provider whose context has ended is killed, but one    *)
(* that is left alone need not return.                                      *)
(***************************************************************************)
Fairness ==
  /\ \A r \in Runs :
       /\ WF_runVars(Register(r) \/ Launch(r) \/ Persist(r) \/ Unregister(r) \/ CloseDone(r))
       /\ WF_runVars(ctx[r] # "open" /\ ProviderReturns(r))
  /\ \A c \in Cancels : WF_runVars(Cancelling(c))

FairSpec == RunSpec /\ Fairness

(***************************************************************************)
(* Properties.                                                              *)
(***************************************************************************)
\* The variables have the values the code can store in them.
RunTypeOK ==
  /\ status \in [Runs -> Statuses]
  /\ records \in [Runs -> Seq(Statuses \ {"none"})]
  /\ driver \in [Runs -> {"no", "recorded", "driving", "running", "returned", "persisted",
                          "unregistered", "over"}]
  /\ ctx \in [Runs -> {"open", "expired", "cancelled"}]
  /\ process \in [Runs -> {"no", "running", "stopped", "orphan"}]
  /\ result \in [Runs -> Terminal \cup {"none"}]
  /\ entries \subseteq {r \in Runs : driver[r] \notin {"no", "over"}}
  /\ cancel \in [Cancels -> [pc : {"no", "stop", "wait", "recheck", "record", "over"},
                             answer : Terminal \cup {"none", "refused", "retry", "lost"}]]
  /\ failures \in 0 .. MaxFailures /\ restarts \in 0 .. MaxRestarts

\* A run ends once: no completion, cancel, failed append or restart replaces a
\* status that a caller may have read.
EndsOnce ==
  [][\A r \in Runs : status[r] \in Terminal => status'[r] = status[r]]_runVars

\* What a cancel answers is what the run's record says from then on.
CancelTellsTruth ==
  \A c \in Cancels : cancel[c].answer \in Terminal => status[Target[c]] = cancel[c].answer

\* What makes the above inductive: only a run that is being driven is registered, a
\* provider that returned has a result, a run that has not begun has no record, and
\* the log of a run that ended ends with its end.
Registered ==
  /\ entries \subseteq {r \in Runs : driver[r] \in {"driving", "running", "returned", "persisted"}}
  /\ \A r \in Runs : driver[r] = "returned" => result[r] \in Terminal

EndsWith(lines, s) == lines # <<>> /\ lines[Len(lines)] = s

Recorded ==
  \A r \in Runs :
    /\ status[r] # "none" \/ records[r] # <<>> => driver[r] # "no"
    /\ status[r] \in Terminal => EndsWith(records[r], status[r])

IInv == RunTypeOK /\ Registered /\ Recorded /\ CancelTellsTruth

\* A run that is told to stop leaves the registry, and its record has ended
\* unless the append failed or the harness died.
CancelledRunSettles ==
  \A r \in Runs :
    r \in entries /\ ctx[r] # "open"
      ~> r \notin entries /\ (status[r] \in Terminal \/ failures > 0 \/ restarts > 0)
=============================================================================
