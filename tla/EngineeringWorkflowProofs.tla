---------------------- MODULE EngineeringWorkflowProofs ----------------------
(***************************************************************************)
(* The gate of the engineering workflow for any number of runs of a task,  *)
(* of calls that fail and of requests that arrive late.  Every step but a  *)
(* crash moves one run, or what one run asked for: RunStep collects what   *)
(* such a step does, StepKeeps shows that it keeps the invariant, and the  *)
(* rest goes through the calls of a run one by one.                        *)
(***************************************************************************)
EXTENDS EngineeringWorkflow, TLAPS

\* What a step of run r, or of a request of it, does to the task and to the run.
Frame(r) ==
    \A x \in Run : x # r => run'[x] = run[x] /\ review'[x] = review[x]

Drives(r) ==
    /\ task'.status # "FAILED" /\ Rank[task'.status] >= Rank[task.status]
    /\ run[r].drove => run'[r].drove
    /\ run'[r].drove => run[r].drove \/ Drivers = {}
    /\ review'[r] # NoReview => run'[r].drove
    /\ task.evidence \subseteq task'.evidence
    /\ \A ev \in task'.evidence : ev \in task.evidence \/ (ev.run = r /\ run'[r].drove)

Ends(r) ==
    /\ run[r].outcome # "none" => run'[r].outcome # "none"
    /\ run'[r].outcome = "DONE" =>
         run[r].outcome = "DONE" \/ (run'[r].drove /\ task'.status = "DONE")
    /\ run[r].pc \in After /\ DoneGate(run[r], review[r]) =>
         run'[r].pc \in After /\ DoneGate(run'[r], review'[r])
    /\ task'.status = "DONE" =>
         \/ task.status = "DONE"
         \/ run'[r].pc \in After /\ DoneGate(run'[r], review'[r])

Tells(r) ==
    \/ stage' = stage
    \/ /\ Rank[task'.status] >= Claims[stage']
       /\ stage' = "SEALED" => run'[r].outcome # "none"

Asked(r) == \A q \in late' : IF q.run = r THEN Honest(q, run[q.run])' ELSE q \in late

Leaves(r) ==
    /\ faults' \in Nat /\ faults' >= faults
    /\ faults' = 0 =>
         /\ late' = {}
         /\ task'.wcVersion = task.wcVersion \/ r \in Drivers
         /\ EvidenceOf(run[r])'
         /\ task'.status = "DONE" /\ task.status # "DONE" =>
              Left("build", "PASS")' /\ Left("test", "PASS")'

RunStep(r) ==
    /\ TypeOK' /\ Frame(r) /\ Drives(r) /\ Ends(r) /\ Tells(r)
    /\ RunHonest(r, run[r])' /\ Asked(r) /\ Leaves(r)

\* Ranks tell the statuses apart.
LEMMA Ranks ==
    ASSUME NEW a \in Status \ {"FAILED"}, NEW b \in Status \ {"FAILED"}, Rank[b] >= Rank[a]
    PROVE  /\ a # "PLANNED" => b # "PLANNED"
           /\ a \in {"IN_REVIEW", "DONE"} => b \in {"IN_REVIEW", "DONE"}
           /\ a = "DONE" => b = "DONE"
           /\ Rank[a] \in Nat /\ Rank[b] \in Nat
BY DEF Rank, Status

\* A stage claims a rank.
LEMMA ClaimsType == ASSUME NEW s \in Stage PROVE Claims[s] \in 1 .. 4
BY DEF Claims, Stage

\* A step of one run keeps the invariant: whoever drives is alone, and nothing goes back.
LEMMA StepKeeps == ASSUME Inv, NEW r \in Run, RunStep(r) PROVE Inv'
<1>1. /\ task.status \in Status \ {"FAILED"} /\ task'.status \in Status \ {"FAILED"}
      /\ Rank[task'.status] >= Rank[task.status]
  BY DEF Inv, RunStep, Drives, TypeOK, Task
<1>2. /\ task.status # "PLANNED" => task'.status # "PLANNED"
      /\ task.status \in {"IN_REVIEW", "DONE"} => task'.status \in {"IN_REVIEW", "DONE"}
      /\ task.status = "DONE" => task'.status = "DONE"
      /\ Rank[task.status] \in Nat /\ Rank[task'.status] \in Nat
  BY <1>1, Ranks
<1>3. \A x \in Run : x # r => run'[x] = run[x] /\ review'[x] = review[x]
  BY DEF RunStep, Frame
<1>4. /\ \A x \in Drivers : x \in Drivers'
      /\ \A x \in Drivers' : x \in Drivers \/ (x = r /\ Drivers = {})
      /\ \A x, y \in Drivers' : x = y
  <2>1. \A x \in Run : x # r => (x \in Drivers <=> x \in Drivers') BY <1>3 DEF Drivers
  <2>2. (r \in Drivers => r \in Drivers') /\ (r \in Drivers' => r \in Drivers \/ Drivers = {})
    BY DEF RunStep, Drives, Drivers
  <2>3. Drivers \subseteq Run /\ Drivers' \subseteq Run BY DEF Drivers
  <2>4. \A x, y \in Drivers : x = y BY DEF Inv, Traces
  <2>. QED BY <2>1, <2>2, <2>3, <2>4
<1>5. Traces'
  <2>1. \A x \in Run : review'[x] # NoReview => x \in Drivers'
    <3>1. \A x \in Run : review[x] # NoReview => x \in Drivers BY DEF Inv, Traces
    <3>2. review'[r] # NoReview => r \in Drivers' BY DEF RunStep, Drives, Drivers
    <3>. QED BY <1>3, <1>4, <3>1, <3>2
  <2>2. \A ev \in task'.evidence : ev.run \in Drivers'
    <3>1. \A ev \in task.evidence : ev.run \in Drivers BY DEF Inv, Traces
    <3>2. \A ev \in task'.evidence : ev \in task.evidence \/ (ev.run = r /\ run'[r].drove)
      BY DEF RunStep, Drives
    <3>3. run'[r].drove => r \in Drivers' BY DEF Drivers
    <3>. QED BY <1>4, <3>1, <3>2, <3>3
  <2>. QED BY <1>4, <2>1, <2>2 DEF Traces
<1>6. OneDriver' BY <1>5 DEF Traces, OneDriver, Drivers
<1>7. DoneIsDone'
  BY <1>2, <1>3 DEF Inv, RunStep, Drives, Ends, DoneIsDone
<1>8. ASSUME NEW x \in Run PROVE RunHonest(x, run[x])'
  <2>1. CASE x = r BY <2>1 DEF RunStep
  <2>2. CASE x # r
    <3>1. RunHonest(x, run[x]) /\ run'[x] = run[x] /\ review'[x] = review[x] BY <1>3, <2>2 DEF Inv
    <3>2. \A i \in DOMAIN run[x].todo : Claims[run[x].todo[i]] \in 1 .. 4
      BY ClaimsType DEF Inv, TypeOK, RunState
    <3>. QED BY <1>1, <1>2, <3>1, <3>2 DEF RunHonest
  <2>. QED BY <2>1, <2>2
<1>9. ASSUME NEW q \in late' PROVE Honest(q, run[q.run])'
  <2>1. CASE q.run = r BY <2>1 DEF RunStep, Asked
  <2>2. CASE q.run # r
    <3>1. q \in late BY <2>2 DEF RunStep, Asked
    <3>2. q.run \in Run /\ Honest(q, run[q.run]) BY <3>1 DEF Inv, TypeOK
    <3>. QED BY <1>3, <2>2, <3>2 DEF Honest
  <2>. QED BY <2>1, <2>2
<1>10. Gated'
  <2>1. ASSUME task'.status = "DONE"
        PROVE  \E x \in Run : run'[x].pc \in After /\ DoneGate(run'[x], review'[x])
    <3>1. CASE task.status = "DONE"
      <4>1. PICK x \in Run : run[x].pc \in After /\ DoneGate(run[x], review[x])
        BY <3>1 DEF Inv, Gated
      <4>2. CASE x = r BY <4>1, <4>2 DEF RunStep, Ends
      <4>3. CASE x # r BY <1>3, <4>1, <4>3
      <4>. QED BY <4>2, <4>3
    <3>2. CASE task.status # "DONE" BY <2>1, <3>2 DEF RunStep, Ends
    <3>. QED BY <3>1, <3>2
  <2>2. Rank[task'.status] >= Claims[stage']
    <3>1. Rank[task.status] >= Claims[stage] /\ Claims[stage] \in 1 .. 4
      BY ClaimsType DEF Inv, Gated, TypeOK
    <3>. QED BY <1>1, <1>2, <3>1 DEF RunStep, Tells
  <2>3. stage' = "SEALED" => \E x \in Run : run'[x].outcome # "none"
    <3>1. CASE stage' = stage
      <4>1. stage = "SEALED" => \E x \in Run : run[x].outcome # "none" BY DEF Inv, Gated
      <4>2. \A x \in Run : run[x].outcome # "none" => run'[x].outcome # "none"
        BY <1>3 DEF RunStep, Ends
      <4>. QED BY <3>1, <4>1, <4>2
    <3>2. CASE stage' # stage BY <3>2 DEF RunStep, Tells
    <3>. QED BY <3>1, <3>2
  <2>. QED BY <2>1, <2>2, <2>3 DEF Gated
<1>11. \A k, v : Left(k, v) => Left(k, v)' BY DEF RunStep, Drives, Left
<1>12. ASSUME faults' = 0
       PROVE  /\ faults = 0 /\ late' = {} /\ (Drivers' = {} => task'.wcVersion = 1)
              /\ \A x \in Run : EvidenceOf(run[x])'
  <2>1. faults = 0 BY <1>12 DEF Inv, TypeOK, RunStep, Leaves
  <2>2. /\ late' = {} /\ EvidenceOf(run[r])'
        /\ task'.wcVersion = task.wcVersion \/ r \in Drivers
    BY <1>12 DEF RunStep, Leaves
  <2>3. /\ Drivers = {} => task.wcVersion = 1
        /\ \A x \in Run : EvidenceOf(run[x])
    BY <2>1 DEF Inv, EvidenceLeft
  <2>4. ASSUME NEW x \in Run, x # r PROVE EvidenceOf(run[x])'
    <3>1. run'[x] = run[x] /\ EvidenceOf(run[x]) BY <1>3, <2>3, <2>4
    <3>2. Drivers # {} => Drivers' # {} BY <1>4
    <3>3. run[x].pc \in Driving \cup Reviewing => task'.wcVersion = task.wcVersion
      <4>1. run[x].pc \in Driving \cup Reviewing => x \in Drivers
        BY DEF Inv, RunHonest, Drivers
      <4>2. \A y, z \in Drivers : y = z BY DEF Inv, Traces
      <4>. QED BY <2>2, <2>4, <4>1, <4>2
    <3>. QED BY <1>11, <3>1, <3>2, <3>3 DEF EvidenceOf
  <2>. QED BY <1>4, <2>1, <2>2, <2>3, <2>4
<1>13. EvidenceLeft' BY <1>12 DEF EvidenceLeft
<1>14. EvidenceBehindDone'
  <2> SUFFICES ASSUME task'.status = "DONE", faults' = 0
               PROVE  Left("build", "PASS")' /\ Left("test", "PASS")'
    BY DEF EvidenceBehindDone, Left, Kind
  <2>1. CASE task.status = "DONE"
    <3>1. Left("build", "PASS") /\ Left("test", "PASS")
      BY <1>12, <2>1 DEF Inv, EvidenceBehindDone, Left, Kind
    <3>. QED BY <1>11, <3>1
  <2>2. CASE task.status # "DONE" BY <2>2 DEF RunStep, Leaves
  <2>. QED BY <2>1, <2>2
<1>15. TypeOK' BY DEF RunStep
<1>. QED BY <1>1, <1>5, <1>6, <1>7, <1>8, <1>9, <1>10, <1>13, <1>14, <1>15 DEF Inv

\* Run r becomes s, which is as honest as it was, while nothing changes that other
\* plugins keep.
Moves(r, s) ==
    /\ s \in RunState
    /\ s.drove = run[r].drove /\ s.ver <= task.version /\ s.wcVer <= task.wcVersion
    /\ run[r].outcome # "none" => s.outcome # "none"
    /\ s.outcome = "DONE" => run[r].outcome = "DONE"
    /\ run[r].pc \in After =>
         s.pc \in After /\ s.build = run[r].build /\ s.test = run[r].test
    /\ RunHonest(r, s)

\* A run that goes on while the task and the reviews stay as they are keeps the invariant.
LEMMA MovesKeeps ==
    ASSUME WorkflowAssumption, Inv, NEW r \in Run, NEW s, Moves(r, s),
           Becomes(r, s), UNCHANGED services, faults' = 0 => EvidenceOf(s),
           \/ stage' = stage
           \/ /\ stage' \in Stage
              /\ Rank[task.status] >= Claims[stage']
              /\ stage' = "SEALED" => s.outcome # "none",
           \/ UNCHANGED <<late, faults>>
           \/ /\ faults < MaxFaults /\ faults' = faults + 1
              /\ \/ UNCHANGED late
                 \/ \E q \in [run : {r}, op : Op, ver : Nat, result : Result] :
                      late' = late \cup {q} /\ Honest(q, s)
    PROVE  Inv'
<1>1. /\ run \in [Run -> RunState] /\ run' \in [Run -> RunState] /\ run'[r] = s
      /\ \A x \in Run : x # r => run'[x] = run[x]
      /\ task' = task /\ review' = review
  BY DEF Moves, Becomes, services, Inv, TypeOK
<1>2. TypeOK'
  <2>1. task' \in Task /\ review' \in [Run -> Review] /\ stage' \in Stage
    BY <1>1 DEF Inv, TypeOK
  <2>2. late' \subseteq [run : Run, op : Op, ver : Nat, result : Result]
    BY DEF Inv, TypeOK
  <2>3. faults' \in 0..MaxFaults BY DEF Inv, TypeOK, WorkflowAssumption
  <2>4. \A x \in Run : run'[x].ver <= task'.version /\ run'[x].wcVer <= task'.wcVersion
    BY <1>1 DEF Inv, TypeOK, Moves
  <2>. QED BY <1>1, <2>1, <2>2, <2>3, <2>4 DEF TypeOK
<1>3. Frame(r) BY <1>1 DEF Frame
<1>4. Drives(r)
  <2>1. Rank[task.status] >= Rank[task.status]
    BY Ranks DEF Inv, TypeOK, Task, Rank, Status
  <2>2. review[r] # NoReview => run[r].drove BY DEF Inv, Traces, Drivers
  <2>. QED BY <1>1, <2>1, <2>2 DEF Drives, Moves, Inv
<1>5. Ends(r) BY <1>1 DEF Ends, Moves, DoneGate
<1>6. Tells(r) BY <1>1 DEF Tells
<1>7. Asked(r)
  <2>1. ASSUME NEW q \in late, q.run = r PROVE Honest(q, run[q.run])'
    <3>1. Honest(q, run[q.run]) BY DEF Inv
    <3>. QED BY <1>1, <2>1, <3>1 DEF Honest, Moves, DoneGate
  <2>2. ASSUME NEW q, q.run = r, Honest(q, s) PROVE Honest(q, run[q.run])'
    BY <1>1, <2>2 DEF Honest
  <2>. QED BY <2>1, <2>2 DEF Asked
<1>8. Leaves(r)
  <2>1. faults \in Nat /\ (faults' = 0 => faults = 0 /\ UNCHANGED <<late, faults>>)
    BY DEF Inv, TypeOK, WorkflowAssumption
  <2>2. faults' \in Nat /\ faults' >= faults BY <2>1
  <2>3. faults = 0 => late = {} BY DEF Inv, EvidenceLeft
  <2>4. faults' = 0 => EvidenceOf(run[r])'
    <3>1. Drivers' = Drivers BY <1>1 DEF Drivers, Moves
    <3>. QED BY <1>1, <3>1 DEF EvidenceOf, Left
  <2>. QED BY <1>1, <2>1, <2>2, <2>3, <2>4 DEF Leaves
<1>9. RunHonest(r, run[r])' BY <1>1 DEF RunHonest, Moves
<1>. QED BY <1>2, <1>3, <1>4, <1>5, <1>6, <1>7, <1>8, <1>9, StepKeeps DEF RunStep

\* A call whose answer changes nothing elsewhere, or that fails without a trace.
LEMMA GoesKeeps ==
    ASSUME WorkflowAssumption, Inv, NEW r \in Run, NEW s, Goes(r, s) \/ Asks(r, s),
           Moves(r, s), faults = 0 => EvidenceOf(s)
    PROVE  Inv'
<1>1. Becomes(r, s) /\ UNCHANGED <<services, stage, late, faults>> BY DEF Goes, Asks
<1>. QED BY <1>1, MovesKeeps

\* A call that does not go through and leaves no request on its way.
LEMMA VainKeeps ==
    ASSUME WorkflowAssumption, Inv, NEW r \in Run, NEW s, AsksInVain(r, s),
           Moves(r, s), faults = 0 /\ run[r].ctx = "expired" => EvidenceOf(s)
    PROVE  Inv'
<1>1. Becomes(r, s) /\ UNCHANGED <<services, stage, late>> BY DEF AsksInVain, Fault
<1>2. \/ run[r].ctx = "expired" /\ UNCHANGED faults
      \/ faults < MaxFaults /\ faults' = faults + 1
  BY DEF AsksInVain, Fault, CanSend
<1>3. faults' = 0 => EvidenceOf(s) BY <1>2 DEF Inv, TypeOK
<1>. QED BY <1>1, <1>2, <1>3, MovesKeeps

\* What is known of a run that makes a step.
LEMMA RunFacts ==
    ASSUME Inv, NEW r \in Run
    PROVE  /\ run[r] \in RunState /\ task \in Task /\ RunHonest(r, run[r])
           /\ run[r].ver <= task.version /\ run[r].wcVer <= task.wcVersion
           /\ faults = 0 => EvidenceOf(run[r]) /\ (Drivers = {} => task.wcVersion = 1)
           /\ run[r].outcome = "DONE" => run[r].drove /\ task.status = "DONE"
           /\ task.version \in Nat /\ task.wcVersion \in Nat /\ Rank[task.status] \in 1 .. 4
<1>1. /\ run[r] \in RunState /\ task \in Task /\ task.version \in Nat /\ task.wcVersion \in Nat
      /\ run[r].ver <= task.version /\ run[r].wcVer <= task.wcVersion
  BY DEF Inv, TypeOK, Task
<1>2. RunHonest(r, run[r]) BY DEF Inv
<1>3. faults = 0 => EvidenceOf(run[r]) /\ (Drivers = {} => task.wcVersion = 1)
  BY DEF Inv, EvidenceLeft
<1>4. run[r].outcome = "DONE" => run[r].drove /\ task.status = "DONE" BY DEF Inv, DoneIsDone
<1>5. Rank[task.status] \in 1 .. 4 BY <1>1 DEF Task, Rank, Status
<1>. QED BY <1>1, <1>2, <1>3, <1>4, <1>5

\* A list of one event.
LEMMA OneEvent ==
    ASSUME NEW e \in Stage
    PROVE  <<e>> \in Seq(Stage) /\ \A i \in DOMAIN <<e>> : <<e>>[i] = e
OBVIOUS

\* work.get: the run reads the versions it will transition from.
LEMMA StartKeeps == ASSUME WorkflowAssumption, Inv, NEW r \in Run, Start(r) PROVE Inv'
<1> DEFINE a == [run[r] EXCEPT !.pc = "allocate", !.ver = task.version, !.wcVer = task.wcVersion]
           b == [run[r] EXCEPT !.pc = "over", !.outcome = "GATE_FAILED"]
<1>1. run[r].pc = "idle" BY DEF Start
<1>2. Moves(r, a) /\ (faults = 0 => EvidenceOf(a))
  <2>1. a \in RunState BY <1>1, RunFacts, ZenonT(30) DEF RunState, Step
  <2>2. RunHonest(r, a)
    BY <1>1, RunFacts DEF RunHonest, RunState, Before, Driving, Reviewing
  <2>3. faults = 0 => EvidenceOf(a)
    BY <1>1, RunFacts DEF EvidenceOf, RunState, Driving, Reviewing
  <2>. QED BY <1>1, <2>1, <2>2, <2>3, RunFacts DEF Moves, RunState, After
<1>3. Moves(r, b) /\ (faults = 0 => EvidenceOf(b))
  BY <1>1, RunFacts
     DEF Moves, RunHonest, EvidenceOf, RunState, Outcome, Before, Driving, Reviewing, After
<1> HIDE DEF a, b
<1>4. Asks(r, a) \/ AsksInVain(r, b) BY DEF Start, a, b
<1>. QED BY <1>2, <1>3, <1>4, GoesKeeps, VainKeeps

\* workspace.allocate.
LEMMA AllocateKeeps == ASSUME WorkflowAssumption, Inv, NEW r \in Run, WorkspaceAlloc(r) PROVE Inv'
<1> DEFINE a == [run[r] EXCEPT !.pc = "begin", !.todo = <<"WORKSPACE">>]
           b == [run[r] EXCEPT !.pc = "over", !.outcome = "GATE_FAILED"]
<1>1. run[r].pc = "allocate" /\ Claims["WORKSPACE"] = 1 BY DEF WorkspaceAlloc, At, Claims, Stage
<1>2. Moves(r, a) /\ (faults = 0 => EvidenceOf(a))
  <2>1. a \in RunState
    <3>1. <<"WORKSPACE">> \in Seq(Stage) BY OneEvent DEF Stage
    <3>. QED BY <1>1, <3>1, RunFacts, ZenonT(30) DEF RunState, Step
  <2>2. RunHonest(r, a)
    BY <1>1, RunFacts DEF RunHonest, RunState, Before, Driving, Reviewing
  <2>3. faults = 0 => EvidenceOf(a)
    BY <1>1, RunFacts DEF EvidenceOf, RunState, Driving, Reviewing
  <2>. QED BY <1>1, <2>1, <2>2, <2>3, RunFacts DEF Moves, RunState, After
<1>3. Moves(r, b) /\ (faults = 0 => EvidenceOf(b))
  BY <1>1, RunFacts
     DEF Moves, RunHonest, EvidenceOf, RunState, Outcome, Before, Driving, Reviewing, After
<1> HIDE DEF a, b
<1>4. Asks(r, a) \/ AsksInVain(r, b) BY DEF WorkspaceAlloc, a, b
<1>. QED BY <1>2, <1>3, <1>4, GoesKeeps, VainKeeps

\* A call that fails, whose request may be lost or late.
LEMMA FailsKeeps ==
    ASSUME WorkflowAssumption, Inv, NEW r \in Run, NEW s,
           NEW q \in [run : {r}, op : Op, ver : Nat, result : Result],
           Fails(r, q, s), Moves(r, s), Honest(q, s),
           faults = 0 /\ (run[r].ctx = "expired" \/ ~ Accepts(q)) => EvidenceOf(s)
    PROVE  Inv'
<1>1. Becomes(r, s) /\ UNCHANGED <<services, stage>> BY DEF Fails, Fault
<1>2. \/ ~ Accepts(q) /\ UNCHANGED <<late, faults>>
      \/ run[r].ctx = "expired" /\ UNCHANGED <<late, faults>>
      \/ /\ faults < MaxFaults /\ faults' = faults + 1
         /\ late' = late \/ late' = late \cup {q}
  BY DEF Fails, Fault, CanSend
<1>3. faults' = 0 => EvidenceOf(s) BY <1>2 DEF Inv, TypeOK
<1>. QED BY <1>1, <1>2, <1>3, MovesKeeps

\* An early return before the cleanup.
LEMMA FailingMoves ==
    ASSUME Inv, NEW r \in Run, NEW agent \in BOOLEAN, NEW outcome \in Outcome \ {"none", "DONE"},
           NEW o, o = run[r] \/ o = [run[r] EXCEPT !.agent = agent],
           run[r].pc \notin After, run[r].todo = <<>>, run[r].pc \in Step
    PROVE  /\ Moves(r, Failing(o, outcome)) /\ EvidenceOf(Failing(o, outcome))
           /\ Failing(o, outcome).pc \in After /\ Failing(o, outcome).build = run[r].build
           /\ Failing(o, outcome).test = run[r].test
<1> DEFINE s == Failing(o, outcome)
<1>1. o \in RunState BY RunFacts DEF RunState
<1>2. /\ s \in RunState /\ s.pc \in {"seal", "release"} /\ s.outcome = outcome
      /\ s.drove = run[r].drove /\ s.ver = run[r].ver /\ s.wcVer = run[r].wcVer
      /\ s.todo = <<>> /\ s.build = run[r].build /\ s.test = run[r].test
  <2>1. o.agent \in BOOLEAN /\ o.drove = run[r].drove /\ o.ver = run[r].ver /\ o.wcVer = run[r].wcVer
        /\ o.todo = <<>> /\ o.build = run[r].build /\ o.test = run[r].test
    BY RunFacts DEF RunState
  <2>. QED BY <1>1, <2>1 DEF Failing, RunState, Step
<1> HIDE DEF s
<1>3. RunHonest(r, s)
  BY <1>2, RunFacts DEF RunHonest, Before, Driving, Reviewing
<1>4. EvidenceOf(s) BY <1>2 DEF EvidenceOf, Driving, Reviewing
<1>5. Moves(r, s) BY <1>2, <1>3, RunFacts DEF Moves
<1>. QED BY <1>2, <1>4, <1>5 DEF s, After

\* A run on its way goes on to its next call, with at most one event to write.
LEMMA ForwardMoves ==
    ASSUME Inv, NEW r \in Run, NEW s \in RunState,
           run[r].pc \in Driving \cup Reviewing, s.pc \in Driving \cup Reviewing,
           s.drove = run[r].drove, s.ver = run[r].ver, s.wcVer = run[r].wcVer,
           s.ctx = run[r].ctx, s.outcome = run[r].outcome,
           s.pc \in Reviewing => run[r].pc \in Reviewing,
           s.pc \in Driving \cup {"request"} => run[r].pc \in Driving \cup {"request"},
           s.pc = "finish" => DoneGate(s, review[r]),
           s.pc = "attachBuild" => s.build # "none", s.pc = "attachTest" => s.test # "none",
           s.todo = <<>> \/ \E e \in Stage \ {"SEALED"} :
                               s.todo = <<e>> /\ Rank[task.status] >= Claims[e],
           s.pc \in {"test", "attachTest", "submit"} \cup Reviewing =>
             /\ run[r].pc \in {"test", "attachTest", "submit"} \cup Reviewing
             /\ s.build = run[r].build,
           s.pc \in {"submit"} \cup Reviewing =>
             run[r].pc \in {"submit"} \cup Reviewing /\ s.test = run[r].test
    PROVE  Moves(r, s) /\ (faults = 0 => EvidenceOf(s))
<1>1. RunHonest(r, s)
  BY RunFacts DEF RunHonest, Before, Driving, Reviewing
<1>2. faults = 0 => EvidenceOf(s)
  BY RunFacts DEF EvidenceOf, Driving, Reviewing
<1>. QED BY <1>1, <1>2, RunFacts DEF Moves, Driving, Reviewing, After

\* How far the task is when a run is on its way.
LEMMA Reached ==
    ASSUME Inv, NEW r \in Run
    PROVE  /\ run[r].drove => Rank[task.status] >= 2
           /\ run[r].pc \in Driving \cup Reviewing => run[r].drove
           /\ run[r].pc \in Reviewing => Rank[task.status] >= 3
           /\ run[r].outcome = "DONE" => Rank[task.status] >= 4
BY RunFacts DEF RunHonest, Task, Rank, Status, Inv

\* What each event claims of the task.
LEMMA Stages ==
    /\ {"AGENT", "DIFF", "BUILD", "TEST", "REVIEW_REQUESTED", "WAITING_REVIEW", "REVIEWED",
        "DONE", "SEALED"} \subseteq Stage
    /\ \A e \in {"AGENT", "DIFF", "BUILD", "TEST"} : Claims[e] = 2
    /\ \A e \in {"REVIEW_REQUESTED", "WAITING_REVIEW", "REVIEWED"} : Claims[e] = 3
    /\ Claims["DONE"] = 4 /\ Claims["SEALED"] = 1
BY DEF Stage, Claims

\* The check of the deadline before the agent runs.
LEMMA CheckDeadlineKeeps ==
    ASSUME WorkflowAssumption, Inv, NEW r \in Run, CheckDeadline(r) PROVE Inv'
<1> DEFINE a == [run[r] EXCEPT !.pc = "agent", !.todo = <<"AGENT">>]
           b == Failing(run[r], "TIMEOUT")
<1>1. run[r].pc = "check" /\ run[r].todo = <<>> BY DEF CheckDeadline, At
<1>2. Moves(r, a) /\ (faults = 0 => EvidenceOf(a))
  <2>1. a \in RunState
    <3>1. <<"AGENT">> \in Seq(Stage) BY OneEvent, Stages
    <3>. QED BY <3>1, RunFacts, ZenonT(30) DEF RunState, Step
  <2>. QED BY <1>1, <2>1, ForwardMoves, RunFacts, Reached, Stages, ZenonT(30) DEF RunState, Driving, Reviewing
<1>3. Moves(r, b) /\ EvidenceOf(b)
  BY <1>1, RunFacts, FailingMoves DEF Outcome, After, Step, RunState
<1> HIDE DEF a, b
<1>4. Goes(r, a) \/ Goes(r, b) BY DEF CheckDeadline, a, b
<1>. QED BY <1>2, <1>3, <1>4, GoesKeeps

\* agent.run, whose answer may be lost.
LEMMA AgentRunKeeps ==
    ASSUME WorkflowAssumption, Inv, NEW r \in Run, AgentRun(r) PROVE Inv'
<1> DEFINE a == [run[r] EXCEPT !.pc = "diff", !.agent = TRUE]
           o(known) == [run[r] EXCEPT !.agent = known]
           b(known) == Failing(o(known), "AGENT_FAILED")
<1>1. run[r].pc = "agent" /\ run[r].todo = <<>> BY DEF AgentRun, At
<1>2. Moves(r, a) /\ (faults = 0 => EvidenceOf(a))
  <2>1. a \in RunState BY RunFacts DEF RunState, Step
  <2>. QED BY <1>1, <2>1, ForwardMoves, RunFacts DEF RunState, Driving, Reviewing
<1>3. ASSUME NEW known \in BOOLEAN PROVE Moves(r, b(known)) /\ EvidenceOf(b(known))
  BY <1>1, RunFacts, FailingMoves DEF Outcome, After, Step, RunState
<1>4. Asks(r, a) \/ Asks(r, b(TRUE)) \/ \E known \in BOOLEAN : AsksInVain(r, b(known))
  BY DEF AgentRun
<1> HIDE DEF a, b
<1>. QED BY <1>2, <1>3, <1>4, GoesKeeps, VainKeeps

\* The diff.
LEMMA CollectDiffKeeps ==
    ASSUME WorkflowAssumption, Inv, NEW r \in Run, CollectDiff(r) PROVE Inv'
<1> DEFINE a == [run[r] EXCEPT !.pc = "build", !.todo = <<"DIFF">>]
           b == Failing(run[r], "GATE_FAILED")
<1>1. run[r].pc = "diff" /\ run[r].todo = <<>> BY DEF CollectDiff, At
<1>2. Moves(r, a) /\ (faults = 0 => EvidenceOf(a))
  <2>1. a \in RunState
    <3>1. <<"DIFF">> \in Seq(Stage) BY OneEvent, Stages
    <3>. QED BY <3>1, RunFacts DEF RunState, Step
  <2>. QED BY <1>1, <2>1, ForwardMoves, RunFacts, Reached, Stages, ZenonT(30) DEF RunState, Driving, Reviewing
<1>3. Moves(r, b) /\ EvidenceOf(b)
  BY <1>1, RunFacts, FailingMoves DEF Outcome, After, Step, RunState
<1> HIDE DEF a, b
<1>4. Asks(r, a) \/ AsksInVain(r, b) BY DEF CollectDiff, a, b
<1>. QED BY <1>2, <1>3, <1>4, GoesKeeps, VainKeeps

\* The build.
LEMMA BuildKeeps ==
    ASSUME WorkflowAssumption, Inv, NEW r \in Run, Build(r) PROVE Inv'
<1> DEFINE a(res) == [run[r] EXCEPT !.pc = "attachBuild", !.build = res, !.todo = <<"BUILD">>]
           b == Failing(run[r], "BUILD_FAILED")
<1>1. run[r].pc = "build" /\ run[r].todo = <<>> BY DEF Build, At
<1>2. ASSUME NEW res \in {"PASS", "FAIL"} PROVE Moves(r, a(res)) /\ (faults = 0 => EvidenceOf(a(res)))
  <2>1. a(res) \in RunState
    <3>1. <<"BUILD">> \in Seq(Stage) BY OneEvent, Stages
    <3>. QED BY <3>1, RunFacts, ZenonT(30) DEF RunState, Step, Result
  <2>. QED BY <1>1, <2>1, ForwardMoves, RunFacts, Reached, Stages, ZenonT(30) DEF RunState, Driving, Reviewing
<1>3. Moves(r, b) /\ EvidenceOf(b)
  BY <1>1, RunFacts, FailingMoves DEF Outcome, After, Step, RunState
<1>4. (\E res \in {"PASS", "FAIL"} : Asks(r, a(res))) \/ AsksInVain(r, b) BY DEF Build
<1> HIDE DEF a, b
<1>. QED BY <1>2, <1>3, <1>4, GoesKeeps, VainKeeps

\* The tests.
LEMMA TestKeeps ==
    ASSUME WorkflowAssumption, Inv, NEW r \in Run, Test(r) PROVE Inv'
<1> DEFINE a(res) == [run[r] EXCEPT !.pc = "attachTest", !.test = res, !.todo = <<"TEST">>]
           b == Failing(run[r], "TEST_FAILED")
<1>1. run[r].pc = "test" /\ run[r].todo = <<>> BY DEF Test, At
<1>2. ASSUME NEW res \in {"PASS", "FAIL"} PROVE Moves(r, a(res)) /\ (faults = 0 => EvidenceOf(a(res)))
  <2>1. a(res) \in RunState
    <3>1. <<"TEST">> \in Seq(Stage) BY OneEvent, Stages
    <3>. QED BY <3>1, RunFacts, ZenonT(30) DEF RunState, Step, Result
  <2>. QED BY <1>1, <2>1, ForwardMoves, RunFacts, Reached, Stages, ZenonT(30) DEF RunState, Driving, Reviewing
<1>3. Moves(r, b) /\ EvidenceOf(b)
  BY <1>1, RunFacts, FailingMoves DEF Outcome, After, Step, RunState
<1>4. (\E res \in {"PASS", "FAIL"} : Asks(r, a(res))) \/ AsksInVain(r, b) BY DEF Test
<1> HIDE DEF a, b
<1>. QED BY <1>2, <1>3, <1>4, GoesKeeps, VainKeeps

\* A turn of the loop that waits for the review.
LEMMA PollReviewKeeps ==
    ASSUME WorkflowAssumption, Inv, NEW r \in Run, PollReview(r) PROVE Inv'
<1> DEFINE a == [run[r] EXCEPT !.pc = "look"]
           b == Failing(run[r], "TIMEOUT")
<1>1. run[r].pc = "poll" /\ run[r].todo = <<>> BY DEF PollReview, At
<1>2. Moves(r, a) /\ (faults = 0 => EvidenceOf(a))
  <2>1. a \in RunState BY RunFacts DEF RunState, Step
  <2>. QED BY <1>1, <2>1, ForwardMoves, RunFacts DEF RunState, Driving, Reviewing
<1>3. Moves(r, b) /\ EvidenceOf(b)
  BY <1>1, RunFacts, FailingMoves DEF Outcome, After, Step, RunState
<1> HIDE DEF a, b
<1>4. Goes(r, a) \/ Goes(r, b) BY DEF PollReview, a, b
<1>. QED BY <1>2, <1>3, <1>4, GoesKeeps

\* review.get: the gate lets the run finish or sends it to the cleanup.
LEMMA ReviewGetKeeps ==
    ASSUME WorkflowAssumption, Inv, NEW r \in Run, ReviewGet(r) PROVE Inv'
<1> DEFINE a == [run[r] EXCEPT !.pc = "poll"]
           b == [run[r] EXCEPT !.pc = "finish", !.todo = <<"REVIEWED">>]
           f == Failing(run[r], "GATE_FAILED")
           c == [f EXCEPT !.todo = <<"REVIEWED">>]
<1>1. run[r].pc = "look" /\ run[r].todo = <<>> BY DEF ReviewGet, At
<1>2. <<"REVIEWED">> \in Seq(Stage) BY OneEvent, Stages
<1>3. Moves(r, a) /\ (faults = 0 => EvidenceOf(a))
  <2>1. a \in RunState BY RunFacts DEF RunState, Step
  <2>. QED BY <1>1, <2>1, ForwardMoves, RunFacts DEF RunState, Driving, Reviewing
<1>4. ASSUME DoneGate(run[r], review[r]) PROVE Moves(r, b) /\ (faults = 0 => EvidenceOf(b))
  <2>1. b \in RunState BY <1>2, RunFacts, ZenonT(30) DEF RunState, Step
  <2>2. DoneGate(b, review[r]) BY <1>4, RunFacts DEF DoneGate, RunState
  <2>. QED BY <1>1, <2>1, <2>2, ForwardMoves, RunFacts, Reached, Stages, ZenonT(30) DEF RunState, Driving, Reviewing
<1>5. Moves(r, f) /\ EvidenceOf(f) /\ f.pc \in After
  BY <1>1, RunFacts, FailingMoves DEF Outcome, After, Step, RunState
<1>6. Moves(r, c) /\ EvidenceOf(c)
  <2>1. f \in RunState /\ RunHonest(r, f) BY <1>5 DEF Moves
  <2> HIDE DEF f
  <2>2. c \in RunState BY <1>2, <2>1 DEF RunState
  <2>3. RunHonest(r, c)
    BY <1>1, <2>1, Reached, Stages DEF RunHonest, RunState, Reviewing, DoneGate
  <2>4. EvidenceOf(c) BY <1>5, <2>1 DEF EvidenceOf, RunState, After, Driving, Reviewing
  <2>. QED BY <1>5, <2>1, <2>2, <2>3, <2>4 DEF Moves, RunState
<1>7. \/ Asks(r, a) \/ (DoneGate(run[r], review[r]) /\ Asks(r, b)) \/ Asks(r, c) \/ AsksInVain(r, f)
  BY DEF ReviewGet
<1> HIDE DEF a, b, c, f
<1>. QED BY <1>3, <1>4, <1>5, <1>6, <1>7, GoesKeeps, VainKeeps

\* The cleanup: the seal and the release of the workspace.
LEMMA CleanupKeeps ==
    ASSUME WorkflowAssumption, Inv, NEW r \in Run, SessionSeal(r) \/ WorkspaceRelease(r) PROVE Inv'
<1> DEFINE a == [run[r] EXCEPT !.pc = "release", !.todo = <<"SEALED">>]
           b == [run[r] EXCEPT !.pc = "release"]
           c == [run[r] EXCEPT !.pc = "over"]
<1>1. run[r].pc \in {"seal", "release"} /\ run[r].todo = <<>>
  BY DEF SessionSeal, WorkspaceRelease, At
<1>2. Moves(r, a) /\ EvidenceOf(a)
  <2>1. a \in RunState
    <3>1. <<"SEALED">> \in Seq(Stage) BY OneEvent, Stages
    <3>. QED BY <3>1, RunFacts DEF RunState, Step
  <2>2. RunHonest(r, a)
    BY <1>1, RunFacts, Stages DEF RunHonest, RunState, Before, Driving, Reviewing
  <2>. QED BY <1>1, <2>1, <2>2, RunFacts DEF Moves, EvidenceOf, RunState, After, Driving, Reviewing
<1>3. ASSUME NEW s \in {b, c} PROVE Moves(r, s) /\ EvidenceOf(s)
  <2>1. s \in RunState BY RunFacts DEF RunState, Step
  <2>2. RunHonest(r, s)
    BY <1>1, RunFacts DEF RunHonest, RunState, Before, Driving, Reviewing
  <2>. QED BY <1>1, <2>1, <2>2, RunFacts DEF Moves, EvidenceOf, RunState, After, Driving, Reviewing
<1>4. \/ Asks(r, a) \/ AsksInVain(r, b) \/ Asks(r, c) \/ AsksInVain(r, c)
  BY DEF SessionSeal, WorkspaceRelease
<1> HIDE DEF a, b, c
<1>. QED BY <1>2, <1>3, <1>4, GoesKeeps, VainKeeps

\* The deadline of a run passes, or its caller cancels it.
LEMMA ContextKeeps ==
    ASSUME WorkflowAssumption, Inv, NEW r \in Run, Expire(r) \/ Cancel(r) PROVE Inv'
<1> DEFINE s(why) == [run[r] EXCEPT !.ctx = why]
<1>1. PICK why \in {"expired", "cancelled"} :
        Goes(r, s(why)) /\ run[r].ctx # "expired"
  BY DEF Expire, Cancel
<1>2. s(why) \in RunState BY RunFacts DEF RunState
<1>3. RunHonest(r, s(why))
  BY RunFacts DEF RunHonest, RunState, DoneGate
<1>4. faults = 0 => EvidenceOf(s(why))
  BY <1>1, RunFacts DEF EvidenceOf, RunState
<1>5. Moves(r, s(why)) BY <1>2, <1>3, RunFacts DEF Moves, RunState
<1> HIDE DEF s
<1>. QED BY <1>1, <1>4, <1>5, GoesKeeps

\* An event of the run that the journal takes or not.
LEMMA AppendEventKeeps ==
    ASSUME WorkflowAssumption, Inv, NEW r \in Run, AppendEvent(r) PROVE Inv'
<1> DEFINE t == run[r].todo
           s == [run[r] EXCEPT !.todo = Tail(t)]
<1>1. t \in Seq(Stage) /\ t # <<>> BY RunFacts DEF AppendEvent, RunState
<1>2. /\ Tail(t) \in Seq(Stage) /\ \A i \in DOMAIN Tail(t) : Tail(t)[i] \in {t[j] : j \in DOMAIN t}
      /\ Head(t) \in Stage /\ 1 \in DOMAIN t /\ Head(t) = t[1]
  BY <1>1
<1>3. s \in RunState BY <1>2, RunFacts, ZenonT(30) DEF RunState
<1>4. RunHonest(r, s)
  BY <1>2, RunFacts DEF RunHonest, RunState, DoneGate
<1>5. faults = 0 => EvidenceOf(s) BY RunFacts DEF EvidenceOf, RunState
<1>6. Moves(r, s) BY <1>3, <1>4, RunFacts DEF Moves, RunState
<1>7. /\ Rank[task.status] >= Claims[Head(t)]
      /\ Head(t) = "SEALED" => s.outcome # "none"
  BY <1>2, RunFacts DEF RunHonest, RunState
<1>8. CASE AsksInVain(r, s)
  <2> HIDE DEF s
  <2>. QED BY <1>5, <1>6, <1>8, VainKeeps
<1>9. CASE Becomes(r, s) /\ stage' = Head(t) /\ UNCHANGED <<services, late, faults>>
  <2> HIDE DEF s
  <2>. QED BY <1>2, <1>5, <1>6, <1>7, <1>9, MovesKeeps
<1>. QED BY <1>8, <1>9 DEF AppendEvent

\* The work registry moves a task by one rank.
LEMMA Legal ==
    ASSUME Inv, NEW q \in [run : Run, op : Op, ver : Nat, result : Result],
           q.op \in Status, Effect(q)
    PROVE  /\ <<task.status, q.op>> \in {<<"PLANNED", "IN_PROGRESS">>,
                 <<"IN_PROGRESS", "IN_REVIEW">>, <<"IN_REVIEW", "DONE">>}
           /\ task' \in Task /\ task'.status = q.op /\ task'.version = task.version + 1
           /\ task'.wcVersion = task.wcVersion /\ task'.evidence = task.evidence
           /\ Rank[task'.status] >= Rank[task.status]
           /\ review' = review /\ q.ver = task.version
<1>1. q.op \in {"IN_PROGRESS", "IN_REVIEW", "DONE"} /\ q.op \notin Kind /\ q.op # "review"
  BY DEF Op, Kind, Status
<1>2. Accepts(q) /\ Transition(q)
  BY <1>1 DEF Effect, AttachEvidence, RequestReview
<1>3. task \in Task BY DEF Inv, TypeOK
<1>4. <<task.status, q.op>> \in {<<"PLANNED", "IN_PROGRESS">>,
         <<"IN_PROGRESS", "IN_REVIEW">>, <<"IN_REVIEW", "DONE">>}
  BY <1>1, <1>2 DEF Accepts, LegalTransition
<1>5. Rank[q.op] >= Rank[task.status] BY <1>4 DEF Rank
<1>6. q.ver = task.version BY <1>1, <1>2 DEF Accepts, VersionMatches, Status
<1>7. task' = [task EXCEPT !.status = q.op, !.version = task.version + 1] /\ review' = review
  BY <1>2 DEF Transition
<1>8. PICK t : t = [task EXCEPT !.status = q.op, !.version = task.version + 1] OBVIOUS
<1>9. /\ t \in Task /\ t.status = q.op /\ t.version = task.version + 1
      /\ t.wcVersion = task.wcVersion /\ t.evidence = task.evidence
  <2>1. task.version + 1 \in Nat /\ q.op \in Status BY <1>3 DEF Task
  <2>. QED BY <1>3, <1>8, <2>1 DEF Task
<1>. QED BY <1>4, <1>5, <1>6, <1>7, <1>8, <1>9

\* Evidence is attached.
LEMMA Attached ==
    ASSUME Inv, NEW q \in [run : Run, op : Op, ver : Nat, result : Result],
           q.op \in Kind, q.result # "none", Effect(q)
    PROVE  /\ task' \in Task /\ task'.status = task.status /\ task'.version = task.version
           /\ task'.wcVersion = task.wcVersion + 1 /\ review' = review
           /\ task'.evidence = task.evidence \cup {[run |-> q.run, kind |-> q.op, result |-> q.result]}
           /\ q.ver = task.wcVersion
<1>1. q.op \notin Status /\ q.op # "review" BY DEF Op, Kind, Status
<1>2. Accepts(q) /\ AttachEvidence(q)
  BY <1>1 DEF Effect, Transition, RequestReview
<1>3. task \in Task BY DEF Inv, TypeOK
<1>4. [run |-> q.run, kind |-> q.op, result |-> q.result] \in EvidenceRef
  BY DEF EvidenceRef, Result
<1>5. q.ver = task.wcVersion BY <1>2 DEF Accepts, VersionMatches
<1>6. PICK e : e = [run |-> q.run, kind |-> q.op, result |-> q.result] OBVIOUS
<1>7. PICK t : t = [task EXCEPT !.wcVersion = task.wcVersion + 1,
                                !.evidence = task.evidence \cup {e}]
  OBVIOUS
<1>8. /\ t \in Task /\ t.status = task.status /\ t.version = task.version
      /\ t.wcVersion = task.wcVersion + 1 /\ t.evidence = task.evidence \cup {e}
  <2>1. e \in EvidenceRef BY <1>4, <1>6
  <2>2. task.wcVersion + 1 \in Nat BY <1>3 DEF Task
  <2>3. task.evidence \cup {e} \in SUBSET EvidenceRef BY <1>3, <2>1 DEF Task
  <2>. QED BY <1>3, <1>7, <2>2, <2>3 DEF Task
<1>9. task' = t /\ review' = review BY <1>2, <1>6, <1>7 DEF AttachEvidence
<1>. QED BY <1>5, <1>6, <1>8, <1>9

\* A review is asked for.
LEMMA ReviewAsked ==
    ASSUME Inv, NEW q \in [run : Run, op : Op, ver : Nat, result : Result],
           q.op = "review", Effect(q)
    PROVE  /\ task' = task /\ review' = [review EXCEPT ![q.run] = Pending]
           /\ review' \in [Run -> Review] /\ Pending # NoReview
<1>1. q.op \notin Status /\ q.op \notin Kind BY DEF Kind, Status
<1>2. RequestReview(q) BY <1>1 DEF Effect, Transition, AttachEvidence
<1>3. Pending \in Review /\ Pending # NoReview BY DEF Pending, Review, NoReview
<1>. QED BY <1>2, <1>3 DEF RequestReview, Inv, TypeOK

\* A transition is answered and run r becomes s.
LEMMA TransitionKeeps ==
    ASSUME WorkflowAssumption, Inv, NEW r \in Run, NEW to \in {"IN_PROGRESS", "IN_REVIEW", "DONE"},
           NEW s \in RunState, Answered(r, Versioned(r, to, run[r].ver), s),
           run[r].pc \notin After, s.ver = run[r].ver + 1, s.wcVer = run[r].wcVer,
           s.drove, run[r].drove \/ to = "IN_PROGRESS",
           s.outcome = run[r].outcome \/ (s.outcome = "DONE" /\ to = "DONE"),
           to = "DONE" => s.pc \in After /\ DoneGate(s, review[r]),
           RunHonest(r, s)', faults = 0 => EvidenceOf(s)',
           to = "DONE" /\ faults = 0 => Left("build", "PASS") /\ Left("test", "PASS")
    PROVE  Inv'
<1> DEFINE q == Versioned(r, to, run[r].ver)
<1>1. q \in [run : Run, op : Op, ver : Nat, result : Result] /\ q.run = r /\ q.op = to
      /\ q.ver = run[r].ver /\ q.op \in Status
  BY RunFacts DEF Versioned, Request, Op, Result, RunState, Status
<1>2. Effect(q) /\ run' = [run EXCEPT ![r] = s] /\ UNCHANGED <<stage, late, faults>>
  BY DEF Answered, Becomes
<1> HIDE DEF q
<1>3. /\ <<task.status, to>> \in {<<"PLANNED", "IN_PROGRESS">>,
           <<"IN_PROGRESS", "IN_REVIEW">>, <<"IN_REVIEW", "DONE">>}
      /\ task' \in Task /\ task'.status = to /\ task'.version = task.version + 1
      /\ task'.wcVersion = task.wcVersion /\ task'.evidence = task.evidence
      /\ Rank[task'.status] >= Rank[task.status] /\ review' = review
      /\ run[r].ver = task.version
  BY <1>1, <1>2, Legal
<1>4. /\ run \in [Run -> RunState] /\ run' \in [Run -> RunState] /\ run'[r] = s
      /\ \A x \in Run : x # r => run'[x] = run[x]
  BY <1>2 DEF Inv, TypeOK
<1>5. TypeOK'
  <2>1. \A x \in Run : run'[x].ver <= task'.version /\ run'[x].wcVer <= task'.wcVersion
    <3>1. \A x \in Run : /\ run[x].ver <= task.version /\ run[x].wcVer <= task.wcVersion
                          /\ run[x].ver \in Nat /\ task.version \in Nat
      BY RunFacts DEF RunState
    <3>. QED BY <1>3, <1>4, <3>1
  <2>. QED BY <1>2, <1>3, <1>4, <2>1 DEF Inv, TypeOK
<1>6. Frame(r) BY <1>3, <1>4 DEF Frame
<1>7. Drives(r)
  <2>1. to = "IN_PROGRESS" => Drivers = {}
    BY <1>3, RunFacts DEF Drivers, RunHonest
  <2>. QED BY <1>3, <1>4, <2>1 DEF Drives
<1>8. Ends(r) BY <1>3, <1>4 DEF Ends
<1>9. Tells(r) BY <1>2 DEF Tells
<1>10. Asked(r)
  <2>1. ASSUME NEW x \in late, x.run = r PROVE Honest(x, run[x.run])'
    <3>1. Honest(x, run[r]) BY <2>1 DEF Inv
    <3>2. x.op \notin {"review", "DONE"} BY <3>1 DEF Honest
    <3>. QED BY <1>4, <2>1, <3>1, <3>2 DEF Honest
  <2>. QED BY <1>2, <2>1 DEF Asked
<1>11. Leaves(r)
  <2>1. faults \in Nat BY DEF Inv, TypeOK, WorkflowAssumption
  <2>2. faults = 0 => late = {} BY DEF Inv, EvidenceLeft
  <2>3. faults = 0 => EvidenceOf(run[r])' BY <1>4 DEF EvidenceOf
  <2>4. \A k, v : Left(k, v)' = Left(k, v) BY <1>3 DEF Left
  <2>. QED BY <1>2, <1>3, <2>1, <2>2, <2>3, <2>4 DEF Leaves
<1>12. RunHonest(r, run[r])' BY <1>4 DEF RunHonest
<1>. QED BY <1>5, <1>6, <1>7, <1>8, <1>9, <1>10, <1>11, <1>12, StepKeeps DEF RunStep

\* A transition that is not accepted, or whose request is lost or late.
LEMMA TransitionFailsKeeps ==
    ASSUME WorkflowAssumption, Inv, NEW r \in Run, NEW to \in {"IN_PROGRESS", "IN_REVIEW", "DONE"},
           run[r].pc \in Step \ After, run[r].todo = <<>>,
           run[r].pc \in Driving \cup Reviewing \/ to = "IN_PROGRESS",
           to = "DONE" => run[r].pc = "finish",
           Fails(r, Versioned(r, to, run[r].ver), Failing(run[r], "GATE_FAILED"))
    PROVE  Inv'
<1> DEFINE q == Versioned(r, to, run[r].ver)
           s == Failing(run[r], "GATE_FAILED")
<1>1. q \in [run : {r}, op : Op, ver : Nat, result : Result] /\ q.run = r /\ q.op = to
  BY RunFacts DEF Versioned, Request, Op, Result, RunState
<1>2. /\ Moves(r, s) /\ EvidenceOf(s) /\ s.pc \in After
      /\ s.build = run[r].build /\ s.test = run[r].test
  BY FailingMoves, RunFacts DEF Outcome, RunState
<1> HIDE DEF q, s
<1>3. Honest(q, s)
  BY <1>1, <1>2, RunFacts DEF Honest, Moves, RunHonest, DoneGate, Kind
<1>4. Fails(r, q, s) BY DEF q, s
<1>. QED BY <1>1, <1>2, <1>3, <1>4, FailsKeeps

\* The transition to IN_PROGRESS: one run of a task gets it, and drives.
LEMMA BeginKeeps == ASSUME WorkflowAssumption, Inv, NEW r \in Run, Begin(r) PROVE Inv'
<1> DEFINE q == Versioned(r, "IN_PROGRESS", run[r].ver)
<1>1. run[r].pc = "begin" /\ run[r].todo = <<>> BY DEF Begin, At
<1>2. ASSUME NEW a, a = [run[r] EXCEPT !.pc = "check", !.drove = TRUE],
             NEW s, s = [a EXCEPT !.ver = AnsweredVersion(a.ver)],
             Answered(r, q, s)
      PROVE  Inv'
  <2>1. /\ s \in RunState /\ s.pc = "check" /\ s.drove /\ s.ver = run[r].ver + 1
        /\ s.wcVer = run[r].wcVer /\ s.outcome = run[r].outcome /\ s.todo = <<>>
    <3>1. a \in RunState /\ a.ver = run[r].ver /\ a.wcVer = run[r].wcVer /\ a.pc = "check"
          /\ a.drove /\ a.outcome = run[r].outcome /\ a.todo = <<>>
      BY <1>1, <1>2, RunFacts DEF RunState, Step
    <3>2. run[r].ver + 1 \in Nat BY RunFacts DEF RunState
    <3>3. s = [a EXCEPT !.ver = run[r].ver + 1] BY <1>2, <3>1 DEF AnsweredVersion
    <3>. QED BY <3>1, <3>2, <3>3 DEF RunState
  <2>2. q \in [run : Run, op : Op, ver : Nat, result : Result] /\ q.op = "IN_PROGRESS"
        /\ q.op \in Status
    BY RunFacts DEF Versioned, Request, Op, Result, RunState, Status
  <2>3. Effect(q) BY <1>2 DEF Answered
  <2> HIDE DEF q
  <2>4. task.status = "PLANNED" /\ task'.status = "IN_PROGRESS" /\ review' = review
        /\ task'.wcVersion = task.wcVersion
    BY <2>2, <2>3, Legal
  <2>5. RunHonest(r, s)'
    BY <1>1, <2>1, <2>4, RunFacts DEF RunHonest, Before, Driving, Reviewing
  <2>6. faults = 0 => EvidenceOf(s)'
    <3>1. Drivers = {} BY <2>4, RunFacts DEF Drivers, RunHonest
    <3>2. faults = 0 => s.wcVer = task.wcVersion
      BY <1>1, <2>1, <3>1, RunFacts DEF EvidenceOf
    <3>. QED BY <2>1, <2>4, <3>2 DEF EvidenceOf, Driving, Reviewing
  <2>7. Answered(r, Versioned(r, "IN_PROGRESS", run[r].ver), s) BY <1>2 DEF q
  <2>. QED BY <1>1, <2>1, <2>5, <2>6, <2>7, TransitionKeeps DEF After
<1>3. CASE Fails(r, q, Failing(run[r], "GATE_FAILED"))
  BY <1>1, <1>3, TransitionFailsKeeps DEF Step, After
<1>4. PICK a, s : /\ a = [run[r] EXCEPT !.pc = "check", !.drove = TRUE]
                  /\ s = [a EXCEPT !.ver = AnsweredVersion(a.ver)]
  OBVIOUS
<1>5. Answered(r, q, s) \/ Fails(r, q, Failing(run[r], "GATE_FAILED"))
  BY <1>4 DEF Begin, WorkTransition
<1>. QED BY <1>2, <1>3, <1>4, <1>5

\* The transition to IN_REVIEW.
LEMMA SubmitKeeps == ASSUME WorkflowAssumption, Inv, NEW r \in Run, Submit(r) PROVE Inv'
<1> DEFINE q == Versioned(r, "IN_REVIEW", run[r].ver)
<1>1. run[r].pc = "submit" /\ run[r].todo = <<>> BY DEF Submit, At
<1>2. ASSUME NEW a, a = [run[r] EXCEPT !.pc = "request", !.todo = <<"REVIEW_REQUESTED">>],
             NEW s, s = [a EXCEPT !.ver = AnsweredVersion(a.ver)],
             Answered(r, q, s)
      PROVE  Inv'
  <2>1. /\ s \in RunState /\ s.pc = "request" /\ s.drove /\ s.ver = run[r].ver + 1
        /\ s.wcVer = run[r].wcVer /\ s.outcome = run[r].outcome /\ s.ctx = run[r].ctx
        /\ s.todo = <<"REVIEW_REQUESTED">> /\ s.build = run[r].build /\ s.test = run[r].test
    <3>1. /\ a \in RunState /\ a.ver = run[r].ver /\ a.wcVer = run[r].wcVer /\ a.pc = "request"
          /\ a.drove = run[r].drove /\ a.outcome = run[r].outcome /\ a.ctx = run[r].ctx
          /\ a.todo = <<"REVIEW_REQUESTED">> /\ a.build = run[r].build /\ a.test = run[r].test
      <4>1. <<"REVIEW_REQUESTED">> \in Seq(Stage) BY OneEvent, Stages
      <4>. QED BY <1>1, <1>2, <4>1, RunFacts DEF RunState, Step
    <3>2. run[r].ver + 1 \in Nat BY RunFacts DEF RunState
    <3>3. s = [a EXCEPT !.ver = run[r].ver + 1] BY <1>2, <3>1 DEF AnsweredVersion
    <3>4. run[r].drove BY <1>1, Reached DEF Driving
    <3>. QED BY <3>1, <3>2, <3>3, <3>4 DEF RunState
  <2>2. q \in [run : Run, op : Op, ver : Nat, result : Result] /\ q.op = "IN_REVIEW"
        /\ q.op \in Status
    BY RunFacts DEF Versioned, Request, Op, Result, RunState, Status
  <2>3. Effect(q) BY <1>2 DEF Answered
  <2> HIDE DEF q
  <2>4. task'.status = "IN_REVIEW" /\ review' = review
        /\ task'.wcVersion = task.wcVersion /\ task'.evidence = task.evidence
    BY <2>2, <2>3, Legal
  <2>5. RunHonest(r, s)'
    <3>1. Rank[task'.status] = 3 /\ Claims["REVIEW_REQUESTED"] = 3 BY <2>4, Stages DEF Rank
    <3>2. review[r] = NoReview BY <1>1, RunFacts DEF RunHonest, Driving
    <3>. QED BY <2>1, <2>4, <3>1, <3>2 DEF RunHonest, Before, Driving, Reviewing
  <2>6. faults = 0 => EvidenceOf(s)'
    BY <1>1, <2>1, <2>4, RunFacts DEF EvidenceOf, Driving, Reviewing, Left
  <2>7. Answered(r, Versioned(r, "IN_REVIEW", run[r].ver), s) BY <1>2 DEF q
  <2>8. run[r].drove BY <1>1, Reached DEF Driving
  <2>. QED BY <1>1, <2>1, <2>5, <2>6, <2>7, <2>8, TransitionKeeps DEF After
<1>3. CASE Fails(r, q, Failing(run[r], "GATE_FAILED"))
  BY <1>1, <1>3, TransitionFailsKeeps DEF Step, After, Driving
<1>4. PICK a, s : /\ a = [run[r] EXCEPT !.pc = "request", !.todo = <<"REVIEW_REQUESTED">>]
                  /\ s = [a EXCEPT !.ver = AnsweredVersion(a.ver)]
  OBVIOUS
<1>5. Answered(r, q, s) \/ Fails(r, q, Failing(run[r], "GATE_FAILED"))
  BY <1>4 DEF Submit, WorkTransition
<1>. QED BY <1>2, <1>3, <1>4, <1>5

\* The transition to DONE, by a run that is through the gate.
LEMMA FinishKeeps == ASSUME WorkflowAssumption, Inv, NEW r \in Run, Finish(r) PROVE Inv'
<1> DEFINE q == Versioned(r, "DONE", run[r].ver)
<1>1. /\ run[r].pc = "finish" /\ run[r].todo = <<>> /\ run[r].drove
      /\ DoneGate(run[r], review[r])
  BY Reached, RunFacts DEF Finish, At, Reviewing, RunHonest
<1>2. ASSUME NEW a, a = [run[r] EXCEPT !.pc = "seal", !.outcome = "DONE", !.todo = <<"DONE">>],
             NEW s, s = [a EXCEPT !.ver = AnsweredVersion(a.ver)],
             Answered(r, q, s)
      PROVE  Inv'
  <2>1. /\ s \in RunState /\ s.pc = "seal" /\ s.drove /\ s.ver = run[r].ver + 1
        /\ s.wcVer = run[r].wcVer /\ s.outcome = "DONE"
        /\ s.todo = <<"DONE">> /\ s.build = run[r].build /\ s.test = run[r].test
    <3>1. /\ a \in RunState /\ a.ver = run[r].ver /\ a.wcVer = run[r].wcVer /\ a.pc = "seal"
          /\ a.drove = run[r].drove /\ a.outcome = "DONE"
          /\ a.todo = <<"DONE">> /\ a.build = run[r].build /\ a.test = run[r].test
      <4>1. <<"DONE">> \in Seq(Stage) BY OneEvent, Stages
      <4>. QED BY <1>1, <1>2, <4>1, RunFacts, ZenonT(30) DEF RunState, Step, Outcome
    <3>2. run[r].ver + 1 \in Nat BY RunFacts DEF RunState
    <3>3. s = [a EXCEPT !.ver = run[r].ver + 1] BY <1>2, <3>1 DEF AnsweredVersion
    <3>. QED BY <1>1, <3>1, <3>2, <3>3 DEF RunState
  <2>2. q \in [run : Run, op : Op, ver : Nat, result : Result] /\ q.op = "DONE"
        /\ q.op \in Status
    BY RunFacts DEF Versioned, Request, Op, Result, RunState, Status
  <2>3. Effect(q) /\ run[r].ctx # "expired" BY <1>2 DEF Answered, CanSend
  <2> HIDE DEF q
  <2>4. task'.status = "DONE" /\ review' = review BY <2>2, <2>3, Legal
  <2>5. RunHonest(r, s)'
    <3>1. Rank[task'.status] = 4 /\ Claims["DONE"] = 4 BY <2>4, Stages DEF Rank
    <3>. QED BY <2>1, <2>4, <3>1 DEF RunHonest, Before, Driving, Reviewing
  <2>6. faults = 0 => EvidenceOf(s)'
    BY <2>1 DEF EvidenceOf, Driving, Reviewing
  <2>7. Answered(r, Versioned(r, "DONE", run[r].ver), s) BY <1>2 DEF q
  <2>8. DoneGate(s, review[r]) BY <1>1, <2>1 DEF DoneGate
  <2>9. faults = 0 => Left("build", "PASS") /\ Left("test", "PASS")
    BY <1>1, <2>3, RunFacts DEF EvidenceOf, Driving, Reviewing, DoneGate
  <2>. QED BY <1>1, <2>1, <2>5, <2>6, <2>7, <2>8, <2>9, TransitionKeeps DEF After
<1>3. CASE Fails(r, q, Failing(run[r], "GATE_FAILED"))
  BY <1>1, <1>3, TransitionFailsKeeps DEF Step, After, Reviewing
<1>4. PICK a, s : /\ a = [run[r] EXCEPT !.pc = "seal", !.outcome = "DONE", !.todo = <<"DONE">>]
                  /\ s = [a EXCEPT !.ver = AnsweredVersion(a.ver)]
  OBVIOUS
<1>5. Answered(r, q, s) \/ Fails(r, q, Failing(run[r], "GATE_FAILED"))
  BY <1>4 DEF Finish, WorkTransition
<1>. QED BY <1>2, <1>3, <1>4, <1>5

\* An effect without a transition, by a run r that has driven the task, which becomes s.
LEMMA EffectKeeps ==
    ASSUME WorkflowAssumption, Inv, NEW r \in Run, NEW s \in RunState, Becomes(r, s),
           UNCHANGED <<stage, late, faults>>, run[r].drove, run[r].pc \in Driving \cup Reviewing,
           task' \in Task, task'.status = task.status, task'.version = task.version,
           task'.wcVersion >= task.wcVersion, task.evidence \subseteq task'.evidence,
           \A ev \in task'.evidence : ev \in task.evidence \/ ev.run = r,
           review' \in [Run -> Review], \A x \in Run : x # r => review'[x] = review[x],
           s.drove, s.outcome = run[r].outcome, s.ver = run[r].ver, s.wcVer <= task'.wcVersion,
           task.status = "DONE" => review' = review,
           RunHonest(r, s)', faults = 0 => EvidenceOf(s)'
    PROVE  Inv'
<1>1. /\ run \in [Run -> RunState] /\ run' \in [Run -> RunState] /\ run'[r] = s
      /\ \A x \in Run : x # r => run'[x] = run[x]
  BY DEF Becomes, Inv, TypeOK
<1>2. TypeOK'
  <2>1. \A x \in Run : run'[x].ver <= task'.version /\ run'[x].wcVer <= task'.wcVersion
    <3>1. \A x \in Run : /\ run[x].ver <= task.version /\ run[x].wcVer <= task.wcVersion
                          /\ run[x].wcVer \in Nat /\ task.wcVersion \in Nat
      BY RunFacts DEF RunState
    <3>2. task'.wcVersion \in Nat BY DEF Task
    <3>. QED BY <1>1, <3>1, <3>2
  <2>. QED BY <1>1, <2>1 DEF Inv, TypeOK
<1>3. Frame(r) BY <1>1 DEF Frame
<1>4. Drives(r)
  <2>1. Rank[task'.status] >= Rank[task.status] BY RunFacts
  <2>. QED BY <1>1, <2>1 DEF Drives, Inv
<1>5. Ends(r) BY <1>1 DEF Ends, Driving, Reviewing, After
<1>6. Tells(r) BY DEF Tells
<1>7. Asked(r)
  <2>1. ASSUME NEW x \in late, x.run = r PROVE Honest(x, run[x.run])'
    <3>1. Honest(x, run[r]) BY <2>1 DEF Inv
    <3>2. x.op \notin {"review", "DONE"} BY <3>1 DEF Honest, Driving, Reviewing, After
    <3>. QED BY <1>1, <2>1, <3>1, <3>2 DEF Honest
  <2>. QED BY <2>1 DEF Asked
<1>8. Leaves(r)
  <2>1. faults \in Nat BY DEF Inv, TypeOK, WorkflowAssumption
  <2>2. faults = 0 => late = {} BY DEF Inv, EvidenceLeft
  <2>3. faults = 0 => EvidenceOf(run[r])' BY <1>1 DEF EvidenceOf
  <2>4. r \in Drivers BY DEF Drivers
  <2>. QED BY <2>1, <2>2, <2>3, <2>4 DEF Leaves
<1>9. RunHonest(r, run[r])' BY <1>1 DEF RunHonest
<1>. QED BY <1>2, <1>3, <1>4, <1>5, <1>6, <1>7, <1>8, <1>9, StepKeeps DEF RunStep

\* The evidence of the build and of the tests.
LEMMA AttachKeeps ==
    ASSUME WorkflowAssumption, Inv, NEW r \in Run,
           NEW step, NEW kind, NEW next, Attach(r, step, kind, next),
           <<step, kind, next>> \in {<<"attachBuild", "build", "test">>,
                                     <<"attachTest", "test", "submit">>}
    PROVE  Inv'
<1>1. run[r].pc = step /\ run[r].todo = <<>> BY DEF Attach, At
<1>2. PICK q, s : /\ q = [Versioned(r, kind, run[r].wcVer) EXCEPT !.result = run[r][kind]]
                  /\ s = [run[r] EXCEPT !.pc = next]
  OBVIOUS
<1>3. /\ q \in [run : {r}, op : Op, ver : Nat, result : Result] /\ q.run = r /\ q.op = kind
      /\ q.ver = run[r].wcVer /\ q.result = run[r][kind] /\ kind \in Kind
      /\ run[r][kind] \in {"PASS", "FAIL"} /\ kind \notin Status
      /\ q \in [run : Run, op : Op, ver : Nat, result : Result]
  <2>1. run[r].wcVer \in Nat /\ run[r].build \in Result /\ run[r].test \in Result
    BY RunFacts DEF RunState
  <2>2. run[r][kind] \in {"PASS", "FAIL"} BY <1>1, <2>1, RunFacts DEF RunHonest, Result
  <2>3. Versioned(r, kind, run[r].wcVer) = [run |-> r, op |-> kind, ver |-> run[r].wcVer, result |-> "none"]
    BY DEF Versioned, Request
  <2>. QED BY <1>2, <2>1, <2>2, <2>3 DEF Op, Kind, Result, Status
<1>4. /\ s \in RunState /\ s.pc = next /\ s.todo = <<>> /\ s.drove = run[r].drove
      /\ s.ver = run[r].ver /\ s.wcVer = run[r].wcVer /\ s.outcome = run[r].outcome
      /\ s.ctx = run[r].ctx /\ s.build = run[r].build /\ s.test = run[r].test
  BY <1>1, <1>2, RunFacts DEF RunState, Step
<1>5. run[r].drove /\ run[r].pc \in Driving BY <1>1, Reached DEF Driving
<1>6. RunHonest(r, s)
  BY <1>1, <1>4, <1>5, RunFacts DEF RunHonest, Before, Driving, Reviewing
<1>7. CASE Fails(r, q, s)
  <2>1. Moves(r, s)
    BY <1>1, <1>4, <1>6, RunFacts DEF Moves, After
  <2>2. Honest(q, s) BY <1>3, <1>4, <1>5 DEF Honest, Kind
  <2>3. faults = 0 /\ (run[r].ctx = "expired" \/ ~ Accepts(q)) => EvidenceOf(s)
    <3>1. faults = 0 /\ run[r].ctx # "expired" => run[r].wcVer = task.wcVersion
      BY <1>5, RunFacts DEF EvidenceOf
    <3>2. faults = 0 /\ run[r].ctx # "expired" => Accepts(q)
      BY <1>3, <3>1 DEF Accepts, VersionMatches
    <3>3. run[r].ctx = "expired" => EvidenceOf(s)
      BY <1>4, <1>1 DEF EvidenceOf
    <3>. QED BY <3>2, <3>3
  <2>. QED BY <1>3, <1>7, <2>1, <2>2, <2>3, FailsKeeps
<1>8. CASE Answered(r, q, NewVersion(s))
  <2>1. PICK t : t = NewVersion(s) OBVIOUS
  <2>2. /\ t \in RunState /\ t.pc = next /\ t.todo = <<>> /\ t.drove = run[r].drove
        /\ t.ver = run[r].ver /\ t.wcVer = run[r].wcVer + 1 /\ t.outcome = run[r].outcome
        /\ t.ctx = run[r].ctx /\ t.build = run[r].build /\ t.test = run[r].test
    <3>1. run[r].wcVer + 1 \in Nat BY RunFacts DEF RunState
    <3>2. t = [s EXCEPT !.wcVer = run[r].wcVer + 1] BY <1>4, <2>1 DEF NewVersion
    <3>. QED BY <1>4, <3>1, <3>2 DEF RunState
  <2>3. Effect(q) /\ Becomes(r, t) /\ UNCHANGED <<stage, late, faults>> /\ run[r].ctx # "expired"
    BY <1>8, <2>1 DEF Answered, CanSend
  <2>4. /\ task' \in Task /\ task'.status = task.status /\ task'.version = task.version
        /\ task'.wcVersion = task.wcVersion + 1 /\ review' = review
        /\ task'.evidence = task.evidence \cup {[run |-> r, kind |-> kind, result |-> run[r][kind]]}
        /\ run[r].wcVer = task.wcVersion
    BY <1>3, <2>3, Attached
  <2>5. RunHonest(r, t)'
    BY <1>4, <1>6, <2>2, <2>4 DEF RunHonest, DoneGate
  <2>6. faults = 0 => EvidenceOf(t)'
    <3> DEFINE e == [run |-> r, kind |-> kind, result |-> run[r][kind]]
    <3>1. \A v : v = run[r][kind] => Left(kind, v)'
      <4>1. e.kind = kind /\ e.result = run[r][kind] /\ e \in task'.evidence BY <2>4
      <4>. QED BY <4>1 DEF Left
    <3>2. \A k, v : Left(k, v) => Left(k, v)' BY <2>4 DEF Left
    <3>3. kind = "test" /\ faults = 0 => Left("build", run[r].build)
      BY <1>1, <2>3, RunFacts DEF EvidenceOf, Driving
    <3>4. t.wcVer = task'.wcVersion BY <2>2, <2>4
    <3>5. Left(kind, IF kind = "build" THEN t.build ELSE t.test)' BY <2>2, <3>1
    <3>6. kind = "test" /\ faults = 0 => Left("build", t.build)' BY <2>2, <3>2, <3>3
    <3>. QED BY <1>1, <2>2, <3>4, <3>5, <3>6 DEF EvidenceOf, Driving, Reviewing
  <2>7. /\ task'.wcVersion >= task.wcVersion /\ t.wcVer <= task'.wcVersion
        /\ task.evidence \subseteq task'.evidence
        /\ \A ev \in task'.evidence : ev \in task.evidence \/ ev.run = r
    <3>1. task.wcVersion \in Nat BY RunFacts
    <3>. QED BY <2>2, <2>4, <3>1
  <2>8. review' \in [Run -> Review] BY <2>4 DEF Inv, TypeOK
  <2>9. run[r].pc \in Driving \cup Reviewing /\ t.drove BY <1>5, <2>2
  <2>. QED BY <1>5, <2>2, <2>3, <2>4, <2>5, <2>6, <2>7, <2>8, <2>9, EffectKeeps
<1>. QED BY <1>2, <1>7, <1>8 DEF Attach

\* review.request, which a run sends once.
LEMMA ReviewRequestKeeps ==
    ASSUME WorkflowAssumption, Inv, NEW r \in Run, ReviewRequest(r) PROVE Inv'
<1>1. run[r].pc = "request" /\ run[r].todo = <<>> BY DEF ReviewRequest, At
<1>2. PICK q, a, b : /\ q = Request(r, "review") /\ b = Failing(run[r], "GATE_FAILED")
                     /\ a = [run[r] EXCEPT !.pc = "poll", !.todo = <<"WAITING_REVIEW">>]
  OBVIOUS
<1>3. /\ q \in [run : {r}, op : Op, ver : Nat, result : Result] /\ q.run = r /\ q.op = "review"
      /\ q \in [run : Run, op : Op, ver : Nat, result : Result]
  BY <1>2 DEF Request, Op, Result
<1>4. CASE Fails(r, q, b)
  <2>1. Moves(r, b) /\ EvidenceOf(b) /\ b.pc \in After
    BY <1>1, <1>2, RunFacts, FailingMoves DEF Outcome, After, Step, RunState
  <2>2. Honest(q, b)
    <3>1. b.drove BY <1>1, <2>1, Reached DEF Moves, Reviewing
    <3>2. review[r] = NoReview BY <1>1, RunFacts DEF RunHonest
    <3>. QED BY <1>2, <1>3, <2>1, <3>1, <3>2 DEF Honest, Kind
  <2>. QED BY <1>3, <1>4, <2>1, <2>2, FailsKeeps
<1>5. CASE Answered(r, q, a)
  <2>1. /\ a \in RunState /\ a.pc = "poll" /\ a.todo = <<"WAITING_REVIEW">>
        /\ a.drove = run[r].drove /\ a.ver = run[r].ver /\ a.wcVer = run[r].wcVer
        /\ a.outcome = run[r].outcome /\ a.ctx = run[r].ctx
        /\ a.build = run[r].build /\ a.test = run[r].test
    <3>1. <<"WAITING_REVIEW">> \in Seq(Stage) BY OneEvent, Stages
    <3>. QED BY <1>2, <3>1, RunFacts DEF RunState, Step
  <2>2. Effect(q) /\ Becomes(r, a) /\ UNCHANGED <<stage, late, faults>>
    BY <1>5 DEF Answered
  <2>3. task' = task /\ review' = [review EXCEPT ![r] = Pending] /\ review' \in [Run -> Review]
    BY <1>3, <2>2, ReviewAsked
  <2>4. run[r].drove /\ Rank[task.status] >= 3 /\ run[r].pc \in Reviewing
    BY <1>1, Reached DEF Reviewing
  <2>5. RunHonest(r, a)'
    BY <1>1, <2>1, <2>3, <2>4, RunFacts, Stages DEF RunHonest, Before, Driving, Reviewing
  <2>6. faults = 0 => EvidenceOf(a)'
    BY <1>1, <2>1, <2>3, RunFacts DEF EvidenceOf, Driving, Reviewing, Left
  <2>7. task.status # "DONE"
    <3>1. ASSUME task.status = "DONE" PROVE FALSE
      <4>1. PICK x \in Run : run[x].pc \in After /\ DoneGate(run[x], review[x])
        BY <3>1 DEF Inv, Gated
      <4>2. review[x] # NoReview BY <4>1 DEF DoneGate, NoReview
      <4>3. x \in Drivers /\ r \in Drivers BY <2>4, <4>2 DEF Inv, Traces, Drivers
      <4>4. x = r BY <4>3 DEF Inv, Traces
      <4>. QED BY <1>1, <4>1, <4>4 DEF After
    <3>. QED BY <3>1
  <2>8. \A x \in Run : x # r => review'[x] = review[x] BY <2>3 DEF Inv, TypeOK
  <2>9. /\ task' \in Task /\ task'.wcVersion >= task.wcVersion /\ a.wcVer <= task'.wcVersion
        /\ a.drove /\ run[r].pc \in Driving \cup Reviewing
    BY <2>1, <2>3, <2>4, RunFacts
  <2>. QED BY <2>1, <2>2, <2>3, <2>4, <2>5, <2>6, <2>7, <2>8, <2>9, EffectKeeps
<1>. QED BY <1>2, <1>4, <1>5 DEF ReviewRequest

\* A request arrives when its caller has given up.
LEMMA ArriveLateKeeps ==
    ASSUME WorkflowAssumption, Inv, NEW q \in late, ArriveLate(q)
    PROVE  Inv'
<1>1. q \in [run : Run, op : Op, ver : Nat, result : Result] /\ Honest(q, run[q.run])
  BY DEF Inv, TypeOK
<1>2. Effect(q) /\ late' = late \ {q} /\ UNCHANGED <<stage, faults, run>> BY DEF ArriveLate
<1>3. PICK r \in Run : r = q.run BY <1>1
<1>4. run' = run /\ run[r] \in RunState /\ RunHonest(r, run[r]) BY <1>2, RunFacts
<1>5. faults # 0 /\ faults \in Nat BY DEF Inv, EvidenceLeft, TypeOK, WorkflowAssumption
<1>6. /\ task' \in Task /\ review' \in [Run -> Review] /\ Rank[task'.status] >= Rank[task.status]
      /\ task'.version >= task.version /\ task'.wcVersion >= task.wcVersion
      /\ task.evidence \subseteq task'.evidence
      /\ \A ev \in task'.evidence : ev \in task.evidence \/ (ev.run = r /\ run[r].drove)
      /\ task'.status \in {task.status, "IN_PROGRESS", "IN_REVIEW", "DONE"}
      /\ task'.status = "DONE" => task.status = "DONE" \/ q.op = "DONE"
      /\ review' = review \/ (q.op = "review" /\ review' = [review EXCEPT ![r] = Pending])
  <2>1. task.version \in Nat /\ task.wcVersion \in Nat /\ Rank[task.status] \in 1 .. 4
        /\ task \in Task /\ review \in [Run -> Review]
    BY <1>4, RunFacts DEF Inv, TypeOK
  <2>2. CASE q.op \in Kind
    <3>1. q.op # "IN_PROGRESS" /\ q.result # "none" BY <1>1, <2>2 DEF Honest, Kind
    <3>. QED BY <1>1, <1>2, <1>3, <2>1, <2>2, <3>1, Attached DEF Honest
  <2>3. CASE q.op = "review"
    BY <1>1, <1>2, <1>3, <2>1, <2>3, ReviewAsked
  <2>4. CASE q.op \in {"IN_PROGRESS", "IN_REVIEW", "DONE"}
    <3>1. q.op \in Status BY <2>4 DEF Status
    <3>2. /\ task' \in Task /\ task'.status = q.op /\ task'.version = task.version + 1
          /\ task'.wcVersion = task.wcVersion /\ task'.evidence = task.evidence
          /\ Rank[task'.status] >= Rank[task.status] /\ review' = review
      BY <1>1, <1>2, <3>1, Legal
    <3>. QED BY <2>1, <2>4, <3>2
  <2>. QED BY <1>1, <2>2, <2>3, <2>4 DEF Op
<1>7. TypeOK'
  <2>1. \A x \in Run : run'[x].ver <= task'.version /\ run'[x].wcVer <= task'.wcVersion
    <3>1. \A x \in Run : /\ run[x].ver <= task.version /\ run[x].wcVer <= task.wcVersion
                         /\ run[x].ver \in Nat /\ run[x].wcVer \in Nat
                         /\ task.version \in Nat /\ task.wcVersion \in Nat
      BY RunFacts DEF RunState
    <3>2. task'.version \in Nat /\ task'.wcVersion \in Nat BY <1>6 DEF Task
    <3>. QED BY <1>4, <1>6, <3>1, <3>2
  <2>. QED BY <1>2, <1>6, <2>1 DEF Inv, TypeOK
<1>8. Frame(r)
  BY <1>4, <1>6 DEF Frame, Inv, TypeOK
<1>9. q.op = "review" => /\ run[r].drove /\ run[r].pc \in After /\ review[r] = NoReview
                         /\ q = Request(r, "review")
  BY <1>1, <1>3 DEF Honest
<1>10. Drives(r)
  <2>1. task'.status # "FAILED" BY <1>6 DEF Inv
  <2>2. review'[r] # NoReview => run[r].drove
    <3>1. review[r] # NoReview => run[r].drove BY DEF Inv, Traces, Drivers
    <3>. QED BY <1>6, <1>9, <3>1
  <2>. QED BY <1>4, <1>6, <2>1, <2>2 DEF Drives
<1>11. DoneGate(run[r], review[r]) => review' = review
  BY <1>6, <1>9 DEF DoneGate, NoReview
<1>12. Ends(r)
  <2>1. q.op = "DONE" => run[r].pc \in After /\ DoneGate(run[r], review[r])
    BY <1>1, <1>3 DEF Honest
  <2>. QED BY <1>4, <1>6, <1>11, <2>1 DEF Ends
<1>13. Tells(r) BY <1>2 DEF Tells
<1>14. RunHonest(r, run[r])'
  <2>1. /\ task.status # "PLANNED" => task'.status # "PLANNED"
        /\ task.status \in {"IN_REVIEW", "DONE"} => task'.status \in {"IN_REVIEW", "DONE"}
        /\ Rank[task.status] \in Nat /\ Rank[task'.status] \in Nat
    <3>1. task.status \in Status \ {"FAILED"} /\ task'.status \in Status \ {"FAILED"}
      BY <1>6 DEF Inv, TypeOK, Task
    <3>. QED BY <1>6, <3>1, Ranks
  <2>2. \A i \in DOMAIN run[r].todo : Claims[run[r].todo[i]] \in 1 .. 4
    BY <1>4, ClaimsType DEF RunState
  <2>3. CASE review' = review
    BY <1>4, <1>6, <2>1, <2>2, <2>3 DEF RunHonest
  <2>4. CASE review' # review
    <3>1. run[r].pc \in After BY <1>6, <1>9, <2>4
    <3>. QED BY <1>4, <1>6, <2>1, <2>2, <3>1 DEF RunHonest, Before, Driving, Reviewing, After
  <2>. QED BY <2>3, <2>4
<1>15. Asked(r)
  <2>1. ASSUME NEW x \in late', x.run = r PROVE Honest(x, run[x.run])'
    <3>1. x \in late /\ x # q /\ Honest(x, run[r]) BY <1>2, <2>1 DEF Inv
    <3>2. CASE review' = review BY <1>4, <2>1, <3>1, <3>2 DEF Honest
    <3>3. CASE review' # review
      <4>1. q = Request(r, "review") /\ review[r] = NoReview BY <1>6, <1>9, <3>3
      <4>2. x.op # "review" BY <2>1, <3>1, <4>1 DEF Honest
      <4>3. x.op # "DONE" BY <2>1, <3>1, <4>1 DEF Honest, DoneGate, NoReview
      <4>. QED BY <1>4, <2>1, <3>1, <4>2, <4>3 DEF Honest
    <3>. QED BY <3>2, <3>3
  <2>. QED BY <1>2, <2>1 DEF Asked
<1>16. Leaves(r) BY <1>2, <1>5 DEF Leaves
<1>. QED BY <1>7, <1>8, <1>10, <1>12, <1>13, <1>14, <1>15, <1>16, StepKeeps DEF RunStep

\* The reviewer decides on a review, once.
LEMMA DecideKeeps ==
    ASSUME WorkflowAssumption, Inv, NEW r \in Run, NEW v \in Decision, Decide(r, v)
    PROVE  Inv'
<1>1. /\ review[r].status = "PENDING" /\ review' = [review EXCEPT ![r] = v]
      /\ UNCHANGED <<task, stage, late, faults, run>> /\ v \in Review
  BY DEF Decide, Decision
<1>2. review[r] # NoReview /\ ~ DoneGate(run[r], review[r])
  BY <1>1 DEF NoReview, DoneGate
<1>3. run[r].drove BY <1>2 DEF Inv, Traces, Drivers
<1>4. TypeOK' BY <1>1 DEF Inv, TypeOK
<1>5. Frame(r) BY <1>1 DEF Frame, Inv, TypeOK
<1>6. Drives(r) BY <1>1, <1>3, RunFacts DEF Drives, Inv
<1>7. Ends(r) BY <1>1, <1>2 DEF Ends
<1>8. Tells(r) BY <1>1 DEF Tells
<1>9. RunHonest(r, run[r])' BY <1>1, <1>2, RunFacts DEF RunHonest
<1>10. Asked(r)
  <2>1. ASSUME NEW x \in late, x.run = r PROVE Honest(x, run[x.run])'
    <3>1. Honest(x, run[r]) BY <2>1 DEF Inv
    <3>. QED BY <1>1, <1>2, <2>1, <3>1 DEF Honest
  <2>. QED BY <1>1, <2>1 DEF Asked
<1>11. Leaves(r)
  <2>1. faults \in Nat BY DEF Inv, TypeOK, WorkflowAssumption
  <2>2. faults = 0 => late = {} /\ EvidenceOf(run[r]) BY DEF Inv, EvidenceLeft
  <2>3. EvidenceOf(run[r])' <=> EvidenceOf(run[r]) BY <1>1 DEF EvidenceOf, Drivers, Left
  <2>. QED BY <1>1, <2>1, <2>2, <2>3 DEF Leaves
<1>. QED BY <1>4, <1>5, <1>6, <1>7, <1>8, <1>9, <1>10, <1>11, StepKeeps DEF RunStep

\* The workflow plugin dies.
LEMMA CrashKeeps == ASSUME WorkflowAssumption, Inv, Crash PROVE Inv'
<1>1. /\ UNCHANGED <<task, review, stage, late, faults>>
      /\ run' = [r \in Run |-> IF run[r].pc \in Step THEN [run[r] EXCEPT !.pc = "dead"] ELSE run[r]]
  BY DEF Crash, services
<1>2. ASSUME NEW r \in Run
      PROVE  /\ run'[r] \in RunState /\ run'[r].pc \in After \cup {"idle"}
             /\ run'[r].pc = run[r].pc \/ run'[r].pc = "dead"
             /\ run[r].pc \in After => run'[r].pc \in After
             /\ run'[r].drove = run[r].drove /\ run'[r].ver = run[r].ver
             /\ run'[r].wcVer = run[r].wcVer /\ run'[r].todo = run[r].todo
             /\ run'[r].outcome = run[r].outcome /\ run'[r].build = run[r].build
             /\ run'[r].test = run[r].test /\ run'[r].ctx = run[r].ctx
  <2>1. run[r] \in RunState BY DEF Inv, TypeOK
  <2>2. CASE run[r].pc \in Step
    <3>1. run'[r] = [run[r] EXCEPT !.pc = "dead"] BY <1>1, <2>2
    <3>. QED BY <2>1, <3>1 DEF RunState, After
  <2>3. CASE run[r].pc \notin Step
    <3>1. run'[r] = run[r] BY <1>1, <2>3
    <3>. QED BY <2>1, <2>3, <3>1 DEF RunState, After
  <2>. QED BY <2>2, <2>3
<1>3. Drivers' = Drivers BY <1>2 DEF Drivers
<1>4. TypeOK'
  <2>1. run' \in [Run -> RunState] BY <1>1, <1>2
  <2>. QED BY <1>1, <1>2, <2>1 DEF Inv, TypeOK
<1>5. OneDriver' /\ DoneIsDone' BY <1>1, <1>2 DEF Inv, OneDriver, DoneIsDone
<1>6. ASSUME NEW r \in Run PROVE RunHonest(r, run[r])'
  <2>1. RunHonest(r, run[r]) BY DEF Inv
  <2>. QED BY <1>1, <1>2, <2>1 DEF RunHonest, Before, Driving, Reviewing, After
<1>7. ASSUME NEW q \in late' PROVE Honest(q, run[q.run])'
  <2>1. q.run \in Run /\ Honest(q, run[q.run]) BY <1>1 DEF Inv, TypeOK
  <2>. QED BY <1>1, <1>2, <2>1 DEF Honest, DoneGate
<1>8. Gated' BY <1>1, <1>2 DEF Inv, Gated, DoneGate
<1>9. Traces' BY <1>1, <1>3 DEF Inv, Traces
<1>10. EvidenceLeft'
  <2>1. \A r \in Run : EvidenceOf(run[r])'
    BY <1>2 DEF EvidenceOf, Driving, Reviewing, After
  <2>. QED BY <1>1, <1>3, <2>1 DEF Inv, EvidenceLeft
<1>11. EvidenceBehindDone' BY <1>1 DEF Inv, EvidenceBehindDone
<1>12. task'.status # "FAILED" BY <1>1 DEF Inv
<1>. QED BY <1>4, <1>5, <1>6, <1>7, <1>8, <1>9, <1>10, <1>11, <1>12 DEF Inv

\* A task is planned and no run has begun.
LEMMA Initially == ASSUME WorkflowAssumption, Init PROVE Inv
<1>1. /\ task = [status |-> "PLANNED", version |-> 1, wcVersion |-> 1, evidence |-> {}]
      /\ stage = "CREATED" /\ late = {} /\ faults = 0
      /\ review = [r \in Run |-> NoReview] /\ run = [r \in Run |-> NewRun]
  BY DEF Init
<1>2. TypeOK
  <2>1. NewRun \in RunState /\ NewRun.ver = 0 /\ NewRun.wcVer = 0
    <3>1. <<>> \in Seq(Stage) OBVIOUS
    <3>. QED BY <3>1 DEF NewRun, RunState, Result, Outcome
  <2>2. NoReview \in Review BY DEF NoReview, Review
  <2>3. task \in Task BY <1>1 DEF Task, Status
  <2>. QED BY <1>1, <2>1, <2>2, <2>3 DEF TypeOK, Stage, WorkflowAssumption
<1>3. OneDriver /\ DoneIsDone BY <1>1 DEF OneDriver, DoneIsDone, NewRun
<1>4. \A r \in Run : RunHonest(r, run[r])
  BY <1>1 DEF RunHonest, NewRun, Before, Driving, Reviewing
<1>5. Gated
  <2>1. Rank[task.status] = 1 /\ Claims[stage] = 1 BY <1>1 DEF Rank, Claims, Stage
  <2>. QED BY <1>1, <2>1 DEF Gated
<1>6. Traces BY <1>1 DEF Traces, Drivers, NewRun
<1>7. EvidenceLeft BY <1>1 DEF EvidenceLeft, EvidenceOf, NewRun, Driving, Reviewing
<1>8. EvidenceBehindDone BY <1>1 DEF EvidenceBehindDone
<1>. QED BY <1>1, <1>2, <1>3, <1>4, <1>5, <1>6, <1>7, <1>8 DEF Inv

\* Every step keeps the invariant.
LEMMA NextKeeps == ASSUME WorkflowAssumption, Inv, [Next]_vars PROVE Inv'
<1>1. ASSUME NEW r \in Run, Start(r) \/ Proceed(r) \/ Expire(r) \/ Cancel(r) PROVE Inv'
  BY <1>1, StartKeeps, AllocateKeeps, BeginKeeps, CheckDeadlineKeeps, AgentRunKeeps,
     CollectDiffKeeps, BuildKeeps, TestKeeps, AttachKeeps, SubmitKeeps, ReviewRequestKeeps,
     PollReviewKeeps, ReviewGetKeeps, FinishKeeps, CleanupKeeps, AppendEventKeeps, ContextKeeps
     DEF Proceed
<1>2. CASE UNCHANGED vars
  <2>1. UNCHANGED <<task, review, stage, late, faults, run>> BY <1>2 DEF vars, services
  <2>2. Drivers' = Drivers BY <2>1 DEF Drivers
  <2>3. \A r \in Run : RunHonest(r, run[r])' <=> RunHonest(r, run[r]) BY <2>1 DEF RunHonest
  <2>4. \A q \in late : Honest(q, run[q.run])' <=> Honest(q, run[q.run]) BY <2>1 DEF Honest
  <2>5. \A r \in Run : EvidenceOf(run[r])' <=> EvidenceOf(run[r])
    BY <2>1, <2>2 DEF EvidenceOf, Left
  <2>6. (TypeOK' <=> TypeOK) /\ (OneDriver' <=> OneDriver) /\ (DoneIsDone' <=> DoneIsDone)
    BY <2>1 DEF TypeOK, OneDriver, DoneIsDone
  <2>7. (Gated' <=> Gated) /\ (Traces' <=> Traces) /\ (EvidenceBehindDone' <=> EvidenceBehindDone)
    BY <2>1, <2>2 DEF Gated, Traces, EvidenceBehindDone
  <2>8. EvidenceLeft' <=> EvidenceLeft BY <2>1, <2>2, <2>5 DEF EvidenceLeft
  <2>. QED BY <2>1, <2>3, <2>4, <2>6, <2>7, <2>8 DEF Inv
<1>. QED BY <1>1, <1>2, DecideKeeps, ArriveLateKeeps, CrashKeeps DEF Next

\* The state invariant of the workflow: runs of one task do not mix (runPipeline).
THEOREM Invariance == Spec => []Inv
<1>1. Init => Inv BY WorkflowAssumption, Initially
<1>2. Inv /\ [Next]_vars => Inv' BY WorkflowAssumption, NextKeeps
<1>. QED BY <1>1, <1>2, PTL DEF Spec

\* A task is DONE only through the gate (runPipeline, doneGate).
THEOREM DoneOnlyThroughGate == Spec => []DoneThroughGate
<1>1. Inv => DoneThroughGate BY DEF Inv, Gated, DoneGate, DoneThroughGate
<1>. QED BY <1>1, Invariance, PTL

\* The journal is not ahead of the registry, and who reads that the task is done finds it
\* so (runPipeline, getHandler).
THEOREM JournalNotAhead == Spec => []StageNotAhead
<1>1. Inv => StageNotAhead
  <2> SUFFICES ASSUME Inv PROVE StageNotAhead
    OBVIOUS
  <2>1. Rank[task.status] >= Claims[stage] BY DEF Inv, Gated
  <2>2. ASSUME \A r \in Run : run[r].outcome \in {"none", "DONE"}, stage \in {"DONE", "SEALED"}
        PROVE  task.status = "DONE"
    <3>1. CASE stage = "SEALED"
      BY <2>2, <3>1 DEF Inv, Gated, DoneIsDone
    <3>2. CASE stage = "DONE"
      <4>1. Rank[task.status] >= 4 BY <2>1, <3>2, Stages
      <4>2. task.status \in Status \ {"FAILED"} BY DEF Inv, TypeOK, Task
      <4>. QED BY <4>1, <4>2 DEF Rank, Status
    <3>. QED BY <2>2, <3>1, <3>2
  <2>. QED BY <2>1, <2>2 DEF StageNotAhead, GetOutcome
<1>. QED BY <1>1, Invariance, PTL

\* While no call was lost or late, a DONE task has both evidence refs (runPipeline).
THEOREM EvidenceIsBehindDone == Spec => []EvidenceBehindDone
<1>1. Inv => EvidenceBehindDone BY DEF Inv
<1>. QED BY <1>1, Invariance, PTL
=============================================================================
