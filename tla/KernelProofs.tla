---------------------------- MODULE KernelProofs ----------------------------
(***************************************************************************)
(* The kernel: one writer of an authority at a time, and the path of a call. *)
(***************************************************************************)
EXTENDS WriterFence, CallPath, SequenceTheorems, TLAPS

(***************************************************************************)
(* The single-writer argument for every number of runtimes, commands,       *)
(* promotions and crashes.  IInv is inductive; the safety properties are    *)
(* among its conjuncts or follow from it step by step.                      *)
(***************************************************************************)

\* The initial state satisfies the inductive invariant.
LEMMA InitIInv == Init => IInv
  <1> SUFFICES ASSUME Init PROVE IInv
    OBVIOUS
  <1> USE FenceAssumption DEF Holding
  <1>1. TypeOK
    BY SMT DEF Init, TypeOK, HealthFlags, Fresh, Lease, Phase, CommandState, NewCommand, NoPromotion
  <1>2. PromotionInv /\ LeaseInv /\ LeaseAgreement /\ WriterRoutable
    BY DEF Init, PromotionInv, LeaseInv, LeaseAgreement, WriterRoutable
  <1>3. StampInv /\ OneWriterPerEpoch /\ LockInv
    BY DEF Init, StampInv, OneWriterPerEpoch, LockInv, NewCommand
  <1> QED
    BY <1>1, <1>2, <1>3 DEF IInv

\* A health report changes the flags of one runtime and may revoke its lease;
\* it never leaves the lease with a runtime that the report made unhealthy.
LEMMA ReportIInv ==
  ASSUME IInv, NEW r \in Runtime, NEW h \in HealthFlags, NEW revokes \in BOOLEAN,
         Report(r, h, revokes),
         ~revokes => (Healthy(r) => HealthyFlags(h)) \/ writer # r
  PROVE  IInv'
  <1> USE FenceAssumption DEF Holding
  <1>1. TypeOK'
    BY SMT DEF IInv, TypeOK, Report, RevokedWriter, diskVars
  <1>2. PromotionInv' /\ LeaseInv' /\ LeaseAgreement'
    BY DEF IInv, TypeOK, Report, RevokedWriter, diskVars, PromotionInv, LeaseInv,
           LeaseAgreement, MutexFree
  <1>3. WriterRoutable'
    BY DEF IInv, TypeOK, Report, RevokedWriter, WriterRoutable, Healthy
  <1>4. StampInv' /\ OneWriterPerEpoch' /\ LockInv'
    BY DEF IInv, Report, diskVars, StampInv, OneWriterPerEpoch, LockInv, FenceHolds
  <1> QED
    BY <1>1, <1>2, <1>3, <1>4 DEF IInv

\* The six health reports of the registry are such reports.
LEMMA HealthReportIInv ==
  ASSUME IInv, NEW r \in Runtime, HealthReport(r)
  PROVE  IInv'
  <1> USE FenceAssumption DEF Holding
  <1>0. health[r] \in HealthFlags
    BY DEF IInv, TypeOK
  <1>1. CASE MarkUnhealthy(r)
    <2>1. [health[r] EXCEPT !.process = FALSE] \in HealthFlags
      BY <1>0 DEF HealthFlags
    <2> QED
      BY <1>1, <2>1, ReportIInv DEF MarkUnhealthy
  <1>2. ASSUME NEW ok \in BOOLEAN, MarkDependencyHealth(r, ok)
        PROVE  IInv'
    <2> DEFINE h == [health[r] EXCEPT !.deps = ok]
    <2>1. h \in HealthFlags
      BY <1>0 DEF HealthFlags
    <2>2. (HealthyFlags(health[r]) /\ ~HealthyFlags(h)) \in BOOLEAN
      BY <1>0, <2>1 DEF HealthyFlags, HealthFlags, CircuitOpen
    <2>3. ~(HealthyFlags(health[r]) /\ ~HealthyFlags(h)) => (Healthy(r) => HealthyFlags(h))
      BY DEF Healthy
    <2> HIDE DEF h
    <2> QED
      BY <1>2, <2>1, <2>2, <2>3, ReportIInv DEF MarkDependencyHealth, h
  <1>3. CASE RecordFailure(r)
    <2> DEFINE h == [health[r] EXCEPT !.failures = Min2(@ + 1, FailureLimit)]
    <2>1. h \in HealthFlags /\ (~HealthyFlags(h)) \in BOOLEAN
      BY <1>0 DEF HealthFlags, Min2, HealthyFlags, CircuitOpen
    <2> HIDE DEF h
    <2> QED
      BY <1>3, <2>1, ReportIInv DEF RecordFailure, h
  <1>4. CASE RecordSuccess(r)
    <2> DEFINE h == [health[r] EXCEPT !.failures = 0]
    <2>1. h \in HealthFlags
      BY <1>0 DEF HealthFlags
    <2>2. Healthy(r) => HealthyFlags(h)
      BY <1>0 DEF Healthy, HealthyFlags, HealthFlags, CircuitOpen
    <2> HIDE DEF h
    <2> QED
      BY <1>4, <2>1, <2>2, ReportIInv DEF RecordSuccess, h
  <1>5. CASE RecordHeartbeatFailure(r)
    <2> DEFINE h == [health[r] EXCEPT !.beats = Min2(@ + 1, HeartbeatLimit)]
    <2>1. h \in HealthFlags /\ (~HealthyFlags(h)) \in BOOLEAN
      BY <1>0 DEF HealthFlags, Min2, HealthyFlags, CircuitOpen
    <2> HIDE DEF h
    <2> QED
      BY <1>5, <2>1, ReportIInv DEF RecordHeartbeatFailure, h
  <1>6. CASE RecordHeartbeatSuccess(r)
    <2> DEFINE h == [health[r] EXCEPT !.beats = 0]
    <2>1. h \in HealthFlags
      BY <1>0 DEF HealthFlags
    <2>2. Healthy(r) => HealthyFlags(h)
      BY <1>0 DEF Healthy, HealthyFlags, HealthFlags, CircuitOpen
    <2> HIDE DEF h
    <2> QED
      BY <1>6, <2>1, <2>2, ReportIInv DEF RecordHeartbeatSuccess, h
  <1> QED
    BY <1>1, <1>2, <1>3, <1>4, <1>5, <1>6 DEF HealthReport

\* A process that ends gives back the file lock with the commands it held.
LEMMA LifecycleIInv ==
  ASSUME IInv, NEW r \in Runtime, Lifecycle(r)
  PROVE  IInv'
  <1> USE FenceAssumption DEF Holding
  <1>1. CASE StartRuntime(r)
    <2>1. TypeOK'
      BY <1>1, SMT DEF IInv, TypeOK, StartRuntime, diskVars, Fresh, HealthFlags
    <2>2. PromotionInv' /\ LeaseInv' /\ LeaseAgreement'
      BY <1>1 DEF IInv, TypeOK, StartRuntime, diskVars, PromotionInv, LeaseInv,
                  LeaseAgreement, MutexFree
    <2>3. WriterRoutable'
      BY <1>1 DEF IInv, TypeOK, StartRuntime, WriterRoutable, Healthy, HealthyFlags,
                  CircuitOpen, Fresh
    <2>4. StampInv' /\ OneWriterPerEpoch' /\ LockInv'
      BY <1>1 DEF IInv, StartRuntime, diskVars, StampInv, OneWriterPerEpoch, LockInv,
                  FenceHolds
    <2> QED
      BY <2>1, <2>2, <2>3, <2>4 DEF IInv
  <1>2. CASE RuntimeExit(r)
    <2> USE <1>2 DEF RuntimeExit, LockAfterExit, registryVars, diskVars
    <2>0. cmd' \in [Command -> CommandState]
      <3> SUFFICES ASSUME NEW c \in Command
                   PROVE  cmd'[c] \in CommandState
        BY DEF IInv, TypeOK
      <3>1. cmd[c] \in CommandState
        BY DEF IInv, TypeOK
      <3> QED
        BY <3>1 DEF IInv, TypeOK, CommandState, Phase
    <2>1. TypeOK'
      BY <2>0 DEF IInv, TypeOK
    <2>2. \A c \in Command : /\ cmd'[c].target = cmd[c].target
                              /\ cmd'[c].epoch = cmd[c].epoch
                              /\ cmd'[c].phase # cmd[c].phase => cmd'[c].phase = "failed"
      BY DEF IInv, TypeOK
    <2>3. PromotionInv'
      BY DEF IInv, TypeOK, PromotionInv, Healthy
    <2>4. LeaseInv' /\ LeaseAgreement' /\ WriterRoutable'
      BY DEF IInv, LeaseInv, LeaseAgreement, WriterRoutable, Healthy
    <2>5. StampInv' /\ OneWriterPerEpoch'
      BY <2>2 DEF IInv, TypeOK, StampInv, OneWriterPerEpoch
    <2>6. LockInv'
      BY <2>2 DEF IInv, TypeOK, LockInv, FenceHolds
    <2> QED
      BY <2>1, <2>3, <2>4, <2>5, <2>6 DEF IInv
  <1>3. CASE RemoveRuntime(r)
    <2> USE <1>3 DEF RemoveRuntime, diskVars, RevokedWriter
    <2>1. TypeOK'
      BY SMT DEF IInv, TypeOK, Fresh, HealthFlags
    <2>2. PromotionInv' /\ LeaseInv' /\ LeaseAgreement' /\ WriterRoutable'
      BY DEF IInv, TypeOK, PromotionInv, LeaseInv, LeaseAgreement, WriterRoutable,
             MutexFree, Healthy
    <2>3. StampInv' /\ OneWriterPerEpoch' /\ LockInv'
      BY DEF IInv, StampInv, OneWriterPerEpoch, LockInv, FenceHolds
    <2> QED
      BY <2>1, <2>2, <2>3 DEF IInv
  <1> QED
    BY <1>1, <1>2, <1>3 DEF Lifecycle

\* A step that only moves one command to another phase keeps every stamp.
LEMMA PhaseStep ==
  ASSUME cmd \in [Command -> CommandState], NEW c \in Command, NEW p \in Phase,
         cmd' = [cmd EXCEPT ![c].phase = p]
  PROVE  /\ cmd' \in [Command -> CommandState]
         /\ \A d \in Command : /\ cmd'[d].target = cmd[d].target
                                /\ cmd'[d].epoch = cmd[d].epoch
                                /\ cmd'[d].phase = IF d = c THEN p ELSE cmd[d].phase
  BY DEF CommandState

\* A step that stamps one command leaves the others alone.
LEMMA StampStep ==
  ASSUME cmd \in [Command -> CommandState], NEW c \in Command,
         NEW r \in Runtime, NEW e \in Nat, cmd' = Stamped(c, r, e)
  PROVE  /\ cmd' \in [Command -> CommandState]
         /\ cmd'[c] = [phase |-> "resolved", target |-> r, epoch |-> e]
         /\ \A d \in Command \ {c} : cmd'[d] = cmd[d]
  BY DEF CommandState, Stamped, Phase

\* A phase change that neither takes nor gives back the file lock, with the
\* registry, the lease and the lock untouched, preserves the invariant as long
\* as a command in execution has a target and the promoted one is left alone.
LEMMA QuietPhaseIInv ==
  ASSUME IInv, NEW c \in Command, NEW p \in {"sent", "failed"},
         cmd[c].phase \in {"resolved", "sent"},
         cmd' = [cmd EXCEPT ![c].phase = p],
         UNCHANGED <<up, crashes, proc, registryVars, lock, diskVars>>
  PROVE  IInv'
  <1> USE FenceAssumption DEF Holding, registryVars, diskVars
  <1>1. p \in Phase
    BY DEF Phase
  <1>2. /\ cmd' \in [Command -> CommandState]
        /\ \A d \in Command : /\ cmd'[d].target = cmd[d].target
                               /\ cmd'[d].epoch = cmd[d].epoch
                               /\ cmd'[d].phase = IF d = c THEN p ELSE cmd[d].phase
    BY <1>1, PhaseStep DEF IInv, TypeOK
  <1>3. TypeOK'
    BY <1>2 DEF IInv, TypeOK
  <1>4. PromotionInv'
    BY <1>2 DEF IInv, TypeOK, PromotionInv, Healthy
  <1>5. LeaseInv' /\ LeaseAgreement' /\ WriterRoutable'
    BY DEF IInv, LeaseInv, LeaseAgreement, WriterRoutable, Healthy
  <1>6. StampInv' /\ OneWriterPerEpoch'
    BY <1>2 DEF IInv, StampInv, OneWriterPerEpoch
  <1>7. LockInv'
    BY <1>2 DEF IInv, LockInv, FenceHolds
  <1> QED
    BY <1>3, <1>4, <1>5, <1>6, <1>7 DEF IInv

\* Routing stamps a command only with the epoch of the current lease, and a
\* promotion stamps with an epoch above every stamp given before.
LEMMA RouteIInv ==
  ASSUME IInv, NEW c \in Command, Route(c)
  PROVE  IInv'
  <1> USE FenceAssumption DEF Holding, registryVars, diskVars
  <1>0. cmd \in [Command -> CommandState]
    BY DEF IInv, TypeOK
  <1>1. ASSUME NEW cap \in Capability, ResolveCurrent(c, cap)
        PROVE  IInv'
    <2> USE <1>1 DEF ResolveCurrent
    <2>0. writer \in Runtime /\ writer # NoOne /\ epoch \in Nat
      BY DEF Candidates, IInv, TypeOK
    <2>1. epoch = lease.epoch /\ writer = lease.runtime
      BY <2>0 DEF IInv, LeaseAgreement, MutexFree
    <2>2. /\ cmd' \in [Command -> CommandState]
          /\ cmd'[c] = [phase |-> "resolved", target |-> writer, epoch |-> epoch]
          /\ \A d \in Command \ {c} : cmd'[d] = cmd[d]
      BY <1>0, <2>0, StampStep
    <2>3. TypeOK'
      BY <2>2 DEF IInv, TypeOK
    <2>4. PromotionInv' /\ LeaseInv' /\ LeaseAgreement' /\ WriterRoutable'
      BY DEF IInv, PromotionInv, LeaseInv, LeaseAgreement, WriterRoutable, MutexFree, Healthy
    <2>5. StampInv' /\ OneWriterPerEpoch'
      BY <2>0, <2>1, <2>2 DEF IInv, StampInv, OneWriterPerEpoch
    <2>6. LockInv'
      BY <2>2 DEF IInv, LockInv, FenceHolds
    <2> QED
      BY <2>3, <2>4, <2>5, <2>6 DEF IInv
  <1>2. ASSUME NEW cap \in Capability, NEW r \in Runtime, BeginPromote(c, cap, r)
        PROVE  IInv'
    <2> USE <1>2 DEF BeginPromote, NextEpoch
    <2>1. /\ cmd' \in [Command -> CommandState]
          /\ \A d \in Command : /\ cmd'[d].target = cmd[d].target
                                 /\ cmd'[d].epoch = cmd[d].epoch
                                 /\ cmd'[d].phase = IF d = c THEN "promoting" ELSE cmd[d].phase
      BY <1>0, PhaseStep, ZenonT(30) DEF Phase
    <2>2. TypeOK'
      BY <2>1 DEF IInv, TypeOK
    <2>3. PromotionInv'
      BY <2>1 DEF PromotionInv, MutexFree, Healthy, Candidates
    <2>4. LeaseInv' /\ LeaseAgreement' /\ WriterRoutable'
      BY DEF IInv, LeaseInv, LeaseAgreement, WriterRoutable, Healthy
    <2>5. StampInv' /\ OneWriterPerEpoch'
      BY <2>1 DEF IInv, StampInv, OneWriterPerEpoch
    <2>6. LockInv'
      BY <2>1 DEF IInv, LockInv, FenceHolds
    <2> QED
      BY <2>2, <2>3, <2>4, <2>5, <2>6 DEF IInv
  <1>3. CASE Deliver(c)
    BY <1>3, QuietPhaseIInv DEF Deliver
  <1>4. CASE DeliverFails(c)
    BY <1>4, QuietPhaseIInv DEF DeliverFails
  <1> QED
    BY <1>1, <1>2, <1>3, <1>4 DEF Route

\* A handler takes the free lock only if its stamp is the lease, and nothing
\* but its own end gives the lock back.
LEMMA HandleIInv ==
  ASSUME IInv, NEW c \in Command, Handle(c)
  PROVE  IInv'
  <1> USE FenceAssumption DEF Holding, registryVars, diskVars
  <1>0. cmd \in [Command -> CommandState]
    BY DEF IInv, TypeOK
  <1>1. CASE EnterFence(c)
    <2> USE <1>1 DEF EnterFence
    <2>1. /\ cmd' \in [Command -> CommandState]
          /\ \A d \in Command : /\ cmd'[d].target = cmd[d].target
                                 /\ cmd'[d].epoch = cmd[d].epoch
                                 /\ cmd'[d].phase = IF d = c THEN "fenced" ELSE cmd[d].phase
      BY <1>0, PhaseStep, ZenonT(30) DEF Phase
    <2>2. TypeOK'
      BY <2>1 DEF IInv, TypeOK
    <2>3. PromotionInv'
      BY <2>1 DEF IInv, TypeOK, PromotionInv, Healthy
    <2>4. LeaseInv' /\ LeaseAgreement' /\ WriterRoutable'
      BY DEF IInv, LeaseInv, LeaseAgreement, WriterRoutable, Healthy
    <2>5. StampInv' /\ OneWriterPerEpoch'
      BY <2>1 DEF IInv, StampInv, OneWriterPerEpoch
    <2>6. LockInv'
      BY <2>1 DEF IInv, LockInv, FenceHolds
    <2> QED
      BY <2>2, <2>3, <2>4, <2>5, <2>6 DEF IInv
  <1>2. CASE RejectStale(c)
    BY <1>2, QuietPhaseIInv DEF RejectStale
  <1>3. CASE CommitFenced(c) \/ AbortFenced(c) \/ AskTimesOut(c)
    <2> USE <1>3 DEF CommitFenced, AbortFenced, AskTimesOut, TimerFires
    <2>1. PICK p \in {"done", "failed"} : cmd' = [cmd EXCEPT ![c].phase = p]
      OBVIOUS
    <2>2. /\ cmd' \in [Command -> CommandState]
          /\ \A d \in Command : /\ cmd'[d].target = cmd[d].target
                                 /\ cmd'[d].epoch = cmd[d].epoch
                                 /\ cmd'[d].phase = IF d = c THEN p ELSE cmd[d].phase
      <3>1. p \in Phase
        BY DEF Phase
      <3> QED
        BY <1>0, <2>1, <3>1, PhaseStep
    <2>3. cmd[c].target \in Runtime /\ cmd[c].epoch \in Nat
      BY <1>0 DEF IInv, StampInv, CommandState
    <2>4. log' \in Seq([runtime : Runtime, epoch : Nat])
      <3> DEFINE S == [runtime : Runtime, epoch : Nat]
                 e == [runtime |-> cmd[c].target, epoch |-> cmd[c].epoch]
      <3>1. log \in Seq(S) /\ e \in S
        BY <2>3 DEF IInv, TypeOK
      <3>2. log' = log \/ log' = Append(log, e)
        OBVIOUS
      <3> HIDE DEF S, e
      <3>3. log' \in Seq(S)
        BY <3>1, <3>2, AppendProperties, SMTT(30)
      <3> QED
        BY <3>3 DEF S
    <2>5. TypeOK'
      BY <2>2, <2>4 DEF IInv, TypeOK
    <2>6. PromotionInv'
      BY <2>2, SMTT(30) DEF IInv, TypeOK, PromotionInv, Healthy
    <2>7. LeaseInv' /\ LeaseAgreement' /\ WriterRoutable'
      BY DEF IInv, LeaseInv, LeaseAgreement, WriterRoutable, Healthy
    <2>8. StampInv' /\ OneWriterPerEpoch'
      BY <2>2 DEF IInv, StampInv, OneWriterPerEpoch
    <2>9. LockInv'
      BY <2>2 DEF IInv, LockInv, FenceHolds
    <2> QED
      BY <2>5, <2>6, <2>7, <2>8, <2>9 DEF IInv
  <1>4. CASE AskUnderFence(c) \/ AskAnswered(c)
    <2> USE <1>4 DEF AskUnderFence, AskAnswered
    <2>1. PICK p \in {"asking", "asked"} : cmd' = [cmd EXCEPT ![c].phase = p]
      OBVIOUS
    <2>2. p \in Phase /\ p \in Holding /\ cmd[c].phase \in Holding
      BY DEF Phase
    <2>3. /\ cmd' \in [Command -> CommandState]
          /\ \A d \in Command : /\ cmd'[d].target = cmd[d].target
                                 /\ cmd'[d].epoch = cmd[d].epoch
                                 /\ cmd'[d].phase = IF d = c THEN p ELSE cmd[d].phase
      BY <1>0, <2>1, <2>2, PhaseStep
    <2>4. TypeOK'
      BY <2>3 DEF IInv, TypeOK
    <2>5. PromotionInv'
      <3>1. cmd[c].phase # "promoting"
        BY <2>2
      <3>2. UNCHANGED <<up, registered, health, epoch, promoting>>
        OBVIOUS
      <3> SUFFICES ASSUME promoting # NoPromotion
                   PROVE  /\ up /\ promoting.epoch = epoch + 1
                          /\ Healthy(promoting.runtime)
                          /\ cmd'[promoting.cmd].phase = "promoting"
        BY <3>2 DEF PromotionInv, Healthy
      <3>3. promoting.cmd \in Command
        BY DEF IInv, TypeOK
      <3> QED
        BY <2>3, <3>1, <3>3 DEF IInv, PromotionInv
    <2>6. LeaseInv' /\ LeaseAgreement' /\ WriterRoutable'
      BY DEF IInv, LeaseInv, LeaseAgreement, WriterRoutable, Healthy
    <2>7. StampInv' /\ OneWriterPerEpoch'
      BY <2>2, <2>3 DEF IInv, StampInv, OneWriterPerEpoch
    <2>8. LockInv'
      BY <2>2, <2>3 DEF IInv, LockInv, FenceHolds
    <2> QED
      BY <2>4, <2>5, <2>6, <2>7, <2>8 DEF IInv
  <1> QED
    BY <1>1, <1>2, <1>3, <1>4 DEF Handle

\* The promotion writes an epoch above every stamp, with the file lock free:
\* no handler is between its check and its write.
LEMMA PersistIInv ==
  ASSUME IInv, PersistLease \/ PersistFails
  PROVE  IInv'
  <1> USE FenceAssumption DEF Holding, diskVars
  <1>0. promoting # NoPromotion
    BY DEF PersistLease, PersistFails
  <1>1. /\ cmd \in [Command -> CommandState]
        /\ promoting.runtime \in Runtime
        /\ promoting.epoch \in Nat
        /\ promoting.cmd \in Command
        /\ up
        /\ promoting.epoch = epoch + 1
        /\ epoch = lease.epoch
        /\ cmd[promoting.cmd].phase = "promoting"
    BY <1>0 DEF IInv, TypeOK, PromotionInv, LeaseAgreement
  <1>2. CASE PersistLease
    <2> USE <1>2 DEF PersistLease, HasFileLock
    <2> DEFINE c == promoting.cmd
    <2>1. /\ cmd' \in [Command -> CommandState]
          /\ cmd'[c] = [phase |-> "resolved", target |-> promoting.runtime,
                        epoch |-> promoting.epoch]
          /\ \A d \in Command \ {c} : cmd'[d] = cmd[d]
      BY <1>1, StampStep
    <2>2. lease' \in Lease /\ promoting' = NoPromotion
      BY <1>1 DEF Lease
    <2>3. TypeOK'
      BY <1>1, <2>1, <2>2 DEF IInv, TypeOK
    <2>4. PromotionInv' /\ LeaseInv' /\ LeaseAgreement'
      BY <1>1 DEF IInv, TypeOK, PromotionInv, LeaseInv, LeaseAgreement
    <2>5. WriterRoutable'
      BY <1>0, <1>1 DEF IInv, PromotionInv, WriterRoutable, Healthy
    <2>6. \A d \in Command \ {c} : cmd'[d].epoch < lease'.epoch
      BY <1>1, <2>1 DEF IInv, StampInv, TypeOK, CommandState, Lease
    <2>7. StampInv'
      <3> SUFFICES ASSUME NEW d \in Command
                   PROVE  /\ cmd'[d].epoch <= lease'.epoch
                          /\ cmd'[d].epoch = lease'.epoch /\ cmd'[d].epoch > 0
                               => cmd'[d].target = lease'.runtime
                          /\ cmd'[d].phase \in {"resolved", "sent"} \cup Holding
                               => cmd'[d].target \in Runtime
        BY DEF StampInv
      <3>1. CASE d = c
        BY <3>1, <1>1, <2>1
      <3>2. CASE d # c
        BY <3>2, <1>1, <2>1, <2>6 DEF IInv, StampInv, TypeOK, CommandState, Lease
      <3> QED
        BY <3>1, <3>2
    <2>8. OneWriterPerEpoch'
      <3>1. cmd'[c].epoch = lease'.epoch
        BY <1>1, <2>1
      <3>2. \A d, e \in Command \ {c} : cmd'[d].epoch > 0 /\ cmd'[d].epoch = cmd'[e].epoch
                                          => cmd'[d].target = cmd'[e].target
        BY <2>1 DEF IInv, OneWriterPerEpoch
      <3>3. lease'.epoch \in Nat /\ \A d \in Command : cmd'[d].epoch \in Nat
        BY <2>1, <2>2 DEF Lease, CommandState
      <3>4. \A d \in Command \ {c} : cmd'[d].epoch # cmd'[c].epoch
        BY <2>6, <3>1, <3>3
      <3> QED
        BY <1>1, <3>2, <3>4 DEF OneWriterPerEpoch
    <2>9. LockInv'
      BY <1>1, <2>1 DEF IInv, LockInv, FenceHolds
    <2> QED
      BY <2>3, <2>4, <2>5, <2>7, <2>8, <2>9 DEF IInv
  <1>3. CASE PersistFails
    <2> USE <1>3 DEF PersistFails
    <2> DEFINE c == promoting.cmd
    <2>1. /\ cmd' \in [Command -> CommandState]
          /\ \A d \in Command : /\ cmd'[d].target = cmd[d].target
                                 /\ cmd'[d].epoch = cmd[d].epoch
                                 /\ cmd'[d].phase = IF d = c THEN "failed" ELSE cmd[d].phase
      BY <1>1, PhaseStep, ZenonT(30) DEF Phase
    <2>2. TypeOK'
      BY <2>1 DEF IInv, TypeOK
    <2>3. PromotionInv' /\ LeaseInv' /\ LeaseAgreement' /\ WriterRoutable'
      BY DEF IInv, PromotionInv, LeaseInv, LeaseAgreement, WriterRoutable, Healthy
    <2>4. StampInv' /\ OneWriterPerEpoch'
      BY <2>1 DEF IInv, StampInv, OneWriterPerEpoch
    <2>5. LockInv'
      BY <1>1, <2>1 DEF IInv, LockInv, FenceHolds
    <2> QED
      BY <2>2, <2>3, <2>4, <2>5 DEF IInv
  <1> QED
    BY <1>2, <1>3

\* A crash forgets the lease in memory and a restart reads its epoch back.
LEMMA HostIInv ==
  ASSUME IInv, HostCrash \/ HostStart
  PROVE  IInv'
  <1> USE FenceAssumption DEF Holding, diskVars
  <1>1. CASE HostCrash
    <2> USE <1>1 DEF HostCrash
    <2>1. \A d \in Command : /\ cmd'[d].target = cmd[d].target
                             /\ cmd'[d].epoch = cmd[d].epoch
                             /\ cmd'[d].phase = IF cmd[d].phase \in {"promoting", "resolved"}
                                                THEN "failed" ELSE cmd[d].phase
      BY DEF IInv, TypeOK, CommandState
    <2>2. cmd' \in [Command -> CommandState]
      <3>1. "failed" \in Phase BY DEF Phase
      <3>2. \A d \in Command : cmd[d] \in CommandState BY DEF IInv, TypeOK
      <3>. QED BY <3>1, <3>2 DEF CommandState
    <2>3. [r \in Runtime |-> Fresh] \in [Runtime -> HealthFlags]
      BY DEF Fresh, HealthFlags
    <2>0. crashes' \in 0..MaxCrash
      BY DEF IInv, TypeOK
    <2>4. TypeOK'
      <3> HIDE DEF HostCrash
      <3>1. /\ up' = FALSE /\ registered' = {} /\ writer' = NoOne /\ epoch' = 0
            /\ health' \in [Runtime -> HealthFlags] /\ promoting' = NoPromotion
            /\ UNCHANGED <<proc, lock, lease, log>>
        BY <2>3 DEF HostCrash
      <3> QED
        BY <2>0, <2>2, <3>1 DEF IInv, TypeOK
    <2>5. PromotionInv' /\ LeaseInv' /\ LeaseAgreement' /\ WriterRoutable'
      BY DEF IInv, PromotionInv, LeaseInv, LeaseAgreement, WriterRoutable
    <2>6. StampInv' /\ OneWriterPerEpoch'
      BY <2>1 DEF IInv, StampInv, OneWriterPerEpoch
    <2>7. LockInv'
      BY <2>1 DEF IInv, LockInv, FenceHolds
    <2> QED
      BY <2>4, <2>5, <2>6, <2>7 DEF IInv
  <1>2. CASE HostStart
    <2> USE <1>2 DEF HostStart, RestoredEpoch
    <2>1. TypeOK'
      BY DEF IInv, TypeOK, Lease
    <2>2. PromotionInv' /\ LeaseInv' /\ LeaseAgreement' /\ WriterRoutable'
      BY DEF IInv, PromotionInv, LeaseInv, LeaseAgreement, WriterRoutable, Healthy
    <2>3. StampInv' /\ OneWriterPerEpoch' /\ LockInv'
      BY DEF IInv, StampInv, OneWriterPerEpoch, LockInv, FenceHolds
    <2> QED
      BY <2>1, <2>2, <2>3 DEF IInv
  <1> QED
    BY <1>1, <1>2

\* Every step, of whichever part, keeps the inductive invariant.
LEMMA NextIInv == IInv /\ [Next]_vars => IInv'
  <1> SUFFICES ASSUME IInv, [Next]_vars PROVE IInv'
    OBVIOUS
  <1>1. CASE UNCHANGED vars
    BY <1>1 DEF vars, IInv, TypeOK, PromotionInv, LeaseInv, LeaseAgreement, WriterRoutable,
                StampInv, OneWriterPerEpoch, LockInv, FenceHolds, Healthy
  <1>2. CASE Next
    BY <1>2, HealthReportIInv, LifecycleIInv, RouteIInv, HandleIInv, PersistIInv, HostIInv
       DEF Next
  <1> QED
    BY <1>1, <1>2

\* The invariant of WriterFence holds in every reachable state.
THEOREM Invariance == Spec => []IInv
  BY InitIInv, NextIInv, PTL DEF Spec

-----------------------------------------------------------------------------
(* The results                                                             *)

\* Every variable of the registry, the lease and the handlers is well typed.
THEOREM TypeCorrect == Spec => []TypeOK
  <1>1. IInv => TypeOK
    BY DEF IInv
  <1> QED
    BY <1>1, Invariance, PTL

\* Memory and lease file agree through failed writes, crashes and crashes
\* (ResolveForKind, persistFenceLocked, SetFenceRoot).
THEOREM MemoryAgreesWithFile == Spec => []LeaseAgreement
  <1>1. IInv => LeaseAgreement
    BY DEF IInv
  <1> QED
    BY <1>1, Invariance, PTL

\* A remembered writer is registered and healthy: no health report and no
\* removal leaves the lease with an unroutable runtime.
THEOREM WriterIsRoutable == Spec => []WriterRoutable
  <1>1. IInv => WriterRoutable
    BY DEF IInv
  <1> QED
    BY <1>1, Invariance, PTL

\* No two runtimes ever receive commands stamped with one epoch.
THEOREM EpochHasOneWriter == Spec => []OneWriterPerEpoch
  <1>1. IInv => OneWriterPerEpoch
    BY DEF IInv
  <1> QED
    BY <1>1, Invariance, PTL

\* Which steps touch the lease file, and how: only the promotion writes it.
LEMMA LeaseStep ==
  ASSUME IInv, [Next]_vars, lease' # lease
  PROVE  PersistLease /\ lease'.epoch = lease.epoch + 1 /\ lease'.runtime \in Runtime
  <1>1. PersistLease
    BY DEF Next, vars, HealthReport, Report, MarkUnhealthy, MarkDependencyHealth,
           RecordFailure, RecordSuccess, RecordHeartbeatFailure, RecordHeartbeatSuccess,
           Lifecycle, StartRuntime, RuntimeExit, RemoveRuntime, Route, ResolveCurrent,
           BeginPromote, Deliver, DeliverFails, Handle, EnterFence, RejectStale,
           AskUnderFence, AskAnswered, AskTimesOut, CommitFenced, AbortFenced,
           PersistFails, HostCrash, HostStart, diskVars
  <1>2. lease'.epoch = lease.epoch + 1 /\ lease'.runtime \in Runtime
    BY <1>1 DEF PersistLease, IInv, TypeOK, PromotionInv, LeaseAgreement
  <1> QED
    BY <1>1, <1>2

\* Epochs only grow, and a change of the lease always opens a new one, across
\* crashes and restarts of the kernel.
THEOREM EpochsGrow == Spec => EpochsNeverReused
  <1>1. IInv /\ [Next]_vars
          => [lease'.epoch >= lease.epoch /\ (lease' # lease => lease'.epoch > lease.epoch)]_lease
    <2> SUFFICES ASSUME IInv, [Next]_vars, lease' # lease
                 PROVE  lease'.epoch >= lease.epoch /\ lease'.epoch > lease.epoch
      OBVIOUS
    <2>1. lease.epoch \in Nat
      BY DEF IInv, TypeOK, Lease
    <2> QED
      BY <2>1, LeaseStep
  <1> QED
    BY <1>1, Invariance, PTL DEF Spec, EpochsNeverReused

\* A lease never changes while a handler is between the check of the lease and
\* its write (WithWriteFence against persistFenceLocked).
THEOREM FenceExcludesPromotion == Spec => LeaseStableUnderFence
  <1>1. IInv /\ [Next]_vars
          => [lease' # lease => \A c \in Command : cmd[c].phase \notin Holding]_vars
    <2> SUFFICES ASSUME IInv, [Next]_vars, lease' # lease, NEW c \in Command
                 PROVE  cmd[c].phase \notin Holding
      OBVIOUS
    <2>1. lock = NoCommand
      BY LeaseStep DEF PersistLease, HasFileLock
    <2> QED
      BY <2>1, FenceAssumption DEF IInv, LockInv
  <1> QED
    BY <1>1, Invariance, PTL DEF Spec, LeaseStableUnderFence

-----------------------------------------------------------------------------
(* Refinement                                                              *)

\* Only the end of a protected function writes a record, with the lease as it
\* is in the file.
LEMMA LogStep ==
  ASSUME IInv, [Next]_vars, log' # log
  PROVE  /\ lease' = lease
         /\ lease.runtime # NoOne
         /\ log' = Append(log, [runtime |-> lease.runtime, epoch |-> lease.epoch])
  <1>1. PICK c \in Command : CommitFenced(c)
    BY DEF Next, vars, HealthReport, Report, MarkUnhealthy, MarkDependencyHealth,
           RecordFailure, RecordSuccess, RecordHeartbeatFailure, RecordHeartbeatSuccess,
           Lifecycle, StartRuntime, RuntimeExit, RemoveRuntime, Route, ResolveCurrent,
           BeginPromote, Deliver, DeliverFails, Handle, EnterFence, RejectStale,
           AskUnderFence, AskAnswered, AskTimesOut, AbortFenced, PersistLease,
           PersistFails, HostCrash, HostStart, diskVars
  <1>2. FenceHolds(c) /\ cmd[c].target \in Runtime
    BY <1>1 DEF CommitFenced, Holding, IInv, LockInv, StampInv
  <1> QED
    BY <1>1, <1>2, FenceAssumption DEF CommitFenced, FenceHolds

\* Every step maps to a grant, to a commit or to no step of SingleWriter.
LEMMA RefinementStep ==
  ASSUME IInv, [Next]_vars
  PROVE  [Abstract!Next]_(Abstract!vars)
  <1>1. CASE lease' # lease
    <2>1. /\ PersistLease
          /\ lease'.epoch = lease.epoch + 1
          /\ lease'.runtime \in Runtime
      BY <1>1, LeaseStep
    <2>2. log' = log
      BY <2>1 DEF PersistLease
    <2>3. Abstract!Grant(lease'.runtime)
      BY <2>1, <2>2 DEF Abstract!Grant
    <2> QED
      BY <2>1, <2>3 DEF Abstract!Next
  <1>2. CASE lease' = lease /\ log' # log
    BY <1>2, LogStep DEF Abstract!Next, Abstract!Commit
  <1>3. CASE lease' = lease /\ log' = log
    BY <1>3 DEF Abstract!vars
  <1> QED
    BY <1>1, <1>2, <1>3

\* The lease file and the records implement SingleWriter: promotions are its
\* grants, fenced commits its commits, and every other step stutters.
THEOREM Refinement == Spec => ImplementsSingleWriter
  <1>1. Init => Abstract!Init
    BY DEF Init, Abstract!Init
  <1>2. IInv /\ [Next]_vars => [Abstract!Next]_(Abstract!vars)
    BY RefinementStep
  <1> QED
    BY <1>1, <1>2, Invariance, PTL DEF Spec, ImplementsSingleWriter, Abstract!Spec

\* A commit appends a record of the current epoch and owner; a grant opens an
\* epoch that no record has.
LEMMA SerialStep ==
  ASSUME Abstract!SerialInv, [Abstract!Next]_(Abstract!vars)
  PROVE  Abstract!SerialInv'
  <1>1. CASE UNCHANGED Abstract!vars
    BY <1>1 DEF Abstract!vars, Abstract!SerialInv, Abstract!TypeOK, Abstract!SerialEpochs
  <1>2. ASSUME NEW r \in Runtime, Abstract!Grant(r)
        PROVE  Abstract!SerialInv'
    <2>1. Abstract!TypeOK'
      BY <1>2 DEF Abstract!Grant, Abstract!SerialInv, Abstract!TypeOK
    <2>2. \A i \in 1..Len(log) : log[i] \in Abstract!Entry
      BY DEF Abstract!SerialInv, Abstract!TypeOK
    <2>3. \A i \in 1..Len(log') : log'[i].epoch <= lease'.epoch /\ log'[i].epoch # lease'.epoch
      BY <1>2, <2>2 DEF Abstract!Grant, Abstract!SerialInv, Abstract!TypeOK, Abstract!Entry
    <2>4. Abstract!SerialEpochs'
      BY <1>2 DEF Abstract!Grant, Abstract!SerialInv, Abstract!SerialEpochs
    <2> QED
      BY <2>1, <2>3, <2>4 DEF Abstract!SerialInv
  <1>3. CASE Abstract!Commit
    <2> DEFINE e == [runtime |-> lease.runtime, epoch |-> lease.epoch]
    <2>1. e \in Abstract!Entry
      BY <1>3 DEF Abstract!Commit, Abstract!SerialInv, Abstract!TypeOK, Abstract!Entry
    <2>2. log \in Seq(Abstract!Entry)
      BY DEF Abstract!SerialInv, Abstract!TypeOK
    <2>3. log' = Append(log, e)
      BY <1>3 DEF Abstract!Commit
    <2> HIDE DEF e
    <2>4. /\ log' \in Seq(Abstract!Entry)
          /\ Len(log') = Len(log) + 1
          /\ \A i \in 1..Len(log) : log'[i] = log[i]
          /\ log'[Len(log) + 1] = e
      BY <2>1, <2>2, <2>3, AppendProperties
    <2>5. Abstract!TypeOK'
      BY <1>3, <2>4 DEF Abstract!Commit, Abstract!SerialInv, Abstract!TypeOK
    <2>6. e.epoch = lease.epoch /\ e.runtime = lease.runtime
          /\ UNCHANGED <<lease.epoch, lease.runtime>>
      BY <1>3 DEF e, Abstract!Commit
    <2>7. Len(log) \in Nat
      BY <2>2
    <2>8. \A i \in 1..Len(log') : log'[i].epoch <= lease'.epoch
                                  /\ (log'[i].epoch = lease'.epoch => log'[i].runtime = lease'.runtime)
      BY <2>4, <2>6, <2>7 DEF Abstract!SerialInv, Abstract!TypeOK
    <2>9. Abstract!SerialEpochs'
      <3> SUFFICES ASSUME NEW i \in 1..Len(log'), NEW j \in 1..Len(log'), i < j
                   PROVE  /\ log'[i].epoch <= log'[j].epoch
                          /\ log'[i].epoch = log'[j].epoch => log'[i].runtime = log'[j].runtime
        BY DEF Abstract!SerialEpochs
      <3>1. i \in 1..Len(log)
        BY <2>4, <2>7
      <3>2. CASE j \in 1..Len(log)
        BY <2>4, <3>1, <3>2 DEF Abstract!SerialInv, Abstract!SerialEpochs
      <3>3. CASE j = Len(log) + 1
        BY <2>4, <2>6, <2>8, <3>1, <3>3
      <3> QED
        BY <2>4, <2>7, <3>2, <3>3
    <2> QED
      BY <2>5, <2>8, <2>9 DEF Abstract!SerialInv
  <1> QED
    BY <1>1, <1>2, <1>3 DEF Abstract!Next

\* In every behaviour of the abstract authority the records are serial.
THEOREM SerialRecords == Abstract!Spec => []Abstract!SerialEpochs
  <1>1. Abstract!Init => Abstract!SerialInv
    BY DEF Abstract!Init, Abstract!SerialInv, Abstract!TypeOK, Abstract!SerialEpochs
  <1>2. Abstract!SerialInv => Abstract!SerialEpochs
    BY DEF Abstract!SerialInv
  <1> QED
    BY <1>1, <1>2, SerialStep, PTL DEF Abstract!Spec

\* The records written under the fence are serial: a runtime whose lease was
\* taken away never writes after its successor did.
THEOREM SerialCommits == Spec => []CommitsSerial
  BY Refinement, SerialRecords, PTL DEF ImplementsSingleWriter, CommitsSerial

(***************************************************************************)
(* The path of a call for any plugins, any calls and any way they are       *)
(* nested: a call that a handler makes before it answers is admitted.  The  *)
(* argument is about the order of a plugin's output: Flow says how a step   *)
(* moves it, FlowKeeps that an early request stays ahead of the answer, and *)
(* StepKeeps puts the parts of the invariant together.                      *)
(***************************************************************************)
\* A message says what it is and which call it is about.
LEMMA Messages ==
    ASSUME NEW m \in Msg
    PROVE  /\ m.kind \in {"request", "answer", "cancel", "ping", "pong"}
           /\ m.kind \in {"request", "answer", "cancel"} =>
                m.call \in Calls /\ m = ToCall(m.kind, m.call)
BY DEF Msg, ToCall

\* Messages about different calls differ.
LEMMA ToCalls ==
    /\ \A k, c : ToCall(k, c).kind = k /\ ToCall(k, c).call = c
    /\ \A k \in {"request", "answer", "cancel"}, c \in Calls : ToCall(k, c) \in Msg
    /\ ToCall("ping", None) \in Msg /\ ToCall("pong", None) \in Msg
BY DEF ToCall, Msg

\* What does not change once it is so.
Stable ==
    /\ CallTypeOK'
    /\ \A c \in Calls :
         /\ Routed(c) => Routed(c)' /\ provider'[c] = provider[c]
         /\ work[c] = "answered" => work'[c] = "answered"
         /\ work[c] # "no" => work'[c] # "no"
         /\ outer[c] # "no" => outer'[c] # "no"
         /\ route[c] = "deadline" => route'[c] = "deadline"
         /\ route'[c] = "no" => route[c] = "no"
    /\ alive' \subseteq alive

\* Who made a call that was issued.
LEMMA CallerStays ==
    ASSUME CallPathAssumption, Inv, Stable, NEW c \in Calls, Issued(c)
    PROVE  /\ Parent[c] \in Calls /\ Caller(c) \in Plugins /\ Caller(c)' = Caller(c)
           /\ Caller(c) = provider[Parent[c]] /\ Routed(Parent[c])
<1>1. Parent[c] \in Calls /\ work[Parent[c]] # "no"
  BY DEF CallPathAssumption, Inv, SidesAgree, Issued
<1>2. Routed(Parent[c]) /\ provider[Parent[c]] \in Plugins BY <1>1 DEF Inv, SidesAgree
<1>. QED BY <1>1, <1>2 DEF Stable, Caller, CallPathAssumption

\* What may be said of a pipe stays true of it.
LEMMA UnreadStays ==
    ASSUME Inv, Stable, NEW p \in Plugins, NEW s \in Seq(Msg), Unread(p, s),
           \A i \in DOMAIN s : s[i].kind = "request" => work'[s[i].call] = "no"
    PROVE  Unread(p, s)'
<1>1. \A i \in DOMAIN s : s[i].kind = "request" => s[i].call \in Calls BY Messages
<1>. QED BY <1>1 DEF Unread, Stable

\* A request that was issued stays so, and stays its plugin's.
LEMMA AskedStays ==
    ASSUME CallPathAssumption, Inv, Stable, NEW p \in Plugins, NEW m \in Msg, m.kind = "request", Asked(p, m)
    PROVE  Asked(p, m)'
<1>1. m.call \in Calls BY Messages
<1>2. Issued(m.call) /\ Issued(m.call)' BY <1>1 DEF Asked, Stable, Issued
<1>3. Caller(m.call)' = Caller(m.call) BY <1>1, <1>2, CallerStays
<1>. QED BY <1>2, <1>3 DEF Asked

\* The same of what a plugin has written.
LEMMA UnheardStays ==
    ASSUME CallPathAssumption, Inv, Stable, NEW p \in Plugins, NEW s \in Seq(Msg), Unheard(p, s)
    PROVE  Unheard(p, s)'
<1>1. ASSUME NEW i \in DOMAIN s, s[i].kind = "request" PROVE Asked(p, s[i])'
  <2>1. s[i] \in Msg /\ Asked(p, s[i]) BY <1>1 DEF Unheard
  <2>. QED BY <1>1, <2>1, AskedStays
<1>2. ASSUME NEW i \in DOMAIN s, s[i].kind = "answer"
      PROVE  work'[s[i].call] = "answered" /\ provider'[s[i].call] = p
  <2>1. s[i].call \in Calls BY <1>2, Messages
  <2>2. work[s[i].call] = "answered" /\ provider[s[i].call] = p BY <1>2 DEF Unheard
  <2>. QED BY <2>1, <2>2 DEF Stable, Inv, SidesAgree
<1>. QED BY <1>1, <1>2 DEF Unheard

\* The same of what the router has read.
LEMMA UnservedStays ==
    ASSUME CallPathAssumption, Inv, Stable, NEW p \in Plugins, NEW s \in Seq(Msg), Unserved(p, s)
    PROVE  Unserved(p, s)'
<1>1. ASSUME NEW i \in DOMAIN s, s[i].kind = "request" PROVE Asked(p, s[i])'
  <2>1. s[i] \in Msg /\ Asked(p, s[i]) BY <1>1 DEF Unserved
  <2>. QED BY <1>1, <2>1, AskedStays
<1>. QED BY <1>1 DEF Unserved

\* What is left of a pipe, and what is added to it.
LEMMA Tails ==
    ASSUME NEW s \in Seq(Msg), s # <<>>
    PROVE  /\ Tail(s) \in Seq(Msg) /\ Head(s) \in Msg /\ Head(s) = s[1] /\ 1 \in DOMAIN s
           /\ \A i \in DOMAIN Tail(s) : i + 1 \in DOMAIN s /\ Tail(s)[i] = s[i + 1]
           /\ \A i \in DOMAIN s : i # 1 => i - 1 \in DOMAIN Tail(s) /\ Tail(s)[i - 1] = s[i]
           /\ \A i \in DOMAIN s : i \in Nat \ {0}
OBVIOUS

\* What is added to a pipe.
LEMMA Appends ==
    ASSUME NEW s \in Seq(Msg), NEW m \in Msg
    PROVE  /\ Append(s, m) \in Seq(Msg) /\ Append(s, m)[Len(s) + 1] = m
           /\ DOMAIN Append(s, m) = DOMAIN s \cup {Len(s) + 1}
           /\ \A i \in DOMAIN s : i \in Nat /\ i < Len(s) + 1 /\ Append(s, m)[i] = s[i]
           /\ s \o <<m>> = Append(s, m)
OBVIOUS

\* What may be said of a pipe when one message is read or written.
LEMMA Pipes ==
    ASSUME NEW p \in Plugins, NEW s \in Seq(Msg)
    PROVE  /\ s # <<>> =>
                /\ Unread(p, s) =>
                     /\ Unread(p, Tail(s))
                     /\ Head(s).kind = "request" => \A i \in DOMAIN Tail(s) : Tail(s)[i] # Head(s)
                /\ Unheard(p, s) => Unheard(p, Tail(s))
           /\ \A m \in Msg : m.kind # "request" /\ Unread(p, s) => Unread(p, Append(s, m))
           /\ Unread(p, <<>>) /\ Unserved(p, <<>>)
<1>1. ASSUME s # <<>>, Unread(p, s)
      PROVE  /\ Unread(p, Tail(s))
             /\ Head(s).kind = "request" => \A i \in DOMAIN Tail(s) : Tail(s)[i] # Head(s)
  <2>1. \A i, j \in DOMAIN Tail(s) : i + 1 = j + 1 => i = j BY <1>1
  <2>. QED BY <1>1, <2>1, Tails DEF Unread
<1>2. ASSUME s # <<>>, Unheard(p, s) PROVE Unheard(p, Tail(s)) BY <1>2, Tails DEF Unheard
<1>3. ASSUME NEW m \in Msg, m.kind # "request", Unread(p, s) PROVE Unread(p, Append(s, m))
  BY <1>3, Appends DEF Unread
<1>4. Unread(p, <<>>) /\ Unserved(p, <<>>) BY DEF Unread, Unserved
<1>. QED BY <1>1, <1>2, <1>3, <1>4

\* What a request's place among the plugin's output becomes.
LEMMA Ways ==
    ASSUME CallPathAssumption, NEW c \in Calls, NEW out \in Seq(Msg), NEW in, OnWay(c, out, in)
    PROVE  /\ \A m \in Msg : /\ OnWay(c, Append(out, m), in)
                             /\ Ahead(c, out, in) => Ahead(c, Append(out, m), in)
           /\ out # <<>> /\ in = <<>> =>
                /\ OnWay(c, Tail(out), <<Head(out)>>)
                /\ Ahead(c, out, in) => Ahead(c, Tail(out), <<Head(out)>>)
                /\ Head(out).kind # "request" =>
                     /\ OnWay(c, Tail(out), in)
                     /\ Ahead(c, out, in) => Ahead(c, Tail(out), in)
           /\ \A x : in = <<x>> /\ x # ToCall("request", c) =>
                /\ OnWay(c, out, <<>>)
                /\ Ahead(c, out, in) => Ahead(c, out, <<>>)
<1>1. ASSUME NEW m \in Msg
      PROVE  /\ OnWay(c, Append(out, m), in)
             /\ Ahead(c, out, in) => Ahead(c, Append(out, m), in)
  <2>1. OnWay(c, Append(out, m), in) BY Appends DEF OnWay, Holds
  <2>2. ASSUME Ahead(c, out, in) PROVE Ahead(c, Append(out, m), in)
    <3>1. CASE Holds(in, ToCall("request", c)) BY <3>1 DEF Ahead
    <3>2. CASE Holds(out, ToCall("request", c))
      <4>1. PICK i \in DOMAIN out : out[i] = ToCall("request", c) BY <3>2 DEF Holds
      <4>. QED BY <2>2, <4>1, Appends DEF Ahead
    <3>. QED BY <3>1, <3>2 DEF OnWay
  <2>. QED BY <2>1, <2>2
<1>2. ASSUME out # <<>>, in = <<>>
      PROVE  /\ OnWay(c, Tail(out), <<Head(out)>>)
             /\ Ahead(c, out, in) => Ahead(c, Tail(out), <<Head(out)>>)
             /\ Head(out).kind # "request" =>
                  /\ OnWay(c, Tail(out), in)
                  /\ Ahead(c, out, in) => Ahead(c, Tail(out), in)
  <2>1. PICK k \in DOMAIN out : out[k] = ToCall("request", c) BY <1>2 DEF OnWay, Holds
  <2>2. 1 \in DOMAIN <<Head(out)>> /\ <<Head(out)>>[1] = Head(out) OBVIOUS
  <2>3. \/ Head(out) = ToCall("request", c)
        \/ \E i \in DOMAIN Tail(out) : Tail(out)[i] = ToCall("request", c)
    <3>1. CASE k = 1 BY <1>2, <2>1, <3>1, Tails
    <3>2. CASE k # 1
      <4>1. k - 1 \in DOMAIN Tail(out) /\ Tail(out)[k - 1] = out[k] BY <1>2, <3>2, Tails
      <4>. QED BY <2>1, <4>1
    <3>. QED BY <3>1, <3>2
  <2>4. ASSUME Ahead(c, out, in), Head(out) # ToCall("request", c)
        PROVE  Ahead(c, Tail(out), in)
    <3> SUFFICES ASSUME NEW j \in DOMAIN Tail(out), Tail(out)[j] = ToCall("answer", Parent[c])
                 PROVE  \E i \in DOMAIN Tail(out) : i < j /\ Tail(out)[i] = ToCall("request", c)
      BY DEF Ahead
    <3>1. j + 1 \in DOMAIN out /\ out[j + 1] = ToCall("answer", Parent[c]) BY <1>2, Tails
    <3>2. PICK i \in DOMAIN out : i < j + 1 /\ out[i] = ToCall("request", c)
      BY <1>2, <2>4, <3>1 DEF Ahead, Holds
    <3>3. i # 1 BY <1>2, <2>4, <3>2, Tails
    <3>4. i - 1 \in DOMAIN Tail(out) /\ Tail(out)[i - 1] = out[i] /\ i \in Nat /\ j \in Nat
      BY <1>2, <3>3, Tails
    <3>. QED BY <3>2, <3>4
  <2>5. Head(out).kind # "request" => Head(out) # ToCall("request", c) BY ToCalls
  <2>6. Head(out).kind # "request" => OnWay(c, Tail(out), in)
    BY <2>3, <2>5 DEF OnWay, Holds
  <2>7. OnWay(c, Tail(out), <<Head(out)>>) BY <2>2, <2>3 DEF OnWay, Holds
  <2>8. Ahead(c, out, in) => Ahead(c, Tail(out), <<Head(out)>>)
    <3>1. CASE Head(out) = ToCall("request", c) BY <2>2, <3>1 DEF Ahead, Holds
    <3>2. CASE Head(out) # ToCall("request", c) BY <1>2, <2>4, <3>2 DEF Ahead, Holds
    <3>. QED BY <3>1, <3>2
  <2>. QED BY <1>2, <2>4, <2>5, <2>6, <2>7, <2>8
<1>3. ASSUME NEW x, in = <<x>>, x # ToCall("request", c)
      PROVE  /\ OnWay(c, out, <<>>)
             /\ Ahead(c, out, in) => Ahead(c, out, <<>>)
  <2>1. ~ Holds(in, ToCall("request", c)) BY <1>3 DEF Holds
  <2>. QED BY <2>1 DEF OnWay, Ahead
<1>. QED BY <1>1, <1>2, <1>3

\* How a step moves what plugin p has written: not at all, or a message is added that p
\* may say, or the router's reader takes one, or has dealt with the one it took.
MaySay(p, m) ==
    /\ m.kind = "request" => Asked(p, m)
    /\ m.kind = "answer" => work[m.call] = "answered" /\ provider[m.call] = p
Flow(p) ==
    \/ stdout'[p] = stdout[p] /\ inbox'[p] = inbox[p]
    \/ /\ \E m \in Msg : stdout'[p] = Append(stdout[p], m) /\ MaySay(p, m)'
       /\ inbox'[p] = inbox[p]
    \/ /\ stdout[p] # <<>> /\ inbox[p] = <<>> /\ stdout'[p] = Tail(stdout[p])
       /\ \/ inbox'[p] = <<Head(stdout[p])>>
          \/ Head(stdout[p]).kind # "request" /\ inbox'[p] = inbox[p]
    \/ /\ stdout'[p] = stdout[p] /\ inbox'[p] = <<>>
       /\ \E x : inbox[p] = <<x>> /\ (x.kind = "request" => route'[x.call] # "no")

\* What a plugin has written stays true as it moves.
LEMMA FlowTrue ==
    ASSUME CallPathAssumption, Inv, Stable, NEW p \in Plugins, Flow(p)
    PROVE  Unheard(p, stdout[p])' /\ Unserved(p, inbox[p])'
<1>1. PICK o \in Seq(Msg), i \in Seq(Msg) : /\ o = stdout[p] /\ i = inbox[p]
                                            /\ Unheard(p, o) /\ Unserved(p, i)
  BY DEF Inv, CallTypeOK, PipesTrue
<1>2. Unheard(p, o)' /\ Unserved(p, i)' BY <1>1, UnheardStays, UnservedStays
<1>3. CASE stdout'[p] = o /\ inbox'[p] = i BY <1>2, <1>3 DEF Unheard, Unserved
<1>4. ASSUME NEW m \in Msg, stdout'[p] = Append(o, m), MaySay(p, m)', inbox'[p] = i
      PROVE  Unheard(p, stdout[p])' /\ Unserved(p, inbox[p])'
  <2>1. \A k \in DOMAIN Append(o, m) : Append(o, m)[k] = m \/ (k \in DOMAIN o /\ Append(o, m)[k] = o[k])
    BY Appends
  <2>. QED BY <1>2, <1>4, <2>1 DEF Unheard, Unserved, MaySay
<1>5. ASSUME o # <<>>, stdout'[p] = Tail(o), inbox'[p] = <<Head(o)>>
      PROVE  Unheard(p, stdout[p])' /\ Unserved(p, inbox[p])'
  <2>1. Unheard(p, Tail(o))' BY <1>1, <1>5, Pipes, Tails, UnheardStays
  <2>2. Head(o) \in Msg /\ (Head(o).kind = "request" => Asked(p, Head(o)))
    BY <1>1, <1>5, Tails DEF Unheard
  <2>3. Head(o).kind = "request" => Asked(p, Head(o))'
    <3>1. PICK h \in Msg : h = Head(o) BY <2>2
    <3>. QED BY <2>2, <3>1, AskedStays
  <2>4. Len(<<Head(o)>>) <= 1 /\ \A k \in DOMAIN <<Head(o)>> : <<Head(o)>>[k] = Head(o) OBVIOUS
  <2>. QED BY <1>5, <2>1, <2>3, <2>4 DEF Unheard, Unserved
<1>6. ASSUME o # <<>>, stdout'[p] = Tail(o), inbox'[p] = i
      PROVE  Unheard(p, stdout[p])' /\ Unserved(p, inbox[p])'
  <2>1. Unheard(p, Tail(o))' BY <1>1, <1>6, Pipes, Tails, UnheardStays
  <2>. QED BY <1>2, <1>6, <2>1 DEF Unheard, Unserved
<1>7. CASE stdout'[p] = o /\ inbox'[p] = <<>>
  BY <1>2, <1>7 DEF Unheard, Unserved
<1>. QED BY <1>1, <1>3, <1>4, <1>5, <1>6, <1>7 DEF Flow

\* A request on its way stays on it, and ahead of the answer of its parent.
LEMMA FlowKeeps ==
    ASSUME CallPathAssumption, Inv, Stable, NEW c \in Calls, Issued(c), route'[c] = "no",
           Flow(Caller(c))
    PROVE  /\ OnWay(c, stdout[Caller(c)], inbox[Caller(c)])'
           /\ c \in early => Ahead(c, stdout[Caller(c)], inbox[Caller(c)])'
<1>1. PICK p \in Plugins : Caller(c) = p /\ Caller(c)' = p BY CallerStays
<1>2. PICK o, i : o = stdout[p] /\ i = inbox[p] OBVIOUS
<1>3. /\ o \in Seq(Msg) /\ OnWay(c, o, i) /\ (c \in early => Ahead(c, o, i))
  BY <1>1, <1>2 DEF Inv, CallTypeOK, InOrder, Stable
<1>4. /\ \A m \in Msg : /\ OnWay(c, Append(o, m), i)
                        /\ Ahead(c, o, i) => Ahead(c, Append(o, m), i)
      /\ o # <<>> /\ i = <<>> =>
           /\ OnWay(c, Tail(o), <<Head(o)>>)
           /\ Ahead(c, o, i) => Ahead(c, Tail(o), <<Head(o)>>)
           /\ Head(o).kind # "request" =>
                /\ OnWay(c, Tail(o), i)
                /\ Ahead(c, o, i) => Ahead(c, Tail(o), i)
      /\ \A x : i = <<x>> /\ x # ToCall("request", c) =>
           /\ OnWay(c, o, <<>>)
           /\ Ahead(c, o, i) => Ahead(c, o, <<>>)
  <2> HIDE DEF OnWay, Ahead
  <2>. QED BY ONLY CallPathAssumption, c \in Calls, <1>3, Ways
<1> DEFINE G == OnWay(c, stdout'[p], inbox'[p]) /\ (c \in early => Ahead(c, stdout'[p], inbox'[p]))
<1>5. G
  <2>1. CASE stdout'[p] = o /\ inbox'[p] = i BY <1>3, <2>1
  <2>2. ASSUME NEW m \in Msg, stdout'[p] = Append(o, m), inbox'[p] = i PROVE G
    BY <1>3, <1>4, <2>2
  <2>3. CASE /\ o # <<>> /\ i = <<>> /\ stdout'[p] = Tail(o)
             /\ \/ inbox'[p] = <<Head(o)>>
                \/ Head(o).kind # "request" /\ inbox'[p] = i
    BY <1>3, <1>4, <2>3
  <2>4. ASSUME NEW x, stdout'[p] = o, inbox'[p] = <<>>, i = <<x>>,
               x.kind = "request" => route'[x.call] # "no"
        PROVE  G
    <3>1. x # ToCall("request", c) BY <2>4, ToCalls
    <3>. QED BY <1>3, <1>4, <2>4, <3>1
  <2>. QED BY <1>1, <1>2, <2>1, <2>2, <2>3, <2>4 DEF Flow
<1>. QED BY <1>1, <1>5 DEF OnWay, Ahead

\* How a step moves the two sides of call c.
Sides(c) ==
    /\ Routed(c)' => provider'[c] \in Plugins
    /\ route'[c] # "no" => outer'[c] # "no"
    /\ work'[c] # "no" => Routed(c)
    /\ Issued(c)' => Issued(c) \/ work[Parent[c]] # "no"
    /\ c \in early' \cup denied' => c \in early \cup denied \/ Issued(c)'
    /\ route'[c] = "calling" => c \in deleg'
    /\ route'[c] = "answered" => work[c] = "answered"
    /\ route'[c] = "lost" => Routed(c) /\ provider[c] \notin alive
    /\ c \in deleg' => Routed(c)'
    /\ c \in deleg' /\ Parent[c] # None =>
         Issued(c) /\ inbox'[Caller(c)] = <<ToCall("request", c)>>

\* Of a child that is not yet dealt with, a step keeps it so while its parent is answered
\* or lost; and one that is denied may have been early only if the deadline came.
Children(c) ==
    /\ Issued(c)' /\ ~ Issued(c) =>
         /\ OnWay(c, stdout[Caller(c)], inbox[Caller(c)])'
         /\ c \in early' => /\ route'[Parent[c]] \notin {"answered", "lost"}
                            /\ Ahead(c, stdout[Caller(c)], inbox[Caller(c)])'
    /\ c \in early' => c \in early \/ ~ Issued(c)
    /\ c \in early /\ route'[c] = "no" /\ route'[Parent[c]] \in {"answered", "lost"} =>
         route'[Parent[c]] = route[Parent[c]]
    /\ c \in early' /\ c \in denied' =>
         (c \in early /\ c \in denied) \/ route'[Parent[c]] = "deadline"

\* Where call c stands before a step.
LEMMA SidesBefore ==
    ASSUME Inv, NEW c \in Calls
    PROVE  /\ Routed(c) => provider[c] \in Plugins
           /\ route[c] # "no" => outer[c] # "no"
           /\ work[c] # "no" => Routed(c)
           /\ Issued(c) => work[Parent[c]] # "no"
           /\ c \in early \cup denied => Issued(c)
           /\ route[c] = "calling" => c \in deleg
           /\ route[c] = "answered" => work[c] = "answered"
           /\ route[c] = "lost" => Routed(c) /\ provider[c] \notin alive
           /\ c \in deleg => Routed(c)
           /\ c \in deleg /\ Parent[c] # None =>
                Issued(c) /\ inbox[Caller(c)] = <<ToCall("request", c)>>
BY DEF Inv, SidesAgree, Routed

\* A step that keeps the invariant part by part.
LEMMA StepKeeps ==
    ASSUME CallPathAssumption, Inv, Stable, \A p \in Plugins : Unread(p, stdin[p])',
           \A p \in Plugins : Flow(p), \A c \in Calls : Sides(c) /\ Children(c)
    PROVE  Inv'
<1>1. PipesTrue'
  <2>1. ASSUME NEW p \in Plugins PROVE Unheard(p, stdout[p])' /\ Unserved(p, inbox[p])'
    BY FlowTrue
  <2>. QED BY <2>1 DEF PipesTrue
<1>2. SidesAgree'
  <2>1. ASSUME NEW c \in Calls, c \in deleg', Parent[c] # None
        PROVE  Issued(c)' /\ inbox'[Caller(c)'] = <<ToCall("request", c)>>
    <3>1. Issued(c) /\ inbox'[Caller(c)] = <<ToCall("request", c)>> BY <2>1 DEF Sides
    <3>2. Caller(c)' = Caller(c) BY <3>1, CallerStays
    <3>. QED BY <3>1, <3>2 DEF Stable, Issued
  <2>2. ASSUME NEW c \in Calls
        PROVE  /\ Routed(c)' => provider'[c] \in Plugins
               /\ route'[c] # "no" => outer'[c] # "no"
               /\ work'[c] # "no" => Routed(c)'
               /\ c \in early' \cup denied' => Issued(c)'
               /\ route'[c] = "calling" => c \in deleg'
               /\ route'[c] = "answered" => work'[c] = "answered"
               /\ route'[c] = "lost" => provider'[c] \notin alive'
               /\ c \in deleg' => Routed(c)'
    BY DEF Inv, Stable, Sides, SidesAgree, Issued
  <2>3. ASSUME NEW c \in Calls, Issued(c)' PROVE work'[Parent[c]] # "no"
    <3>1. Parent[c] \in Calls BY <2>3 DEF Issued, CallPathAssumption
    <3>2. work[Parent[c]] # "no" BY <2>3 DEF Sides, Inv, SidesAgree
    <3>. QED BY <3>1, <3>2 DEF Stable
  <2>. QED BY <2>1, <2>2, <2>3 DEF SidesAgree
<1>3. InOrder'
  <2> SUFFICES ASSUME NEW c \in Calls, Issued(c)', route'[c] = "no"
               PROVE  /\ OnWay(c, stdout[Caller(c)], inbox[Caller(c)])'
                      /\ c \in early' =>
                           /\ route'[Parent[c]] \notin {"answered", "lost"}
                           /\ Ahead(c, stdout[Caller(c)], inbox[Caller(c)])'
    BY DEF InOrder
  <2>1. CASE ~ Issued(c) BY <2>1 DEF Children
  <2>2. CASE Issued(c)
    <3>1. /\ OnWay(c, stdout[Caller(c)], inbox[Caller(c)])'
          /\ c \in early => Ahead(c, stdout[Caller(c)], inbox[Caller(c)])'
      <4>1. Caller(c) \in Plugins BY <2>2, CallerStays
      <4>. QED BY <2>2, <4>1, FlowKeeps
    <3>2. c \in early' => c \in early BY <2>2 DEF Children
    <3>3. c \in early => route'[Parent[c]] \notin {"answered", "lost"}
      <4>1. route[c] = "no" BY DEF Stable
      <4>. QED BY <2>2, <4>1 DEF Inv, InOrder, Children
    <3>. QED BY <3>1, <3>2, <3>3
  <2>. QED BY <2>1, <2>2
<1>4. EarlyChildAdmitted'
  <2> SUFFICES ASSUME NEW c \in early' \cap denied' PROVE route'[Parent[c]] = "deadline"
    BY DEF EarlyChildAdmitted
  <2>1. c \in Calls BY DEF Stable, CallTypeOK
  <2>2. CASE c \in early /\ c \in denied
    <3>1. route[Parent[c]] = "deadline" BY <2>2 DEF Inv, EarlyChildAdmitted
    <3>2. Issued(c) BY <2>1, <2>2 DEF Inv, SidesAgree
    <3>3. Parent[c] \in Calls BY <2>1, <3>2, CallerStays
    <3>. QED BY <3>1, <3>3 DEF Stable
  <2>. QED BY <2>1, <2>2 DEF Children
<1>. QED BY <1>1, <1>2, <1>3, <1>4 DEF Inv, Stable

\* A step that only writes to plugins, or drops what they have not read.
LEMMA QuietKeeps ==
    ASSUME CallPathAssumption, Inv, CallTypeOK',
           UNCHANGED <<outer, early, route, provider, deleg, denied, work, stdout, inbox, alive>>,
           \A p \in Plugins : Unread(p, stdin'[p])
    PROVE  Inv'
<1>1. Stable BY DEF Stable, Routed, Issued
<1>2. ASSUME NEW p \in Plugins PROVE Unread(p, stdin[p])' BY DEF Unread, Routed
<1>3. \A p \in Plugins : Flow(p) BY DEF Flow
<1>4. ASSUME NEW c \in Calls PROVE Sides(c)
  BY DEF Sides, Routed, Issued, Inv, SidesAgree
<1>5. ASSUME NEW c \in Calls PROVE Children(c)
  BY DEF Children, Issued, Inv, EarlyChildAdmitted
<1>. QED BY <1>1, <1>2, <1>3, <1>4, <1>5, StepKeeps

\* What is written to a plugin.
LEMMA Writes ==
    ASSUME Inv, NEW p, NEW m \in Msg, p \in Plugins \/ p \notin alive
    PROVE  /\ Written(p, m) \in [Plugins -> Seq(Msg)]
           /\ \A x \in Plugins : \/ Written(p, m)[x] = stdin[x]
                                 \/ x = p /\ Written(p, m)[x] = Append(stdin[x], m)
<1>1. stdin \in [Plugins -> Seq(Msg)] BY DEF Inv, CallTypeOK
<1>2. \A x \in Plugins : Append(stdin[x], m) \in Seq(Msg) BY <1>1, Appends
<1>. QED BY <1>1, <1>2 DEF Written

\* To write anything but a request leaves the pipes as true as they were.
LEMMA WritesUnread ==
    ASSUME Inv, NEW p, NEW m \in Msg, p \in Plugins \/ p \notin alive, m.kind # "request"
    PROVE  \A x \in Plugins : Unread(x, Written(p, m)[x])
<1>1. ASSUME NEW x \in Plugins PROVE Unread(x, Written(p, m)[x])
  <2>1. Unread(x, stdin[x]) /\ stdin[x] \in Seq(Msg) BY DEF Inv, PipesTrue, CallTypeOK
  <2>2. Unread(x, Append(stdin[x], m)) BY <2>1, Pipes
  <2>3. Written(p, m)[x] = stdin[x] \/ Written(p, m)[x] = Append(stdin[x], m) BY Writes
  <2>4. CASE Written(p, m)[x] = stdin[x] BY <2>1, <2>4
  <2>5. CASE Written(p, m)[x] = Append(stdin[x], m) BY <2>2, <2>5
  <2>. QED BY <2>3, <2>4, <2>5
<1>. QED BY <1>1

\* A heartbeat, answered in time or not.
LEMMA PingKeeps ==
    ASSUME CallPathAssumption, Inv, NEW p \in Plugins, Ping(p) \/ PingTimeout(p) PROVE Inv'
<1>1. UNCHANGED <<outer, early, route, provider, deleg, inflight, denied, work, stdout, inbox, alive>>
  BY DEF Ping, PingTimeout
<1>2. /\ stdin' \in [Plugins -> Seq(Msg)]
      /\ \A x \in Plugins : Unread(x, stdin'[x])
  <2>1. CASE Ping(p)
    <3>1. stdin' = Written(p, ToCall("ping", None)) BY <2>1 DEF Ping
    <3>. QED BY <3>1, Writes, WritesUnread, ToCalls
  <2>2. CASE PingTimeout(p) BY <2>2 DEF PingTimeout, Inv, CallTypeOK, PipesTrue
  <2>. QED BY <2>1, <2>2
<1>3. /\ ping' \in [Plugins -> [out : BOOLEAN, sent : Nat]]
      /\ \A x \in Plugins : ping'[x].sent <= MaxPings[x]
  <2>1. /\ ping \in [Plugins -> [out : BOOLEAN, sent : Nat]] /\ MaxPings \in [Plugins -> Nat]
        /\ \A x \in Plugins : ping[x].sent <= MaxPings[x]
    BY DEF Inv, CallTypeOK, CallPathAssumption
  <2>2. CASE Ping(p)
    <3>1. ping[p].sent + 1 \in Nat /\ ping[p].sent + 1 <= MaxPings[p] BY <2>1, <2>2 DEF Ping
    <3>2. ping' = [ping EXCEPT ![p] = [out |-> TRUE, sent |-> ping[p].sent + 1]]
      BY <2>2 DEF Ping
    <3>. QED BY <2>1, <3>1, <3>2
  <2>3. CASE PingTimeout(p) BY <2>1, <2>3 DEF PingTimeout
  <2>. QED BY <2>2, <2>3
<1>4. CallTypeOK' BY <1>1, <1>2, <1>3 DEF Inv, CallTypeOK
<1>. QED BY <1>1, <1>2, <1>4, QuietKeeps

\* An outside client cancels.
LEMMA GatewayCancelKeeps ==
    ASSUME CallPathAssumption, Inv, NEW c \in Calls, GatewayCancel(c) PROVE Inv'
<1>1. /\ UNCHANGED <<outer, early, route, provider, deleg, inflight, denied, work, stdout, inbox, ping, alive>>
      /\ stdin' = Written(provider[c], ToCall("cancel", c))
  BY DEF GatewayCancel
<1>2. provider[c] \in Plugins \/ provider[c] \notin alive BY DEF Inv, CallTypeOK, CallPathAssumption
<1>3. stdin' \in [Plugins -> Seq(Msg)] /\ \A x \in Plugins : Unread(x, stdin'[x])
  <2>1. ToCall("cancel", c) \in Msg /\ ToCall("cancel", c).kind # "request" BY ToCalls
  <2>. QED BY <1>1, <1>2, <2>1, Writes, WritesUnread
<1>4. CallTypeOK' BY <1>1, <1>3 DEF Inv, CallTypeOK
<1>. QED BY <1>1, <1>3, <1>4, QuietKeeps

\* A step that changes neither how calls are routed nor which have been issued.
LEMMA LocalKeeps ==
    ASSUME CallPathAssumption, Inv, CallTypeOK', UNCHANGED <<route, provider, deleg, early, denied>>,
           alive' \subseteq alive,
           \A c \in Calls : /\ outer'[c] = "no" <=> outer[c] = "no"
                            /\ work[c] = "answered" => work'[c] = "answered"
                            /\ work[c] # "no" => work'[c] # "no"
                            /\ work'[c] # "no" => Routed(c),
           \A p \in Plugins : Flow(p),
           \A p \in Plugins : Unread(p, stdin'[p]),
           \A p \in Plugins : \A i \in DOMAIN stdin'[p] :
             stdin'[p][i].kind = "request" => work'[stdin'[p][i].call] = "no",
           \A p \in Plugins : \/ inbox'[p] = inbox[p]
                              \/ inbox[p] = <<>>
                              \/ \E x : inbox[p] = <<x>> /\ x.kind # "request"
    PROVE  Inv'
<1>1. Stable BY DEF Stable, Routed
<1>2. ASSUME NEW p \in Plugins PROVE Unread(p, stdin[p])' BY DEF Unread, Routed
<1>3. ASSUME NEW c \in Calls PROVE Sides(c)
  <2>1. ASSUME c \in deleg, Parent[c] # None
        PROVE  Issued(c) /\ inbox'[Caller(c)] = <<ToCall("request", c)>>
    <3>1. Issued(c) /\ inbox[Caller(c)] = <<ToCall("request", c)>>
      BY <2>1 DEF Inv, SidesAgree
    <3>2. Caller(c) \in Plugins BY <1>1, <3>1, CallerStays
    <3>3. \A x : <<ToCall("request", c)>> = <<x>> => x.kind = "request" BY ToCalls
    <3>4. <<ToCall("request", c)>> # <<>> OBVIOUS
    <3>. QED
      <4>1. PICK p \in Plugins : p = Caller(c) BY <3>2
      <4>2. inbox[p] # <<>> /\ ~\E x : inbox[p] = <<x>> /\ x.kind # "request"
        BY <3>1, <3>3, <3>4, <4>1
      <4>3. inbox'[p] = inbox[p] BY <4>2
      <4>. QED BY <3>1, <4>1, <4>3
  <2>. QED BY <2>1 DEF Sides, Routed, Inv, SidesAgree, Issued
<1>4. ASSUME NEW c \in Calls PROVE Children(c)
  BY DEF Children, Inv, EarlyChildAdmitted, Issued
<1>. QED BY <1>1, <1>2, <1>3, <1>4, StepKeeps

\* What plugin p says.
LEMMA Saying ==
    ASSUME Inv, NEW p \in Plugins, NEW m \in Msg, Says(p, <<m>>)
    PROVE  /\ stdout' \in [Plugins -> Seq(Msg)] /\ stdout'[p] = Append(stdout[p], m)
           /\ \A x \in Plugins : x # p => stdout'[x] = stdout[x]
<1>1. stdout \in [Plugins -> Seq(Msg)] BY DEF Inv, CallTypeOK
<1>2. stdout[p] \o <<m>> = Append(stdout[p], m) /\ Append(stdout[p], m) \in Seq(Msg)
  BY <1>1, Appends
<1>. QED BY <1>1, <1>2 DEF Says

\* What the pipes to the plugins hold, as long as nothing is put into them.
LEMMA StillUnread ==
    ASSUME Inv, NEW p \in Plugins
    PROVE  /\ stdin[p] \in Seq(Msg) /\ Unread(p, stdin[p])
           /\ \A i \in DOMAIN stdin[p] :
                /\ stdin[p][i] \in Msg
                /\ stdin[p][i].kind = "request" =>
                     /\ stdin[p][i].call \in Calls /\ work[stdin[p][i].call] = "no"
                     /\ Routed(stdin[p][i].call) /\ provider[stdin[p][i].call] = p
<1>1. stdin[p] \in Seq(Msg) /\ Unread(p, stdin[p]) BY DEF Inv, CallTypeOK, PipesTrue
<1>2. \A i \in DOMAIN stdin[p] : stdin[p][i] \in Msg BY <1>1
<1>. QED BY <1>1, <1>2, Messages DEF Unread

\* The timer of a plugin that calls.
LEMMA HostTimeoutKeeps ==
    ASSUME CallPathAssumption, Inv, NEW c \in Calls, HostTimeout(c) PROVE Inv'
<1> DEFINE m == ToCall("cancel", c)
<1>1. /\ outer[c] = "waiting" /\ Caller(c) \in Plugins /\ outer' = [outer EXCEPT ![c] = "gaveUp"]
      /\ Says(Caller(c), <<m>>)
      /\ UNCHANGED <<provider, early, route, deleg, inflight, denied, work, stdin, inbox, ping, alive>>
  BY DEF HostTimeout, Inv, CallTypeOK
<1>2. m \in Msg /\ m.kind = "cancel" BY ToCalls
<1> HIDE DEF m
<1>3. /\ stdout' \in [Plugins -> Seq(Msg)] /\ stdout'[Caller(c)] = Append(stdout[Caller(c)], m)
      /\ \A x \in Plugins : x # Caller(c) => stdout'[x] = stdout[x]
  BY <1>1, <1>2, Saying
<1>4. CallTypeOK' BY <1>1, <1>3 DEF Inv, CallTypeOK
<1>5. \A p \in Plugins : Flow(p) BY <1>1, <1>2, <1>3 DEF Flow, MaySay
<1>6. \A x \in Calls : outer'[x] = "no" <=> outer[x] = "no" BY <1>1 DEF Inv, CallTypeOK
<1>. QED BY <1>1, <1>4, <1>5, <1>6, StillUnread, LocalKeeps DEF Inv, SidesAgree

\* A handler answers: every early child is on its way, and the answer is behind it.
LEMMA AnswerKeeps ==
    ASSUME CallPathAssumption, Inv, NEW c \in Calls, Answer(c) PROVE Inv'
<1> DEFINE m == ToCall("answer", c)
           p == provider[c]
<1>1. /\ work[c] \in {"running", "cancelled"} /\ p \in Plugins
      /\ work' = [work EXCEPT ![c] = "answered"] /\ Says(p, <<m>>)
      /\ UNCHANGED <<provider, outer, early, route, deleg, inflight, denied, stdin, inbox, ping, alive>>
  BY DEF Answer, Inv, CallTypeOK
<1>2. m \in Msg /\ m.kind = "answer" /\ m.call = c BY ToCalls
<1> HIDE DEF m
<1>3. /\ stdout' \in [Plugins -> Seq(Msg)] /\ stdout'[p] = Append(stdout[p], m)
      /\ \A x \in Plugins : x # p => stdout'[x] = stdout[x]
  BY <1>1, <1>2, Saying
<1>4. CallTypeOK' BY <1>1, <1>3 DEF Inv, CallTypeOK
<1>5. work'[c] = "answered" /\ \A x \in Calls : x # c => work'[x] = work[x]
  BY <1>1 DEF Inv, CallTypeOK
<1>6. \A x \in Plugins : Flow(x) BY <1>1, <1>2, <1>3, <1>5 DEF Flow, MaySay
<1>7. \A x \in Calls : /\ outer'[x] = "no" <=> outer[x] = "no"
                       /\ work'[x] # "no" => Routed(x)
                       /\ work[x] = "no" => work'[x] = "no"
  BY <1>1, <1>5 DEF Inv, SidesAgree, Issued
<1>. QED BY <1>1, <1>4, <1>5, <1>6, <1>7, StillUnread, LocalKeeps

\* What the router's reader takes of p.
LEMMA TakenOff ==
    ASSUME Inv, NEW p \in Plugins, NEW K, Reads(p, K)
    PROVE  /\ inbox[p] = <<>> /\ stdout[p] # <<>> /\ Head(stdout[p]) \in Msg
           /\ Head(stdout[p]).kind \in K
           /\ stdout' \in [Plugins -> Seq(Msg)] /\ stdout'[p] = Tail(stdout[p])
           /\ \A x \in Plugins : x # p => stdout'[x] = stdout[x]
<1>1. stdout \in [Plugins -> Seq(Msg)] BY DEF Inv, CallTypeOK
<1>2. Tail(stdout[p]) \in Seq(Msg) /\ Head(stdout[p]) \in Msg BY <1>1, Tails DEF Reads
<1>. QED BY <1>1, <1>2 DEF Reads, ReaderFree

\* The reader passes on a request or a cancel.
LEMMA ReadControlKeeps ==
    ASSUME CallPathAssumption, Inv, NEW p \in Plugins, ReadControl(p) PROVE Inv'
<1> DEFINE h == Head(stdout[p])
<1>1. /\ inbox[p] = <<>> /\ stdout[p] # <<>> /\ h \in Msg
      /\ stdout' \in [Plugins -> Seq(Msg)] /\ stdout'[p] = Tail(stdout[p])
      /\ \A x \in Plugins : x # p => stdout'[x] = stdout[x]
      /\ inbox' = [inbox EXCEPT ![p] = Append(@, h)]
      /\ UNCHANGED <<provider, outer, early, route, deleg, inflight, denied, work, stdin, ping, alive>>
  BY TakenOff DEF ReadControl
<1>2. /\ inbox' \in [Plugins -> Seq(Msg)] /\ inbox'[p] = <<h>>
      /\ \A x \in Plugins : x # p => inbox'[x] = inbox[x]
  <2>1. Append(<<>>, h) = <<h>> /\ <<h>> \in Seq(Msg) BY <1>1
  <2>. QED BY <1>1, <2>1 DEF Inv, CallTypeOK
<1>3. CallTypeOK' BY <1>1, <1>2 DEF Inv, CallTypeOK
<1>4. \A x \in Plugins : Flow(x) BY <1>1, <1>2 DEF Flow
<1>. QED BY <1>1, <1>2, <1>3, <1>4, StillUnread, LocalKeeps DEF Inv, SidesAgree, Issued

\* The reader takes the answer to a heartbeat.
LEMMA ReadPongKeeps ==
    ASSUME CallPathAssumption, Inv, NEW p \in Plugins, ReadPong(p) PROVE Inv'
<1>1. /\ inbox[p] = <<>> /\ stdout[p] # <<>> /\ Head(stdout[p]).kind # "request"
      /\ stdout' \in [Plugins -> Seq(Msg)] /\ stdout'[p] = Tail(stdout[p])
      /\ \A x \in Plugins : x # p => stdout'[x] = stdout[x]
      /\ ping' = [ping EXCEPT ![p].out = FALSE]
      /\ UNCHANGED <<provider, outer, early, route, deleg, inflight, denied, work, stdin, inbox, alive>>
  BY TakenOff DEF ReadPong
<1>2. CallTypeOK'
  <2>1. /\ ping' \in [Plugins -> [out : BOOLEAN, sent : Nat]]
        /\ \A x \in Plugins : ping'[x].sent <= MaxPings[x]
    <3>1. /\ ping \in [Plugins -> [out : BOOLEAN, sent : Nat]]
          /\ \A x \in Plugins : ping[x].sent <= MaxPings[x]
      BY DEF Inv, CallTypeOK
    <3>2. ping' = [ping EXCEPT ![p] = [ping[p] EXCEPT !.out = FALSE]] BY <1>1
    <3>3. [ping[p] EXCEPT !.out = FALSE] \in [out : BOOLEAN, sent : Nat] BY <3>1
    <3>4. [ping[p] EXCEPT !.out = FALSE].sent = ping[p].sent BY <3>1
    <3>. QED BY <3>1, <3>2, <3>3, <3>4
  <2>. QED BY <1>1, <2>1 DEF Inv, CallTypeOK
<1>3. \A x \in Plugins : Flow(x) BY <1>1 DEF Flow
<1>. QED BY <1>1, <1>2, <1>3, StillUnread, LocalKeeps DEF Inv, SidesAgree, Issued

\* A plugin reads one message.
LEMMA ServeKeeps ==
    ASSUME CallPathAssumption, Inv, NEW p \in Plugins, Serve(p) PROVE Inv'
<1>1. PICK s \in Seq(Msg) : s = stdin[p] /\ s # <<>> /\ Unread(p, s)
  BY StillUnread DEF Serve
<1>2. PICK m \in Msg : m = Head(s) BY <1>1, Tails
<1>3. /\ work' = CASE m.kind = "request" -> [work EXCEPT ![m.call] = "running"]
                   [] m.kind = "cancel" -> CancelledWork(m.call)
                   [] OTHER -> work
      /\ outer' = IF m.kind = "answer" /\ outer[m.call] = "waiting"
                    THEN [outer EXCEPT ![m.call] = "answered"] ELSE outer
      /\ Says(p, IF m.kind = "ping" THEN <<ToCall("pong", None)>> ELSE <<>>)
      /\ stdin' = [stdin EXCEPT ![p] = Tail(s)]
      /\ UNCHANGED <<provider, early, route, deleg, inflight, denied, inbox, ping, alive>>
  BY <1>1, <1>2 DEF Serve
<1>4. /\ m.kind = "request" => m.call \in Calls /\ work[m.call] = "no" /\ Routed(m.call)
      /\ m.kind \in {"answer", "cancel"} => m.call \in Calls
      /\ m.kind = "request" => \A i \in DOMAIN Tail(s) : Tail(s)[i] # m
      /\ Unread(p, Tail(s)) /\ Tail(s) \in Seq(Msg)
  <2>1. s[1] = m /\ 1 \in DOMAIN s BY <1>1, <1>2, Tails
  <2>2. Unread(p, Tail(s)) /\ (m.kind = "request" => \A i \in DOMAIN Tail(s) : Tail(s)[i] # m)
    BY <1>1, <1>2, Pipes
  <2>. QED BY <1>1, <2>1, <2>2, Messages, Tails DEF Unread
<1>5. /\ work' \in [Calls -> {"no", "running", "cancelled", "answered"}]
      /\ \A x \in Calls : /\ work[x] = "answered" => work'[x] = "answered"
                          /\ work[x] # "no" => work'[x] # "no"
                          /\ work'[x] # "no" => Routed(x)
                          /\ work[x] = "no" => work'[x] = "no" \/ (m.kind = "request" /\ x = m.call)
  <2>1. work \in [Calls -> {"no", "running", "cancelled", "answered"}]
        /\ \A x \in Calls : work[x] # "no" => Routed(x)
    BY DEF Inv, CallTypeOK, SidesAgree
  <2>2. CASE m.kind = "request" BY <1>3, <1>4, <2>1, <2>2
  <2>3. CASE m.kind = "cancel" BY <1>3, <1>4, <2>1, <2>3 DEF CancelledWork
  <2>4. CASE m.kind \notin {"request", "cancel"} BY <1>3, <2>1, <2>4
  <2>. QED BY <2>2, <2>3, <2>4
<1>6. /\ outer' \in [Calls -> {"no", "waiting", "answered", "gaveUp"}]
      /\ \A x \in Calls : outer'[x] = "no" <=> outer[x] = "no"
  BY <1>3, <1>4 DEF Inv, CallTypeOK
<1>7. stdout' \in [Plugins -> Seq(Msg)] /\ \A x \in Plugins : Flow(x)
  <2>1. CASE m.kind = "ping"
    <3>1. ToCall("pong", None) \in Msg /\ ToCall("pong", None).kind = "pong" BY ToCalls
    <3>2. Says(p, <<ToCall("pong", None)>>) BY <1>3, <2>1
    <3>3. /\ stdout' \in [Plugins -> Seq(Msg)]
          /\ stdout'[p] = Append(stdout[p], ToCall("pong", None))
          /\ \A x \in Plugins : x # p => stdout'[x] = stdout[x]
      BY <3>1, <3>2, Saying
    <3>. QED BY <1>3, <3>1, <3>3 DEF Flow, MaySay
  <2>2. CASE m.kind # "ping"
    <3>1. Says(p, <<>>) /\ stdout \in [Plugins -> Seq(Msg)] BY <1>3, <2>2 DEF Inv, CallTypeOK
    <3>2. stdout[p] \o <<>> = stdout[p] BY <3>1
    <3>3. stdout' = stdout BY <3>1, <3>2 DEF Says
    <3>. QED BY <1>3, <3>1, <3>3 DEF Flow
  <2>. QED BY <2>1, <2>2
<1>8. /\ stdin' \in [Plugins -> Seq(Msg)] /\ stdin'[p] = Tail(s)
      /\ \A x \in Plugins : x # p => stdin'[x] = stdin[x]
  BY <1>3, <1>4 DEF Inv, CallTypeOK
<1>9. CallTypeOK' BY <1>3, <1>5, <1>6, <1>7, <1>8 DEF Inv, CallTypeOK
<1>10. ASSUME NEW x \in Plugins PROVE Unread(x, stdin'[x])
  <2>1. CASE x = p BY <1>4, <1>8, <2>1
  <2>2. CASE x # p
    <3>1. stdin'[x] = stdin[x] BY <1>8, <2>2
    <3>. QED BY <3>1, StillUnread
  <2>. QED BY <2>1, <2>2
<1>11. ASSUME NEW x \in Plugins, NEW i \in DOMAIN stdin'[x], stdin'[x][i].kind = "request"
       PROVE  work'[stdin'[x][i].call] = "no"
  <2>1. stdin'[x][i] \in Msg /\ stdin'[x][i].call \in Calls BY <1>8, <1>11, Messages
  <2>2. work[stdin'[x][i].call] = "no" /\ provider[stdin'[x][i].call] = x
    BY <1>10, <1>11 DEF Unread
  <2>3. ~ (m.kind = "request" /\ stdin'[x][i].call = m.call)
    <3> SUFFICES ASSUME m.kind = "request", stdin'[x][i].call = m.call PROVE FALSE
      OBVIOUS
    <3>1. stdin'[x][i] = m BY <1>11, <2>1, Messages
    <3>2. provider[m.call] = p BY <1>1, <1>2, Tails DEF Unread
    <3>. QED BY <1>4, <1>8, <1>11, <2>2, <3>1, <3>2
  <2>. QED BY <1>5, <2>1, <2>2, <2>3
<1>. QED BY <1>3, <1>5, <1>6, <1>7, <1>9, <1>10, <1>11, LocalKeeps

\* A plugin exits.
LEMMA ExitKeeps ==
    ASSUME CallPathAssumption, Inv, NEW p \in Plugins, Exit(p) PROVE Inv'
<1>1. /\ alive' = alive \ {p} /\ stdin' = [stdin EXCEPT ![p] = <<>>]
      /\ outer' = [c \in Calls |-> IF Caller(c) = p /\ outer[c] = "waiting"
                                     THEN "gaveUp" ELSE outer[c]]
      /\ UNCHANGED <<provider, early, route, deleg, inflight, denied, work, stdout, inbox, ping>>
  BY DEF Exit
<1>2. /\ stdin' \in [Plugins -> Seq(Msg)] /\ stdin'[p] = <<>>
      /\ \A x \in Plugins : x # p => stdin'[x] = stdin[x]
  <2>1. <<>> \in Seq(Msg) OBVIOUS
  <2>. QED BY <1>1, <2>1 DEF Inv, CallTypeOK
<1>3. CallTypeOK' /\ \A x \in Calls : outer'[x] = "no" <=> outer[x] = "no"
  BY <1>1, <1>2 DEF Inv, CallTypeOK
<1>4. \A x \in Plugins : Flow(x) BY <1>1 DEF Flow
<1>5. ASSUME NEW x \in Plugins PROVE Unread(x, stdin'[x])
  <2>1. CASE x = p BY <1>2, <2>1 DEF Unread
  <2>2. CASE x # p
    <3>1. stdin'[x] = stdin[x] BY <1>2, <2>2
    <3>. QED BY <3>1, StillUnread
  <2>. QED BY <2>1, <2>2
<1>6. \A x \in Plugins : \A i \in DOMAIN stdin'[x] :
        stdin'[x][i].kind = "request" => work'[stdin'[x][i].call] = "no"
  BY <1>1, <1>5 DEF Unread
<1>. QED BY <1>1, <1>3, <1>4, <1>5, <1>6, LocalKeeps DEF Inv, SidesAgree

\* The request or cancel the router is dealing with.
LEMMA Inside ==
    ASSUME CallPathAssumption, Inv, NEW p \in Plugins, NEW k \in {"request", "cancel"}, Serving(p, k)
    PROVE  /\ Inbound(p) \in Calls /\ inbox[p] = <<ToCall(k, Inbound(p))>>
           /\ k = "request" => Issued(Inbound(p)) /\ Caller(Inbound(p)) = p
           /\ Acknowledged(p) \in [Plugins -> Seq(Msg)] /\ Acknowledged(p)[p] = <<>>
           /\ \A x \in Plugins : x # p => Acknowledged(p)[x] = inbox[x]
<1>1. PICK s \in Seq(Msg) : s = inbox[p] /\ s # <<>> /\ Len(s) <= 1 /\ Unserved(p, s)
  BY DEF Serving, Inv, CallTypeOK, PipesTrue, Unserved
<1>2. s = <<Head(s)>> /\ Tail(s) = <<>> /\ Head(s) = s[1] /\ 1 \in DOMAIN s /\ Head(s) \in Msg
  BY <1>1
<1>3. Head(s).kind = k /\ Inbound(p) = Head(s).call BY <1>1 DEF Serving, Inbound
<1>4. Inbound(p) \in Calls /\ Head(s) = ToCall(k, Inbound(p)) BY <1>2, <1>3, Messages
<1>5. k = "request" => Issued(Inbound(p)) /\ Caller(Inbound(p)) = p
  BY <1>1, <1>2, <1>3 DEF Unserved, Asked
<1>6. inbox \in [Plugins -> Seq(Msg)] /\ <<>> \in Seq(Msg) BY DEF Inv, CallTypeOK
<1>. QED BY <1>1, <1>2, <1>4, <1>5, <1>6 DEF Acknowledged

\* The router forwards a cancel.
LEMMA ServeCancelKeeps ==
    ASSUME CallPathAssumption, Inv, NEW p \in Plugins, ServeCancel(p) PROVE Inv'
<1> DEFINE c == Inbound(p)
           m == ToCall("cancel", c)
<1>1. /\ stdin' = (IF c \in inflight THEN Written(provider[c], m) ELSE stdin)
      /\ inbox' = Acknowledged(p) /\ Serving(p, "cancel")
      /\ UNCHANGED <<provider, outer, early, route, deleg, inflight, denied, work, stdout, ping, alive>>
  BY DEF ServeCancel
<1>2. /\ c \in Calls /\ inbox[p] = <<m>> /\ inbox' \in [Plugins -> Seq(Msg)] /\ inbox'[p] = <<>>
      /\ \A x \in Plugins : x # p => inbox'[x] = inbox[x]
  BY <1>1, Inside
<1>3. m \in Msg /\ m.kind = "cancel" BY <1>2, ToCalls
<1> HIDE DEF m
<1>4. provider[c] \in Plugins \/ provider[c] \notin alive
  BY <1>2 DEF Inv, CallTypeOK, CallPathAssumption
<1>5. stdin' \in [Plugins -> Seq(Msg)] /\ \A x \in Plugins : Unread(x, stdin'[x])
  <2>1. CASE c \in inflight
    <3>1. stdin' = Written(provider[c], m) BY <1>1, <2>1
    <3>. QED BY <1>3, <1>4, <3>1, Writes, WritesUnread
  <2>2. CASE c \notin inflight
    <3>1. stdin' = stdin BY <1>1, <2>2
    <3>. QED BY <3>1, StillUnread DEF Inv, CallTypeOK
  <2>. QED BY <2>1, <2>2
<1>6. CallTypeOK' BY <1>1, <1>2, <1>5 DEF Inv, CallTypeOK
<1>7. \A x \in Plugins : Flow(x) BY <1>1, <1>2, <1>3 DEF Flow
<1>8. \A x \in Plugins : \A i \in DOMAIN stdin'[x] :
        stdin'[x][i].kind = "request" => work'[stdin'[x][i].call] = "no"
  BY <1>1, <1>5 DEF Unread
<1>9. \A x \in Calls : /\ outer'[x] = "no" <=> outer[x] = "no"
                       /\ work'[x] # "no" => Routed(x)
  BY <1>1 DEF Inv, SidesAgree, Issued
<1>10. \A x \in Plugins : inbox'[x] = inbox[x] \/ \E y : inbox[x] = <<y>> /\ y.kind # "request"
  BY <1>2, <1>3
<1>. QED BY <1>1, <1>5, <1>6, <1>7, <1>8, <1>9, <1>10, LocalKeeps

\* A call of the router ends: an answer, the deadline, or a process that is gone.  No child
\* that was early is left behind.
LEMMA EndsKeeps ==
    ASSUME CallPathAssumption, Inv, CallTypeOK', NEW c \in Calls,
           NEW v \in {"answered", "deadline", "lost"},
           route[c] = "calling", route' = [route EXCEPT ![c] = v],
           UNCHANGED <<provider, outer, early, deleg, denied, work, stdin, inbox, alive>>,
           \A p \in Plugins : Flow(p),
           v = "answered" => work[c] = "answered", v = "lost" => provider[c] \notin alive,
           v # "deadline" => \A d \in early : Parent[d] = c => route[d] # "no"
    PROVE  Inv'
<1>1. route'[c] = v /\ \A x \in Calls : x # c => route'[x] = route[x] BY DEF Inv, CallTypeOK
<1>2. Stable BY <1>1 DEF Stable, Routed
<1>3. ASSUME NEW p \in Plugins PROVE Unread(p, stdin[p])'
  <2>1. PICK s \in Seq(Msg) : s = stdin[p] /\ Unread(p, s) BY StillUnread
  <2>2. \A i \in DOMAIN s : s[i].kind = "request" => work'[s[i].call] = "no"
    BY <2>1 DEF Unread
  <2>3. Unread(p, s)' BY <1>2, <2>1, <2>2, UnreadStays
  <2>. QED BY <2>1, <2>3 DEF Unread
<1>4. ASSUME NEW x \in Calls PROVE Sides(x)
  <2>1. Routed(c) /\ Routed(c)' BY <1>1 DEF Routed
  <2>2. Routed(x)' <=> Routed(x) BY <1>1, <2>1 DEF Routed
  <2>3. Issued(x)' <=> Issued(x) BY DEF Issued
  <2>4. /\ route'[x] # "no" => outer'[x] # "no"
        /\ route'[x] = "calling" => x \in deleg'
        /\ route'[x] = "answered" => work[x] = "answered"
        /\ route'[x] = "lost" => Routed(x) /\ provider[x] \notin alive
    BY <1>1, <2>1 DEF Inv, SidesAgree, Routed
  <2>. QED BY <2>2, <2>3, <2>4 DEF Sides, Inv, SidesAgree
<1>5. ASSUME NEW x \in Calls PROVE Children(x)
  <2>1. x \in early => Issued(x) /\ Parent[x] \in Calls
    BY DEF Inv, SidesAgree, Issued, CallPathAssumption
  <2>2. x \in early /\ x \in denied => route[Parent[x]] = "deadline"
    BY DEF Inv, EarlyChildAdmitted
  <2>3. Issued(x)' <=> Issued(x) BY DEF Issued
  <2>. QED BY <1>1, <2>1, <2>2, <2>3 DEF Children
<1>. QED BY <1>2, <1>3, <1>4, <1>5, StepKeeps

\* The reader takes an answer: no early child is behind it.
LEMMA ReadAnswerKeeps ==
    ASSUME CallPathAssumption, Inv, NEW p \in Plugins, ReadAnswer(p) PROVE Inv'
<1> DEFINE h == Head(stdout[p])
           c == h.call
<1>1. /\ inbox[p] = <<>> /\ stdout[p] # <<>> /\ h \in Msg /\ h.kind = "answer"
      /\ stdout' \in [Plugins -> Seq(Msg)] /\ stdout'[p] = Tail(stdout[p])
      /\ \A x \in Plugins : x # p => stdout'[x] = stdout[x]
      /\ route' = IF route[c] = "calling" THEN [route EXCEPT ![c] = "answered"] ELSE route
      /\ UNCHANGED <<provider, outer, early, deleg, inflight, denied, work, stdin, inbox, ping, alive>>
  BY TakenOff DEF ReadAnswer
<1>2. /\ c \in Calls /\ h = ToCall("answer", c) /\ 1 \in DOMAIN stdout[p] /\ stdout[p][1] = h
      /\ work[c] = "answered" /\ provider[c] = p /\ stdout[p] \in Seq(Msg)
  <2>1. stdout[p] \in Seq(Msg) /\ Unheard(p, stdout[p]) BY DEF Inv, CallTypeOK, PipesTrue
  <2>2. 1 \in DOMAIN stdout[p] /\ stdout[p][1] = h BY <1>1, <2>1, Tails
  <2>. QED BY <1>1, <2>1, <2>2, Messages DEF Unheard
<1>3. CallTypeOK' BY <1>1, <1>2 DEF Inv, CallTypeOK
<1>4. \A x \in Plugins : Flow(x) BY <1>1 DEF Flow
<1>5. CASE route[c] = "calling"
  <2>1. ASSUME NEW d \in early, Parent[d] = c, route[d] = "no" PROVE FALSE
    <3>1. d \in Calls /\ Issued(d) BY DEF Inv, CallTypeOK, SidesAgree
    <3>2. Caller(d) = p BY <1>2, <2>1 DEF Caller, CallPathAssumption
    <3>3. Ahead(d, stdout[p], inbox[p]) BY <2>1, <3>1, <3>2 DEF Inv, InOrder
    <3>4. ~ Holds(inbox[p], ToCall("request", d)) BY <1>1 DEF Holds
    <3>5. \E k \in DOMAIN stdout[p] : k < 1 BY <1>2, <2>1, <3>3, <3>4 DEF Ahead
    <3>. QED BY <1>2, <3>5
  <2>2. route' = [route EXCEPT ![c] = "answered"] BY <1>1, <1>5
  <2> HIDE DEF c, h
  <2>. QED BY <1>1, <1>2, <1>3, <1>4, <1>5, <2>1, <2>2, EndsKeeps
<1>6. CASE route[c] # "calling"
  <2>1. route' = route BY <1>1, <1>6
  <2>. QED BY <1>1, <1>3, <1>4, <2>1, StillUnread, LocalKeeps DEF Inv, SidesAgree
<1>. QED BY <1>5, <1>6

\* The deadline of a call.
LEMMA CallTimeoutKeeps ==
    ASSUME CallPathAssumption, Inv, NEW c \in Calls, CallTimeout(c) PROVE Inv'
<1>1. /\ route[c] = "calling" /\ route' = [route EXCEPT ![c] = "deadline"]
      /\ UNCHANGED <<provider, outer, early, deleg, inflight, denied, work, stdin, stdout, inbox,
                     ping, alive>>
  BY DEF CallTimeout
<1>2. CallTypeOK' BY <1>1 DEF Inv, CallTypeOK
<1>3. \A p \in Plugins : Flow(p) BY <1>1 DEF Flow
<1>. QED BY <1>1, <1>2, <1>3, EndsKeeps

\* A call whose provider is gone: what it wrote has been read.
LEMMA CallLostKeeps ==
    ASSUME CallPathAssumption, Inv, NEW c \in Calls, CallLost(c) PROVE Inv'
<1>1. /\ route[c] = "calling" /\ route' = [route EXCEPT ![c] = "lost"] /\ provider[c] \notin alive
      /\ work[c] = "no" \/ (stdout[provider[c]] = <<>> /\ inbox[provider[c]] = <<>>)
      /\ UNCHANGED <<provider, outer, early, deleg, inflight, denied, work, stdin, stdout, inbox,
                     ping, alive>>
  BY DEF CallLost, ReaderFree
<1>2. CallTypeOK' BY <1>1 DEF Inv, CallTypeOK
<1>3. \A p \in Plugins : Flow(p) BY <1>1 DEF Flow
<1>4. ASSUME NEW d \in early, Parent[d] = c, route[d] = "no" PROVE FALSE
  <2>1. d \in Calls /\ Issued(d) /\ work[c] # "no" BY <1>4 DEF Inv, CallTypeOK, SidesAgree
  <2>2. Caller(d) = provider[c] BY <1>4 DEF Caller, CallPathAssumption
  <2>3. OnWay(d, stdout[provider[c]], inbox[provider[c]])
    BY <1>4, <2>1, <2>2 DEF Inv, InOrder
  <2>. QED BY <1>1, <2>1, <2>3 DEF OnWay, Holds
<1>. QED BY <1>1, <1>2, <1>3, <1>4, EndsKeeps

\* A request is refused: an early one only after the deadline of its parent.
LEMMA RefuseRequestKeeps ==
    ASSUME CallPathAssumption, Inv, NEW p \in Plugins, RefuseRequest(p) PROVE Inv'
<1> DEFINE c == Inbound(p)
           m == ToCall("answer", c)
<1>1. /\ Serving(p, "request") /\ route[c] = "no"
      /\ denied' = IF Parent[c] \in deleg THEN denied ELSE denied \cup {c}
      /\ route' = [route EXCEPT ![c] = "refused"] /\ stdin' = Written(p, m)
      /\ inbox' = Acknowledged(p)
      /\ UNCHANGED <<provider, outer, early, deleg, inflight, work, stdout, ping, alive>>
  BY DEF RefuseRequest
<1>2. /\ c \in Calls /\ inbox[p] = <<ToCall("request", c)>> /\ Issued(c) /\ Caller(c) = p
      /\ inbox' \in [Plugins -> Seq(Msg)] /\ inbox'[p] = <<>>
      /\ \A x \in Plugins : x # p => inbox'[x] = inbox[x]
  BY <1>1, Inside
<1>3. m \in Msg /\ m.kind = "answer" BY <1>2, ToCalls
<1> HIDE DEF m, c
<1>4. stdin' \in [Plugins -> Seq(Msg)] /\ \A x \in Plugins : Unread(x, stdin'[x])
  BY <1>1, <1>3, Writes, WritesUnread
<1>5. route'[c] = "refused" /\ \A x \in Calls : x # c => route'[x] = route[x]
  BY <1>1, <1>2 DEF Inv, CallTypeOK
<1>6. CallTypeOK' BY <1>1, <1>2, <1>4 DEF Inv, CallTypeOK
<1>7. ~ Routed(c) /\ \A x \in Calls : Routed(x)' <=> Routed(x) BY <1>1, <1>5 DEF Routed
<1>8. Stable BY <1>1, <1>5, <1>6, <1>7 DEF Stable
<1>9. ASSUME NEW x \in Plugins PROVE Unread(x, stdin[x])'
  <2>1. PICK s \in Seq(Msg) : s = stdin'[x] /\ Unread(x, s) BY <1>4
  <2>2. \A i \in DOMAIN s : s[i].kind = "request" => work'[s[i].call] = "no"
    BY <1>1, <2>1 DEF Unread
  <2>3. Unread(x, s)' BY <1>8, <2>1, <2>2, UnreadStays
  <2>. QED BY <2>1, <2>3 DEF Unread
<1>10. \A x \in Plugins : Flow(x)
  <2>1. ToCall("request", c).call = c BY ToCalls
  <2>. QED BY <1>1, <1>2, <1>5, <2>1 DEF Flow
<1>11. ASSUME NEW x \in Calls PROVE Sides(x)
  <2>1. ASSUME x \in deleg, Parent[x] # None
        PROVE  Issued(x) /\ inbox'[Caller(x)] = <<ToCall("request", x)>>
    <3>1. Issued(x) /\ inbox[Caller(x)] = <<ToCall("request", x)>> /\ Routed(x)
      BY <2>1 DEF Inv, SidesAgree
    <3>2. Caller(x) \in Plugins BY <1>8, <3>1, CallerStays
    <3>3. Caller(x) # p
      <4> SUFFICES ASSUME Caller(x) = p PROVE FALSE
        OBVIOUS
      <4>1. <<ToCall("request", x)>> = <<ToCall("request", c)>> BY <1>2, <3>1
      <4>2. ToCall("request", x) = ToCall("request", c) BY <4>1
      <4>3. x = c BY <4>2, ToCalls
      <4>. QED BY <1>7, <3>1, <4>3
    <3>. QED BY <1>2, <3>1, <3>2, <3>3
  <2>2. Issued(x)' <=> Issued(x) BY <1>1 DEF Issued
  <2>3. /\ Routed(x)' => provider'[x] \in Plugins
        /\ route'[x] # "no" => outer'[x] # "no"
        /\ work'[x] # "no" => Routed(x)
        /\ route'[x] = "calling" => x \in deleg'
        /\ route'[x] = "answered" => work[x] = "answered"
        /\ route'[x] = "lost" => Routed(x) /\ provider[x] \notin alive
        /\ x \in deleg' => Routed(x)'
    BY <1>1, <1>2, <1>5, <1>7 DEF Inv, SidesAgree, Issued, Routed
  <2>4. x \in early' \cup denied' => x \in early \cup denied \/ Issued(x)' BY <1>1, <1>2, <2>2
  <2>. QED BY <1>1, <2>1, <2>2, <2>3, <2>4 DEF Sides
<1>12. ASSUME NEW x \in Calls PROVE Children(x)
  <2>1. x \in early => Issued(x) /\ Parent[x] \in Calls
    BY DEF Inv, SidesAgree, Issued, CallPathAssumption
  <2>2. Issued(x)' <=> Issued(x) BY <1>1 DEF Issued
  <2>3. x \in early /\ x \in denied => route'[Parent[x]] = "deadline"
    <3>1. x \in early /\ x \in denied => route[Parent[x]] = "deadline"
      BY DEF Inv, EarlyChildAdmitted
    <3>. QED BY <1>1, <1>5, <2>1, <3>1
  <2>4. ASSUME x \in early, x \in denied', x \notin denied PROVE route'[Parent[x]] = "deadline"
    <3>1. x = c /\ Parent[c] \notin deleg BY <1>1, <2>4
    <3>2. Parent[c] \in Calls /\ work[Parent[c]] # "no" BY <1>2, <2>1, <2>4, <3>1 DEF Inv, SidesAgree
    <3>3. Routed(Parent[c]) /\ route[Parent[c]] # "calling" BY <3>1, <3>2 DEF Inv, SidesAgree
    <3>4. route[Parent[c]] \notin {"answered", "lost"}
      BY <1>1, <1>2, <2>4, <3>1 DEF Inv, InOrder
    <3>5. route[Parent[c]] = "deadline" BY <3>2, <3>3, <3>4 DEF Routed, Inv, CallTypeOK
    <3>. QED BY <1>1, <1>5, <3>1, <3>2, <3>5
  <2>. QED BY <1>1, <1>5, <2>1, <2>2, <2>3, <2>4 DEF Children
<1>. QED BY <1>8, <1>9, <1>10, <1>11, <1>12, StepKeeps

\* What is said of the pipes to the plugins stays true when nobody begins to work.
LEMMA NobodyBegins ==
    ASSUME Inv, Stable, \A c \in Calls : work[c] = "no" => work'[c] = "no",
           NEW p \in Plugins, stdin'[p] \in Seq(Msg), Unread(p, stdin'[p])
    PROVE  Unread(p, stdin[p])'
<1>1. PICK s \in Seq(Msg) : s = stdin'[p] /\ Unread(p, s) OBVIOUS
<1>2. \A i \in DOMAIN s : s[i].kind = "request" => work'[s[i].call] = "no"
  BY <1>1, Messages DEF Unread
<1>3. Unread(p, s)' BY <1>1, <1>2, UnreadStays
<1>. QED BY <1>1, <1>3 DEF Unread

\* An outside request is refused.
LEMMA GatewayRefuseKeeps ==
    ASSUME CallPathAssumption, Inv, NEW c \in Calls, GatewayRefuse(c) PROVE Inv'
<1>1. /\ outer[c] = "no" /\ Parent[c] = None /\ outer' = [outer EXCEPT ![c] = "answered"]
      /\ route' = [route EXCEPT ![c] = "refused"]
      /\ UNCHANGED <<provider, early, deleg, inflight, denied, work, stdin, stdout, inbox, ping, alive>>
  BY DEF GatewayRefuse
<1>2. /\ route[c] = "no" /\ route'[c] = "refused" /\ outer'[c] = "answered"
      /\ \A x \in Calls : x # c => route'[x] = route[x] /\ outer'[x] = outer[x]
  BY <1>1 DEF Inv, CallTypeOK, SidesAgree
<1>3. CallTypeOK' BY <1>1 DEF Inv, CallTypeOK
<1>4. /\ \A x \in Calls : Routed(x)' <=> Routed(x)
      /\ \A x \in Calls : Issued(x)' <=> Issued(x)
  BY <1>1, <1>2 DEF Routed, Issued
<1>5. Stable BY <1>1, <1>2, <1>3, <1>4 DEF Stable
<1>6. \A p \in Plugins : Unread(p, stdin[p])' BY <1>1, <1>5, StillUnread, NobodyBegins
<1>7. \A p \in Plugins : Flow(p) BY <1>1 DEF Flow
<1>8. ASSUME NEW x \in Calls PROVE Sides(x)
  <2>1. CASE x = c BY <1>1, <1>2, <1>4, <2>1, SidesBefore DEF Sides, Routed
  <2>2. CASE x # c BY <1>1, <1>2, <1>4, <2>2, SidesBefore DEF Sides
  <2>. QED BY <2>1, <2>2
<1>9. ASSUME NEW x \in Calls PROVE Children(x)
  <2>1. x \in early => Issued(x) /\ Parent[x] \in Calls
    BY DEF Inv, SidesAgree, Issued, CallPathAssumption
  <2>2. x \in early /\ x \in denied => route[Parent[x]] = "deadline"
    BY DEF Inv, EarlyChildAdmitted
  <2>. QED BY <1>1, <1>2, <1>4, <2>1, <2>2 DEF Children
<1>. QED BY <1>5, <1>6, <1>7, <1>8, <1>9, StepKeeps

\* The router takes a request on.
LEMMA AdmitKeeps ==
    ASSUME CallPathAssumption, Inv, NEW c \in Calls, Admit(c), route[c] = "no",
           outer' \in [Calls -> {"no", "waiting", "answered", "gaveUp"}],
           \A x \in Calls : outer[x] # "no" => outer'[x] # "no",
           \A x \in Calls : Issued(x)' <=> Issued(x), outer'[c] # "no",
           Parent[c] # None => Issued(c) /\ inbox[Caller(c)] = <<ToCall("request", c)>>,
           UNCHANGED <<early, denied, work, stdout, inbox, ping, alive>>
    PROVE  Inv'
<1> DEFINE m == ToCall("request", c)
<1>1. PICK q \in Plugins : /\ route' = [route EXCEPT ![c] = "calling"]
                           /\ provider' = [provider EXCEPT ![c] = q]
                           /\ deleg' = deleg \cup {c} /\ inflight' = inflight \cup {c}
                           /\ stdin' = Written(q, m)
  BY DEF Admit, CallPathAssumption
<1>2. m \in Msg /\ m.kind = "request" /\ m.call = c BY ToCalls
<1> HIDE DEF m
<1>3. /\ route'[c] = "calling" /\ provider'[c] = q
      /\ \A x \in Calls : x # c => route'[x] = route[x] /\ provider'[x] = provider[x]
  BY <1>1 DEF Inv, CallTypeOK
<1>4. /\ stdin' \in [Plugins -> Seq(Msg)]
      /\ \A x \in Plugins : stdin'[x] = stdin[x] \/ (x = q /\ stdin'[x] = Append(stdin[x], m))
  BY <1>1, <1>2, Writes
<1>5. CallTypeOK' BY <1>1, <1>4 DEF Inv, CallTypeOK
<1>6. ~ Routed(c) /\ Routed(c)' /\ \A x \in Calls : x # c => (Routed(x)' <=> Routed(x))
  BY <1>3 DEF Routed
<1>7. Stable BY <1>1, <1>3, <1>5, <1>6 DEF Stable
<1>8. ASSUME NEW x \in Plugins PROVE Unread(x, stdin[x])'
  <2>1. PICK s \in Seq(Msg) : s = stdin[x] /\ Unread(x, s) BY StillUnread
  <2>2. \A i \in DOMAIN s : s[i].kind = "request" => work'[s[i].call] = "no"
    BY <2>1 DEF Unread
  <2>3. Unread(x, s)' BY <1>7, <2>1, <2>2, UnreadStays
  <2>4. CASE stdin'[x] = s BY <2>3, <2>4 DEF Unread
  <2>5. CASE x = q /\ stdin'[x] = Append(s, m)
    <3>1. \A i \in DOMAIN s : s[i] # m
      BY <1>2, <1>6, <2>1 DEF Unread
    <3>2. work'[c] = "no" BY <1>6 DEF Inv, SidesAgree
    <3>3. \A i \in DOMAIN Append(s, m) : \/ i = Len(s) + 1 /\ Append(s, m)[i] = m
                                         \/ i \in DOMAIN s /\ Append(s, m)[i] = s[i]
      BY <1>2, Appends
    <3>. QED BY <1>2, <1>3, <1>6, <2>3, <2>5, <3>1, <3>2, <3>3 DEF Unread
  <2>. QED BY <1>4, <2>1, <2>4, <2>5
<1>9. \A p \in Plugins : Flow(p) BY DEF Flow
<1>10. ASSUME NEW x \in Calls PROVE Sides(x)
  <2>1. CASE x = c
    BY <1>1, <1>3, <1>6, <2>1 DEF Sides, Inv, SidesAgree
  <2>2. CASE x # c
    BY <1>1, <1>3, <1>6, <2>2, SidesBefore DEF Sides, Stable
  <2>. QED BY <2>1, <2>2
<1>11. ASSUME NEW x \in Calls PROVE Children(x)
  <2>1. x \in early => Issued(x) /\ Parent[x] \in Calls
    BY DEF Inv, SidesAgree, Issued, CallPathAssumption
  <2>2. x \in early /\ x \in denied => route[Parent[x]] = "deadline"
    BY DEF Inv, EarlyChildAdmitted
  <2>. QED BY <1>3, <1>7, <2>1, <2>2 DEF Children, Stable
<1>. QED BY <1>7, <1>8, <1>9, <1>10, <1>11, StepKeeps

\* An outside request is admitted.
LEMMA GatewayInvokeKeeps ==
    ASSUME CallPathAssumption, Inv, NEW c \in Calls, GatewayInvoke(c) PROVE Inv'
<1>1. /\ outer[c] = "no" /\ Parent[c] = None /\ outer' = [outer EXCEPT ![c] = "waiting"] /\ Admit(c)
      /\ UNCHANGED <<early, denied, work, stdout, inbox, ping, alive>>
  BY DEF GatewayInvoke
<1>2. /\ outer' \in [Calls -> {"no", "waiting", "answered", "gaveUp"}]
      /\ \A x \in Calls : outer[x] # "no" => outer'[x] # "no"
      /\ \A x \in Calls : Issued(x)' <=> Issued(x)
      /\ outer'[c] # "no" /\ route[c] = "no"
  BY <1>1 DEF Inv, CallTypeOK, SidesAgree, Issued
<1>. QED BY <1>1, <1>2, AdmitKeeps

\* A request of a plugin is admitted.
LEMMA ServeRequestKeeps ==
    ASSUME CallPathAssumption, Inv, NEW p \in Plugins, ServeRequest(p) PROVE Inv'
<1> DEFINE c == Inbound(p)
<1>1. /\ Serving(p, "request") /\ route[c] = "no" /\ Admit(c)
      /\ UNCHANGED <<outer, early, denied, work, stdout, inbox, ping, alive>>
  BY DEF ServeRequest
<1>2. c \in Calls /\ inbox[p] = <<ToCall("request", c)>> /\ Issued(c) /\ Caller(c) = p
  BY <1>1, Inside
<1>3. /\ outer' \in [Calls -> {"no", "waiting", "answered", "gaveUp"}]
      /\ \A x \in Calls : Issued(x)' <=> Issued(x)
      /\ outer'[c] # "no"
  BY <1>1, <1>2 DEF Inv, CallTypeOK, Issued
<1> HIDE DEF c
<1>. QED BY <1>1, <1>2, <1>3, AdmitKeeps

\* A handler calls.
LEMMA IssueKeeps ==
    ASSUME CallPathAssumption, Inv, NEW c \in Calls, Issue(c) PROVE Inv'
<1> DEFINE m == ToCall("request", c)
           d == Parent[c]
           p == Caller(c)
<1>1. /\ outer[c] = "no" /\ d # None /\ work[d] # "no" /\ p \in Plugins /\ p \in alive
      /\ outer' = [outer EXCEPT ![c] = "waiting"]
      /\ early' = IF work[d] = "answered" THEN early ELSE early \cup {c}
      /\ Says(p, <<m>>)
      /\ UNCHANGED <<provider, route, deleg, inflight, denied, work, stdin, inbox, ping, alive>>
  BY DEF Issue, Inv, CallTypeOK
<1>2. m \in Msg /\ m.kind = "request" /\ m.call = c BY ToCalls
<1>3. d \in Calls /\ p = provider[d] BY <1>1 DEF CallPathAssumption, Caller
<1> HIDE DEF m
<1>4. /\ stdout' \in [Plugins -> Seq(Msg)] /\ stdout'[p] = Append(stdout[p], m)
      /\ \A x \in Plugins : x # p => stdout'[x] = stdout[x]
  BY <1>1, <1>2, Saying
<1>5. /\ outer'[c] = "waiting" /\ \A x \in Calls : x # c => outer'[x] = outer[x]
      /\ outer' \in [Calls -> {"no", "waiting", "answered", "gaveUp"}]
  BY <1>1 DEF Inv, CallTypeOK
<1>6. CallTypeOK' BY <1>1, <1>4, <1>5 DEF Inv, CallTypeOK
<1>7. /\ ~ Issued(c) /\ Issued(c)' /\ c \notin early \cup denied /\ route[c] = "no"
      /\ \A x \in Calls : x # c => (Issued(x)' <=> Issued(x))
  BY <1>1, <1>5 DEF Issued, Inv, SidesAgree
<1>8. Stable BY <1>1, <1>5, <1>6 DEF Stable, Routed
<1>9. \A x \in Plugins : Unread(x, stdin[x])' BY <1>1, <1>8, StillUnread, NobodyBegins
<1>10. p = Caller(c)' /\ MaySay(p, m)'
  BY <1>1, <1>2, <1>7 DEF MaySay, Asked, Caller
<1>11. \A x \in Plugins : Flow(x)
  <2>1. Flow(p) BY <1>1, <1>2, <1>4, <1>10 DEF Flow
  <2>2. ASSUME NEW x \in Plugins, x # p PROVE Flow(x) BY <1>1, <1>4, <2>2 DEF Flow
  <2>. QED BY <2>1, <2>2
<1>12. ASSUME NEW x \in Calls PROVE Sides(x)
  <2>1. Routed(x)' <=> Routed(x) BY <1>1 DEF Routed
  <2>2. CASE x = c BY <1>1, <1>5, <1>7, <2>1, <2>2, SidesBefore DEF Sides
  <2>3. CASE x # c BY <1>1, <1>5, <1>7, <2>1, <2>3, SidesBefore DEF Sides
  <2>. QED BY <2>2, <2>3
<1>13. stdout[p] \in Seq(Msg) /\ Unheard(p, stdout[p]) /\ Routed(d)
  BY <1>1, <1>3 DEF Inv, CallTypeOK, PipesTrue, SidesAgree
<1>14. OnWay(c, stdout[Caller(c)], inbox[Caller(c)])'
  BY <1>2, <1>4, <1>10, <1>13, Appends DEF OnWay, Holds, m
<1>15. ASSUME c \in early'
       PROVE  /\ route'[d] \notin {"answered", "lost"}
              /\ Ahead(c, stdout[Caller(c)], inbox[Caller(c)])'
  <2>1. work[d] # "answered" BY <1>1, <1>7, <1>15
  <2>2. route[d] \notin {"answered", "lost"}
    BY <1>1, <1>3, <2>1 DEF Inv, SidesAgree
  <2>3. \A j \in DOMAIN stdout'[p] : stdout'[p][j] # ToCall("answer", d)
    <3>1. \A j \in DOMAIN stdout[p] : stdout[p][j] # ToCall("answer", d)
      <4>1. ToCall("answer", d).kind = "answer" /\ ToCall("answer", d).call = d BY ToCalls
      <4>. QED BY <1>13, <2>1, <4>1 DEF Unheard
    <3>2. m # ToCall("answer", d) BY <1>2, ToCalls
    <3>. QED BY <1>2, <1>4, <1>13, <3>1, <3>2, Appends
  <2>. QED BY <1>1, <1>10, <2>2, <2>3 DEF Ahead
<1>16. ASSUME NEW x \in Calls PROVE Children(x)
  <2>1. x \in early => Issued(x) /\ Parent[x] \in Calls
    BY DEF Inv, SidesAgree, Issued, CallPathAssumption
  <2>2. x \in early /\ x \in denied => route[Parent[x]] = "deadline"
    BY DEF Inv, EarlyChildAdmitted
  <2>3. CASE x = c BY <1>1, <1>7, <1>14, <1>15, <2>3 DEF Children
  <2>4. CASE x # c BY <1>1, <1>7, <2>1, <2>2, <2>4 DEF Children
  <2>. QED BY <2>3, <2>4
<1>. QED BY <1>8, <1>9, <1>11, <1>12, <1>16, StepKeeps

\* What a plugin is sent when the call it serves has timed out.
LEMMA Cancels ==
    ASSUME CallPathAssumption, Inv, NEW c \in Calls
    PROVE  /\ CancelOnTimeout(c) \in [Plugins -> Seq(Msg)]
           /\ \A x \in Plugins : Unread(x, CancelOnTimeout(c)[x])
<1> DEFINE m == ToCall("cancel", c)
<1>1. m \in Msg /\ m.kind # "request" BY ToCalls
<1> HIDE DEF m
<1>2. provider[c] \in Plugins \/ provider[c] \notin alive BY DEF Inv, CallTypeOK, CallPathAssumption
<1>3. CASE route[c] = "deadline"
  <2>1. CancelOnTimeout(c) = Written(provider[c], m) BY <1>3 DEF CancelOnTimeout, m
  <2>. QED BY <1>1, <1>2, <2>1, Writes, WritesUnread
<1>4. CASE route[c] # "deadline"
  <2>1. CancelOnTimeout(c) = stdin BY <1>4 DEF CancelOnTimeout
  <2>. QED BY <2>1, StillUnread DEF Inv, CallTypeOK
<1>. QED BY <1>3, <1>4

\* The router is done with a call.
LEMMA ReturnKeeps ==
    ASSUME CallPathAssumption, Inv, NEW c \in Calls, Return(c) PROVE Inv'
<1> DEFINE sent == CancelOnTimeout(c)
           p == Caller(c)
           m == ToCall("answer", c)
<1>1. /\ c \in deleg /\ route[c] # "calling" /\ deleg' = deleg \ {c} /\ inflight' = inflight \ {c}
      /\ UNCHANGED <<provider, early, route, denied, work, stdout, ping, alive>>
  BY DEF Return
<1>2. Routed(c) /\ outer[c] # "no" BY <1>1, SidesBefore DEF Routed
<1>3. m \in Msg /\ m.kind = "answer" BY ToCalls
<1>4. sent \in [Plugins -> Seq(Msg)] /\ \A x \in Plugins : Unread(x, sent[x]) BY Cancels
<1>5. /\ outer' \in [Calls -> {"no", "waiting", "answered", "gaveUp"}]
      /\ \A x \in Calls : outer'[x] = "no" <=> outer[x] = "no"
  BY <1>2 DEF Return, Inv, CallTypeOK
<1>6. /\ stdin' \in [Plugins -> Seq(Msg)]
      /\ \A x \in Plugins : stdin'[x] = sent[x] \/ stdin'[x] = Append(sent[x], m)
  <2>1. CASE stdin' = sent BY <1>4, <2>1
  <2>2. CASE p \in alive /\ stdin' = [sent EXCEPT ![p] = Append(@, m)]
    <3>1. p \in Plugins BY <2>2 DEF Inv, CallTypeOK
    <3> HIDE DEF p, sent, m
    <3>2. Append(sent[p], m) \in Seq(Msg) BY <1>3, <1>4, <3>1
    <3>. QED BY <1>4, <2>2, <3>1, <3>2
  <2>3. stdin' = sent \/ (p \in alive /\ stdin' = [sent EXCEPT ![p] = Append(@, m)])
    BY DEF Return
  <2>. QED BY <2>1, <2>2, <2>3
<1>7. ASSUME NEW x \in Plugins PROVE Unread(x, stdin'[x])
  <2> HIDE DEF sent, m
  <2>1. Unread(x, Append(sent[x], m)) BY <1>3, <1>4, Pipes
  <2>2. CASE stdin'[x] = sent[x] BY <1>4, <2>2
  <2>3. CASE stdin'[x] = Append(sent[x], m) BY <2>1, <2>3
  <2>. QED BY <1>6, <2>2, <2>3
<1>8. \/ Parent[c] = None /\ inbox' = inbox
      \/ /\ Parent[c] # None /\ p \in Plugins /\ inbox[p] = <<ToCall("request", c)>> /\ Issued(c)
         /\ inbox' \in [Plugins -> Seq(Msg)] /\ inbox'[p] = <<>>
         /\ \A x \in Plugins : x # p => inbox'[x] = inbox[x]
  <2>1. CASE Parent[c] = None BY <2>1 DEF Return
  <2>2. CASE Parent[c] # None
    <3>1. Issued(c) /\ inbox[p] = <<ToCall("request", c)>> BY <1>1, <2>2, SidesBefore
    <3>2. p \in Plugins
      <4>1. Parent[c] \in Calls /\ work[Parent[c]] # "no"
        BY <2>2, <3>1, SidesBefore DEF CallPathAssumption
      <4>. QED BY <2>2, <4>1, SidesBefore DEF Caller
    <3>3. Serving(p, "request") BY <3>1, ToCalls DEF Serving
    <3>4. inbox' = Acknowledged(p) BY <2>2 DEF Return
    <3>. QED BY <2>2, <3>1, <3>2, <3>3, <3>4, Inside
  <2>. QED BY <2>1, <2>2
<1>9. inbox' \in [Plugins -> Seq(Msg)] BY <1>8 DEF Inv, CallTypeOK
<1>10. CallTypeOK' BY <1>1, <1>5, <1>6, <1>9 DEF Inv, CallTypeOK
<1> HIDE DEF sent, p, m
<1>11. /\ \A x \in Calls : Routed(x)' <=> Routed(x)
       /\ \A x \in Calls : Issued(x)' <=> Issued(x)
  BY <1>1, <1>5 DEF Routed, Issued
<1>12. Stable BY <1>1, <1>5, <1>10, <1>11 DEF Stable
<1>13. \A x \in Plugins : Unread(x, stdin[x])' BY <1>1, <1>6, <1>7, <1>12, NobodyBegins
<1>14. \A x \in Plugins : Flow(x)
  <2>1. ToCall("request", c).call = c /\ route'[c] # "no" BY <1>1, <1>2, ToCalls DEF Routed
  <2>. QED BY <1>1, <1>8, <2>1 DEF Flow
<1>15. ASSUME NEW x \in Calls PROVE Sides(x)
  <2>1. ASSUME x \in deleg, x # c, Parent[x] # None
        PROVE  Issued(x) /\ inbox'[Caller(x)] = <<ToCall("request", x)>>
    <3>1. Issued(x) /\ inbox[Caller(x)] = <<ToCall("request", x)>> BY <2>1, SidesBefore
    <3>2. Caller(x) \in Plugins BY <1>12, <3>1, CallerStays
    <3>3. inbox[Caller(x)] # <<ToCall("request", c)>>
      <4>1. <<ToCall("request", x)>> = <<ToCall("request", c)>>
              => ToCall("request", x) = ToCall("request", c)
        OBVIOUS
      <4>2. ToCall("request", x) # ToCall("request", c) BY <2>1, ToCalls
      <4>. QED BY <3>1, <4>1, <4>2
    <3>. QED BY <1>8, <3>1, <3>2, <3>3
  <2>2. /\ route'[x] # "no" => outer'[x] # "no"
        /\ route'[x] = "calling" => x \in deleg'
    BY <1>1, <1>5, SidesBefore
  <2>. QED BY <1>1, <1>11, <2>1, <2>2, SidesBefore DEF Sides
<1>16. ASSUME NEW x \in Calls PROVE Children(x)
  BY <1>1, <1>11, SidesBefore DEF Children, Inv, EarlyChildAdmitted
<1>. QED BY <1>12, <1>13, <1>14, <1>15, <1>16, StepKeeps

\* Nobody has called yet.
LEMMA Initially == ASSUME CallPathAssumption, CallInit PROVE Inv
<1>1. CallTypeOK
  <2>1. <<>> \in Seq(Msg) OBVIOUS
  <2>. QED BY <2>1 DEF CallInit, CallTypeOK, CallPathAssumption
<1>2. PipesTrue BY DEF CallInit, PipesTrue, Unread, Unheard, Unserved
<1>3. SidesAgree BY DEF CallInit, SidesAgree, Routed, Issued
<1>4. InOrder BY DEF CallInit, InOrder, Issued
<1>5. EarlyChildAdmitted BY DEF CallInit, EarlyChildAdmitted
<1>. QED BY <1>1, <1>2, <1>3, <1>4, <1>5 DEF Inv

\* Every step keeps the invariant.
LEMMA NextKeeps == ASSUME CallPathAssumption, Inv, [CallNext]_callVars PROVE Inv'
<1>1. CASE UNCHANGED callVars
  BY <1>1 DEF callVars, Inv, CallTypeOK, PipesTrue, Unread, Unheard, Unserved, SidesAgree, InOrder,
              EarlyChildAdmitted, Issued, Routed, Asked, Caller
<1>. QED
  BY <1>1, IssueKeeps, HostTimeoutKeeps, AnswerKeeps, GatewayInvokeKeeps, GatewayRefuseKeeps,
     CallTimeoutKeeps, CallLostKeeps, ReturnKeeps, GatewayCancelKeeps, ServeKeeps,
     ReadControlKeeps, ReadAnswerKeeps, ReadPongKeeps, ServeRequestKeeps, RefuseRequestKeeps,
     ServeCancelKeeps, PingKeeps, ExitKeeps
     DEF CallNext, Reading

\* The state invariant of the call path, with what it promises of a plugin's output: the
\* router reads it in order (serveInbound, readLoop).
THEOREM CallInvariance == CallSpec => []Inv
<1>1. CallInit => Inv BY CallPathAssumption, Initially
<1>2. Inv /\ [CallNext]_callVars => Inv' BY CallPathAssumption, NextKeeps
<1>. QED BY <1>1, <1>2, PTL DEF CallSpec

\* A call that a handler makes before it answers is admitted, unless the deadline of its
\* own call has come (kernel/docs/13, section 2).
THEOREM EarlyChildrenAreAdmitted == CallSpec => []EarlyChildAdmitted
<1>1. Inv => EarlyChildAdmitted BY DEF Inv
<1>. QED BY <1>1, CallInvariance, PTL
=============================================================================
