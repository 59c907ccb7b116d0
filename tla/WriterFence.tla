----------------------------- MODULE WriterFence -----------------------------
(***************************************************************************)
(* One stateful authority: the registry of the kernel chooses its writer,  *)
(* stamps commands with the writer's epoch and persists the lease; plugin  *)
(* processes execute the commands under the authority's file lock and      *)
(* refuse the ones whose stamp is not the lease in the file.               *)
(*                                                                         *)
(* Every registry operation runs under the mutex of the registry, so it is *)
(* one action.  The exception is the promotion of a writer, which waits    *)
(* for the file lock with the mutex held: BeginPromote takes the mutex     *)
(* (promoting # NoPromotion) and PersistLease or PersistFails gives it     *)
(* back; no other registry operation runs in between.  Health reports come *)
(* from the supervisor and the router at any time.                         *)
(*                                                                         *)
(* A protected function may itself call the kernel: tool.run and           *)
(* artifact.collect_diff store their output with blob.put before they      *)
(* record it.  The call needs the registry's mutex and has a timer.        *)
(***************************************************************************)
EXTENDS Integers, Sequences

CONSTANTS
    Runtime,        \* runtime ids; a process has a fresh one and never reuses it
    Capability,     \* the commands of the authority
    Exports,        \* Exports[r]: the capabilities runtime r serves
    Command,        \* message ids of commands
    NoOne,          \* the empty runtime id
    NoCommand,      \* the file lock is free
    FailureLimit,   \* failures in a row that open the circuit (3 in the code)
    HeartbeatLimit, \* lost heartbeats that make a runtime unhealthy (3)
    MaxEpoch,       \* bound: promotions
    MaxCrash      \* bound: crashes of the kernel

ASSUME FenceAssumption ==
    /\ NoOne \notin Runtime
    /\ NoCommand \notin Command
    /\ Exports \in [Runtime -> SUBSET Capability]
    /\ FailureLimit \in Nat \ {0}
    /\ HeartbeatLimit \in Nat \ {0}
    /\ MaxEpoch \in Nat
    /\ MaxCrash \in Nat

VARIABLES
    up,         \* the kernel process runs
    crashes,   \* how often it died
    proc,       \* proc[r]: "new", "running" or "exited"
    registered, \* runtimes with entries in the registry
    health,     \* health[r]: the health flags of r's entries
    writer,     \* the registry's lease: runtime id (memory of the kernel)
    epoch,      \* the registry's lease: epoch (memory of the kernel)
    promoting,  \* the promotion that holds the registry's mutex
    lease,      \* the lease file
    lock,       \* the command whose handler holds the file lock
    cmd,        \* cmd[c]: where the command is, its target and its stamp
    log         \* records committed to the authority's storage

registryVars == <<registered, health, writer, epoch, promoting>>
diskVars == <<lease, log>>
vars == <<up, crashes, proc, registered, health, writer, epoch, promoting,
          lease, lock, cmd, log>>

-----------------------------------------------------------------------------
(* Data *)

HealthFlags == [process  : BOOLEAN,
                deps     : BOOLEAN,
                failures : 0..FailureLimit,
                beats    : 0..HeartbeatLimit]

Fresh == [process |-> TRUE, deps |-> TRUE, failures |-> 0, beats |-> 0]

Lease == [runtime : Runtime \cup {NoOne}, epoch : Nat]

NoPromotion == [runtime |-> NoOne, epoch |-> 0, cmd |-> NoCommand]

\* The handler holds the file lock: it runs, waits for a call, or has its answer.
Holding == {"fenced", "asking", "asked"}

Phase == {"new", "promoting", "resolved", "sent", "done", "failed"} \cup Holding

CommandState == [phase : Phase, target : Runtime \cup {NoOne}, epoch : Nat]

NewCommand == [phase |-> "new", target |-> NoOne, epoch |-> 0]

Min2(a, b) == IF a <= b THEN a ELSE b

-----------------------------------------------------------------------------
(* Registry: health                                                        *)

\* The circuit is open from the FailureLimit-th failure in a row until the
\* next success; failures are counted up to the limit.
CircuitOpen(h) == h.failures >= FailureLimit

HealthyFlags(h) ==
    h.process /\ h.deps /\ ~CircuitOpen(h) /\ h.beats < HeartbeatLimit

Healthy(r) == r \in registered /\ HealthyFlags(health[r])

MutexFree == up /\ promoting = NoPromotion

\* The lease in memory after runtime r lost it: no owner, the epoch is kept.
KeptWriter(r) == writer
RevokedWriter(r) == IF writer = r THEN NoOne ELSE writer

\* A health report h for runtime r: the flags of its entries change and, if
\* revokes holds, the lease in memory loses its runtime but keeps its epoch.
Report(r, h, revokes) ==
    /\ MutexFree
    /\ r \in registered
    /\ health' = [health EXCEPT ![r] = h]
    /\ writer' = IF revokes THEN RevokedWriter(r) ELSE writer
    /\ UNCHANGED <<up, crashes, proc, registered, epoch, promoting, lock, cmd>>
    /\ UNCHANGED diskVars

MarkUnhealthy(r) ==
    Report(r, [health[r] EXCEPT !.process = FALSE], TRUE)

MarkDependencyHealth(r, ok) ==
    LET h == [health[r] EXCEPT !.deps = ok]
    IN  Report(r, h, HealthyFlags(health[r]) /\ ~HealthyFlags(h))

RecordFailure(r) ==
    LET h == [health[r] EXCEPT !.failures = Min2(@ + 1, FailureLimit)]
    IN  Report(r, h, ~HealthyFlags(h))

RecordSuccess(r) ==
    Report(r, [health[r] EXCEPT !.failures = 0], FALSE)

RecordHeartbeatFailure(r) ==
    LET h == [health[r] EXCEPT !.beats = Min2(@ + 1, HeartbeatLimit)]
    IN  Report(r, h, ~HealthyFlags(h))

RecordHeartbeatSuccess(r) ==
    Report(r, [health[r] EXCEPT !.beats = 0], FALSE)

-----------------------------------------------------------------------------
(* Registry and supervisor: runtimes                                       *)

StartRuntime(r) ==
    /\ MutexFree
    /\ proc[r] = "new"
    /\ proc' = [proc EXCEPT ![r] = "running"]
    /\ registered' = registered \cup {r}
    /\ health' = [health EXCEPT ![r] = Fresh]
    /\ UNCHANGED <<up, crashes, writer, epoch, promoting, lock, cmd>>
    /\ UNCHANGED diskVars

\* The file lock dies with the process that holds it.
LockAfterExit(r) == IF lock # NoCommand /\ cmd[lock].target = r THEN NoCommand ELSE lock

\* The process ends, by itself or killed: its file lock is released by the
\* operating system and the commands it had not finished are lost.
RuntimeExit(r) ==
    /\ proc[r] = "running"
    /\ proc' = [proc EXCEPT ![r] = "exited"]
    /\ cmd' = [c \in Command |->
                 IF cmd[c].target = r /\ cmd[c].phase \in {"sent"} \cup Holding
                 THEN [cmd[c] EXCEPT !.phase = "failed"] ELSE cmd[c]]
    /\ lock' = LockAfterExit(r)
    /\ UNCHANGED <<up, crashes, registryVars, diskVars>>

RemoveRuntime(r) ==
    /\ MutexFree
    /\ r \in registered
    /\ proc[r] = "exited"
    /\ registered' = registered \ {r}
    /\ health' = [health EXCEPT ![r] = Fresh]
    /\ writer' = RevokedWriter(r)
    /\ UNCHANGED <<up, crashes, proc, epoch, promoting, lock, cmd>>
    /\ UNCHANGED diskVars

-----------------------------------------------------------------------------
(* Registry: routing a command to the writer                               *)

Candidates(cap) == {r \in Runtime : Healthy(r) /\ cap \in Exports[r]}

Stamped(c, r, e) == [cmd EXCEPT ![c] = [phase |-> "resolved", target |-> r, epoch |-> e]]

\* The writer serves the capability: the command gets its epoch.
ResolveCurrent(c, cap) ==
    /\ MutexFree
    /\ cmd[c].phase = "new"
    /\ writer \in Candidates(cap)
    /\ cmd' = Stamped(c, writer, epoch)
    /\ UNCHANGED <<up, crashes, proc, registryVars, lock, diskVars>>

\* Every promotion opens a new epoch.
NextEpoch == epoch + 1

\* No writer, or one that does not serve the capability: promote.  Without a
\* provider hint the first candidate is chosen, with one any candidate may be.
BeginPromote(c, cap, r) ==
    /\ MutexFree
    /\ cmd[c].phase = "new"
    /\ writer \notin Candidates(cap)
    /\ r \in Candidates(cap)
    /\ epoch < MaxEpoch
    /\ promoting' = [runtime |-> r, epoch |-> NextEpoch, cmd |-> c]
    /\ cmd' = [cmd EXCEPT ![c].phase = "promoting"]
    /\ UNCHANGED <<up, crashes, proc, registered, health, writer, epoch, lock, diskVars>>

\* Promotion waits for the file lock that the handlers use.
HasFileLock == lock = NoCommand

\* The file lock is granted, the lease is renamed into place and the memory
\* of the registry follows.
PersistLease ==
    /\ promoting # NoPromotion
    /\ HasFileLock
    /\ lease' = [runtime |-> promoting.runtime, epoch |-> promoting.epoch]
    /\ writer' = promoting.runtime
    /\ epoch' = promoting.epoch
    /\ cmd' = Stamped(promoting.cmd, promoting.runtime, promoting.epoch)
    /\ promoting' = NoPromotion
    /\ UNCHANGED <<up, crashes, proc, registered, health, lock, log>>

\* Opening, locking, writing or renaming fails: neither the file nor the
\* registry changes, and the caller gets an error.
PersistFails ==
    /\ promoting # NoPromotion
    /\ cmd' = [cmd EXCEPT ![promoting.cmd].phase = "failed"]
    /\ promoting' = NoPromotion
    /\ UNCHANGED <<up, crashes, proc, registered, health, writer, epoch, lock, diskVars>>

-----------------------------------------------------------------------------
(* Router: delivery                                                        *)

Deliver(c) ==
    /\ up
    /\ cmd[c].phase = "resolved"
    /\ proc[cmd[c].target] = "running"
    /\ cmd' = [cmd EXCEPT ![c].phase = "sent"]
    /\ UNCHANGED <<up, crashes, proc, registryVars, lock, diskVars>>

\* No client for the runtime, a deadline already over or a failed write.
DeliverFails(c) ==
    /\ up
    /\ cmd[c].phase = "resolved"
    /\ cmd' = [cmd EXCEPT ![c].phase = "failed"]
    /\ UNCHANGED <<up, crashes, proc, registryVars, lock, diskVars>>

-----------------------------------------------------------------------------
(* Plugin: WithWriteFence                                                  *)

\* The check of the lease file against the process and the stamp.
FenceIgnoresEpoch(c) == lease.runtime = cmd[c].target
FenceHolds(c) ==
    /\ cmd[c].epoch > 0
    /\ lease.runtime = cmd[c].target
    /\ lease.epoch = cmd[c].epoch

\* The handler gets the file lock and the lease in the file is its own.
EnterFence(c) ==
    /\ cmd[c].phase = "sent"
    /\ lock = NoCommand
    /\ FenceHolds(c)
    /\ lock' = c
    /\ cmd' = [cmd EXCEPT ![c].phase = "fenced"]
    /\ UNCHANGED <<up, crashes, proc, registryVars, diskVars>>

\* The lease is another's: the lock is released and the command refused.
RejectStale(c) ==
    /\ cmd[c].phase = "sent"
    /\ lock = NoCommand
    /\ ~FenceHolds(c)
    /\ cmd' = [cmd EXCEPT ![c].phase = "failed"]
    /\ UNCHANGED <<up, crashes, proc, registryVars, lock, diskVars>>

\* The protected function calls blob.put with the file lock held.
AskUnderFence(c) ==
    /\ cmd[c].phase = "fenced"
    /\ cmd' = [cmd EXCEPT ![c].phase = "asking"]
    /\ UNCHANGED <<up, crashes, proc, registryVars, lock, diskVars>>

\* The call is resolved by the registry, served, and its answer comes back: with
\* the blob's name or with an error.
AskAnswered(c) ==
    /\ cmd[c].phase = "asking"
    /\ MutexFree
    /\ cmd' = [cmd EXCEPT ![c].phase = "asked"]
    /\ UNCHANGED <<up, crashes, proc, registryVars, lock, diskVars>>

\* The timer of the caller's own host fires; the function returns the error and
\* the lock is released.
NoTimer(c) == FALSE
TimerFires(c) == cmd[c].phase = "asking"

AskTimesOut(c) ==
    /\ TimerFires(c)
    /\ cmd' = [cmd EXCEPT ![c].phase = "failed"]
    /\ lock' = NoCommand
    /\ UNCHANGED <<up, crashes, proc, registryVars, diskVars>>

\* The protected function writes its record and the lock is released.
CommitFenced(c) ==
    /\ cmd[c].phase \in {"fenced", "asked"}
    /\ log' = Append(log, [runtime |-> cmd[c].target, epoch |-> cmd[c].epoch])
    /\ cmd' = [cmd EXCEPT ![c].phase = "done"]
    /\ lock' = NoCommand
    /\ UNCHANGED <<up, crashes, proc, registryVars, lease>>

\* The protected function returns an error, or finds nothing to write.
AbortFenced(c) ==
    /\ cmd[c].phase \in {"fenced", "asked"}
    /\ cmd' = [cmd EXCEPT ![c].phase = "failed"]
    /\ lock' = NoCommand
    /\ UNCHANGED <<up, crashes, proc, registryVars, diskVars>>

-----------------------------------------------------------------------------
(* Kernel crash and restart                                                *)

\* The kernel dies.  Its memory is gone; plugin processes run on until they
\* notice that their input is closed, and finish what they were given.
HostCrash ==
    /\ up
    /\ crashes < MaxCrash
    /\ up' = FALSE
    /\ crashes' = crashes + 1
    /\ registered' = {}
    /\ health' = [r \in Runtime |-> Fresh]
    /\ writer' = NoOne
    /\ epoch' = 0
    /\ promoting' = NoPromotion
    /\ cmd' = [c \in Command |->
                 IF cmd[c].phase \in {"promoting", "resolved"}
                 THEN [cmd[c] EXCEPT !.phase = "failed"] ELSE cmd[c]]
    /\ UNCHANGED <<proc, lock, diskVars>>

ForgottenEpoch == 0
RestoredEpoch == lease.epoch

\* SetFenceRoot: the epoch is read back from the file, the owner is not.
HostStart ==
    /\ ~up
    /\ up' = TRUE
    /\ epoch' = RestoredEpoch
    /\ UNCHANGED <<crashes, proc, registered, health, writer, promoting, lock, cmd, diskVars>>

-----------------------------------------------------------------------------
Init ==
    /\ up = TRUE
    /\ crashes = 0
    /\ proc = [r \in Runtime |-> "new"]
    /\ registered = {}
    /\ health = [r \in Runtime |-> Fresh]
    /\ writer = NoOne
    /\ epoch = 0
    /\ promoting = NoPromotion
    /\ lease = [runtime |-> NoOne, epoch |-> 0]
    /\ lock = NoCommand
    /\ cmd = [c \in Command |-> NewCommand]
    /\ log = <<>>

HealthReport(r) ==
    \/ MarkUnhealthy(r)
    \/ \E ok \in BOOLEAN : MarkDependencyHealth(r, ok)
    \/ RecordFailure(r)
    \/ RecordSuccess(r)
    \/ RecordHeartbeatFailure(r)
    \/ RecordHeartbeatSuccess(r)

Lifecycle(r) == StartRuntime(r) \/ RuntimeExit(r) \/ RemoveRuntime(r)

Route(c) ==
    \/ \E cap \in Capability : ResolveCurrent(c, cap)
    \/ \E cap \in Capability, r \in Runtime : BeginPromote(c, cap, r)
    \/ Deliver(c)
    \/ DeliverFails(c)

Handle(c) ==
    \/ EnterFence(c) \/ RejectStale(c)
    \/ AskUnderFence(c) \/ AskAnswered(c) \/ AskTimesOut(c)
    \/ CommitFenced(c) \/ AbortFenced(c)

Next ==
    \/ \E r \in Runtime : HealthReport(r) \/ Lifecycle(r)
    \/ \E c \in Command : Route(c) \/ Handle(c)
    \/ PersistLease
    \/ PersistFails
    \/ HostCrash
    \/ HostStart

Spec == Init /\ [][Next]_vars

\* A handler that holds the file lock and waits for nobody returns (tool-runner
\* bounds the command it runs by a timeout), the timer of a call it makes fires,
\* and the registry, which waits for the lock, is handed it when it is free often
\* enough.  That a call made under the lock is answered is not assumed: a
\* promotion may hold the mutex it needs.
Fairness ==
    /\ SF_vars(PersistLease)
    /\ WF_vars(\E c \in Command : CommitFenced(c) \/ AbortFenced(c) \/ AskTimesOut(c))

FairSpec == Spec /\ Fairness

-----------------------------------------------------------------------------
(* Properties                                                              *)

\* Every variable stays in its domain; the stamps of commands are naturals.
TypeOK ==
    /\ up \in BOOLEAN
    /\ crashes \in 0..MaxCrash
    /\ proc \in [Runtime -> {"new", "running", "exited"}]
    /\ registered \subseteq Runtime
    /\ health \in [Runtime -> HealthFlags]
    /\ writer \in Runtime \cup {NoOne}
    /\ epoch \in Nat
    /\ promoting \in [runtime : Runtime, epoch : Nat, cmd : Command] \cup {NoPromotion}
    /\ lease \in Lease
    /\ lock \in Command \cup {NoCommand}
    /\ cmd \in [Command -> CommandState]
    /\ log \in Seq([runtime : Runtime, epoch : Nat])

\* What the kernel remembers of the lease is what the file says: while it runs
\* the epochs are equal, and a remembered owner is the owner in the file.  It
\* must survive failed writes, revocations, crashes and restarts.
LeaseAgreement ==
    /\ up => epoch = lease.epoch
    /\ writer # NoOne => writer = lease.runtime

\* The remembered writer is a registered and healthy runtime: every path by
\* which a runtime can become unroutable revokes its lease.
WriterRoutable ==
    writer # NoOne => Healthy(writer)

\* Two commands stamped with one epoch go to one runtime, whatever promotions,
\* crashes and failed writes lie between them.
OneWriterPerEpoch ==
    \A c, d \in Command :
        cmd[c].epoch > 0 /\ cmd[c].epoch = cmd[d].epoch => cmd[c].target = cmd[d].target

\* A lease never loses its epoch, and an owner change opens a new one; this
\* covers the crash of the kernel between the file and its memory.
EpochsNeverReused ==
    [][lease'.epoch >= lease.epoch /\ (lease' # lease => lease'.epoch > lease.epoch)]_lease

\* While a handler is between its check and its write, calls included, the lease
\* stands still.
LeaseStableUnderFence ==
    [][lease' # lease => \A c \in Command : cmd[c].phase \notin Holding]_vars

\* The lease file and the records behave as an authority with one writer.
Abstract == INSTANCE SingleWriter WITH owner <- lease.runtime, epoch <- lease.epoch
ImplementsSingleWriter == Abstract!Spec

\* What the refinement buys: the records of the authority lie in the order of
\* the epochs and each epoch has one author, so a writer that was replaced, but
\* whose process still runs, adds nothing after its successor.
CommitsSerial == Abstract!SerialEpochs

\* A promotion that waits for the file lock, with every other registry
\* operation behind it, is over one day; also when the handler that holds the
\* lock waits for a call that waits for the registry.
RegistryUnblocks == promoting # NoPromotion ~> promoting = NoPromotion

-----------------------------------------------------------------------------
(* The inductive invariant behind the safety properties                    *)

\* A promotion runs in a live kernel, will write the next epoch, and its
\* runtime cannot lose its health meanwhile: the mutex keeps reports out.
PromotionInv ==
    promoting # NoPromotion =>
        /\ up
        /\ promoting.epoch = epoch + 1
        /\ Healthy(promoting.runtime)
        /\ cmd[promoting.cmd].phase = "promoting"

\* The lease file has an owner from its first epoch on.
LeaseInv == lease.runtime = NoOne <=> lease.epoch = 0

\* No stamp is ahead of the lease file, and a stamp with the epoch of the file
\* names the runtime in the file; commands in execution are stamped.
StampInv ==
    \A c \in Command :
        /\ cmd[c].epoch <= lease.epoch
        /\ cmd[c].epoch = lease.epoch /\ cmd[c].epoch > 0 => cmd[c].target = lease.runtime
        /\ cmd[c].phase \in {"resolved", "sent"} \cup Holding => cmd[c].target \in Runtime

\* The file lock belongs to the one handler between its check and its write,
\* and for that handler the check still holds.
LockInv ==
    \A c \in Command :
        /\ lock = c <=> cmd[c].phase \in Holding
        /\ lock = c => FenceHolds(c)

IInv ==
    /\ TypeOK
    /\ PromotionInv
    /\ LeaseInv
    /\ LeaseAgreement
    /\ WriterRoutable
    /\ StampInv
    /\ OneWriterPerEpoch
    /\ LockInv
=============================================================================
