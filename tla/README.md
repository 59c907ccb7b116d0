# Agent-native OS: specifications

TLA+ modules for the microkernel under `kernel/` and the plugins under
`plugins/`, the TLC configurations that check them on small instances, and
proofs for every value of the constants that TLAPS checks. Source lines are
given relative to the root of the repository (in `PROJECT.json` with `src/` in
front); `PROJECT.json` ties every definition to the lines it stands for.

1. [The system](#1-the-system)
2. [What is hard in it](#2-what-is-hard-in-it)
3. [Modules](#3-modules)
4. [Runs](#4-runs)
5. [Where the code departs from its documents](#5-where-the-code-departs-from-its-documents)
6. [Proofs](#6-proofs)
7. [What is not modelled](#7-what-is-not-modelled)
8. [Plan](#8-plan)

To check a run: `tlc -workers 2 -config WriterFence.cfg MCWriterFence.tla`. To
check a proof: `tlapm KernelProofs.tla`.

## 1. The system

A kernel process starts plugins as child processes and routes typed requests
between them, over their stdin and stdout, one JSON envelope per line. Outside
clients (the CLI) reach the router over a Unix socket. A capability is a name
and a major version, and a manifest says which ones a plugin exports, which it
requires and which it would like. Plugins keep their own state in append-only
files.

```
 client --socket--> ClientGateway --> Router --pipes--> plugin (pluginhost)
                                        |  ^                |
                   Registry (providers, |  | child requests,| append + fsync
                   health, leases) <----+  | events, frames v under the write fence
                        ^                  +------- JSONL store / git / commands
                        |
                   Supervisor (processes, heartbeats, restarts, dependents)
```

| Component | State | Operations | Interacts with | What makes it correct |
|---|---|---|---|---|
| Registry (`registry.go`, `bindings.go`) | providers by capability with health flags, manifests, writer leases in memory | admit a manifest, register and remove a runtime, mark health and dependency health, count failures and heartbeats, resolve a provider for a query or a command, promote a writer | lease files (shared with the plugins), supervisor, router | one writer per epoch, epochs never reused, a remembered writer is routable, memory and file agree |
| Write fence (`fencing.go`) | lease file, lock file | lock, compare the stamp with the lease, run the mutation, unlock | all plugins with state, registry | a stale writer never writes; the lease stands still under the lock |
| Supervisor (`supervisor.go`, `cmd/kernel/main.go`) | runs, statuses, processes | boot loop, start, handshake, watch, heartbeat, reconcile dependents, restart, kill over memory limit | registry, router | one process per plugin, nothing left behind, dependents follow, restarts are bounded, status tells the truth |
| Router, calls (`router.go`, `client.go`) | clients, in-flight calls, delegations, pending answers | invoke, serve a child request, answer, time out, cancel, refuse | gateway, registry, plugin host | every caller hears back, a timed-out handler is told, a child written before its parent's answer is admitted |
| Router, streams | routes, bounded queues, external channels | open, forward, overflow, close, cancel, remove a dead provider | gateway, plugin host | the kernel never panics, frames arrive in order, the end is told, one slow client holds up nobody |
| Client gateway (`gateway.go`) | connections | read a request, write answers and frames, notice a disconnect | router | a client that leaves stops its work |
| Plugin host SDK (`host.go`) | handlers, contexts, pending calls, streams | serve, dispatch, cancel, child calls, stream writers | router | one answer per request, cancel reaches the handler |
| Authorisation, policy, manifests, contracts | policy file, catalog | decide, load, validate | router, registry | no call without a grant or a delegation |
| Work registry (`plugins/work-registry`) | tasks, work contexts, evidence, creation keys; a JSONL log | create, get, transition, attach evidence, load | fence | optimistic versions, legal transitions, idempotent creation, replay equals memory |
| Engineering workflow | nothing of its own: a run is a goroutine; the journal tells its stage | run the pipeline, answer get | almost every plugin | DONE only through the gate, one driver per task, the answer is the truth, every run ends |
| Agent harness | runs in memory and in a JSONL log, registry of live runs | run, cancel, get, query; providers mock and real | fence, blob | a run ends once, a cancel tells the truth and stops the provider |
| Workspace | workspaces in memory and in a JSONL log; git branches and worktrees | allocate, release (delete or preserve), get, get by context | fence, git | record and worktree agree, a lookup gives the latest usable one |
| Event journal (`foundation/event-journal`) | hash-chained JSONL file, last hash | append, replay with pages, verify on start | fence | acknowledged events stay readable, in order, as one chain |
| Session | sealed sessions, JSONL log | seal (git checkpoint, journal replay), get, query | journal, git, fence | a sealed session is complete |
| Tool runner | tool runs, JSONL log | run a command and record it, get, query | blob, fence | one record per run, the outcome is the command's |
| Artifact, review, blob | records, JSONL logs; blobs by hash | collect and read diffs; request and decide reviews; put and get | fence | a review is decided once; a blob is what its hash says |
| CLI (`cli/vibe`), demo plugins, examples, scripts | none | input and output | gateway | |

## 2. What is hard in it

The list with lines is `hazards` in `PROJECT.json`. In short:

- **Concurrency in the kernel.** The supervisor runs two goroutines per runtime
  and each ends in `reconcileDependencies`, which works on a snapshot and holds no
  lock between its steps. The router has one reader per plugin that serves the
  plugin's own requests in line. Four kinds of goroutine send on or close the
  channel of an external stream.
- **A lock across processes.** Promotion of a writer waits for a file lock with
  the registry's mutex held, and a handler runs its mutation under that lock. Two
  plugins call another one there (`blob.put`), and that call needs the mutex.
- **Time.** Every call has a timer; answers come late; deadlines end contexts at
  any line; heartbeats overlap with exits and restarts.
- **Partial failure.** Every store appends a line and then syncs; either can
  fail, and a crash can tear the line. The workspace plugin has git in between,
  the harness a process.
- **Composition.** A workflow run is some twenty calls; each may fail, be refused,
  or take effect after its caller gave up; several runs can share a task. A session
  is sealed from a worktree, a journal and a blob store, none of which stands still.

## 3. Modules

One module per component. Each names its bounds as `Max...` constants with the
comment "bound"; the other constants are the code's own limits and parameters.

### The kernel

**`SingleWriter`** is the abstract promise of a stateful authority: grants open
epochs, only the writer of the current epoch commits. **`WriterFence`** is the
code: the registry's health flags and lease in memory, the lease file, the lock
file, processes, and commands on their way. A registry operation is one action,
because it runs under the registry's mutex; the promotion is split
(`BeginPromote`, then `PersistLease` or `PersistFails`) because it waits for the file
lock with the mutex held, and `MutexFree` keeps every other operation out in
between. The handler's side is `EnterFence`, `CommitFenced`/`AbortFenced` and
`RejectStale`. A handler may call another plugin under the lock, as those of the
tool runner and the artifact plugin do with `blob.put` (`AskUnderFence`): the router
resolves that call under the registry's mutex, so that it is answered
(`AskAnswered`) only when no promotion is waiting, and otherwise ends by its timer
(`AskTimesOut`). The kernel may crash and restart (`HostCrash`, `HostStart`), plugin processes
exit at any time and give the file lock back (`LockAfterExit`). `Abstract` is the
refinement mapping: the owner and epoch of the abstract authority are those of
the lease *file*.

**`Supervisor`** has a program counter per goroutine (boot loop, `watch` and
`heartbeat` of each runtime) and one action per critical section. The walk of
`reconcileDependencies` keeps its snapshot and its remaining runs, as the code's
locals do. What a goroutine has in hand is said by its program counter: it starts a
plugin (`Starts`), looks after the end of a runtime (`Minds`), or both or neither
(`Tends`). A process is running, hung, dying or exited. Runtimes are numbered in
the order they are launched (`Fresh`). The circuit breaker is in `WriterFence`.
`OneProcess` is why `RecordLog` has one writer per file.

**`CallPath`** follows a call from its caller (an outside client or a handler)
through `invoke`, the pipe, the handler and back. `stdin` and `stdout` are the
pipes, `inbox` is the channel between the reader of a plugin's output and the
goroutine that serves its requests. The reader waits for the acknowledgement of
each request before it reads on; that is what makes `EarlyChildAdmitted` true. It
also means that answers and pongs of a plugin wait behind a request of its own.
`Parent` gives the call tree, `Providers` the plugins that export what is called;
the router chooses one when it admits the call, which may be the caller's own. Such a call
comes back to a plugin whose output is not being read: it ends by its timer only.

**`ExternalStreams`** has the goroutines that touch the channel of a stream: the
ingress loop, the control loop (for a close made up when the ingress queue is
full), one goroutine per stream of a removed provider, and the failed
invocation. What the provider writes on its pipe is read at once, unless the reader
waits for the control loop (`Heard`). The goroutine behind a stream does not wait for its
handler: frames, and even the close, may be ahead of the answer that makes the gateway read.
`outrun` has the streams a frame of which the router gave up on in that time; it is there for the
properties only. A call of a contract of another kind is answered with an error and never gets a
route (`RefuseKind`). `Step` gives a goroutine the list of its remaining steps; a send on a closed
channel or a second close sets `crashed`. `Behaves` says that the provider lives,
answers in time and does not outrun its ingress queue (`dropped` has the streams
with which it did); clients are free to be slow (`Wedgeable`) or to leave, and
`MaxTroubles` bounds how often things go wrong.

**`PluginStreams`** has the streams one plugin consumes from another. The consumer
writes requests and cancels, which the router serves one by one, each to its end
(`out`, `ServeInbound`); frames come back by the provider's bounded ingress queue and the
answer by the call itself (`in`), so either may be first. In the consumer the
reader of stdin (`Serve`) looks a stream up under the lock and uses what it found after
it (`TakeFrame`, then `PutFrame`), while `CommandStream` may close the channel in
between. A second call of the consumer (`Other`) stands for all that can hold up
its requests. `dropped` has the streams with which the provider outran its ingress queue.
`Behaves` says that the provider lives and no call of a stream runs into its
deadline.

### The plugins

**`RecordLog`** is the storage every JSONL plugin has a copy of, taken from
`work-registry/store.go`: append, sync, death of the process or of the machine,
torn tail, replay; `LogBounds` has its bounds. **`WorkRegistry`** is the work registry
on top of it (`Log == INSTANCE RecordLog`, of which it takes every operation):
its tasks are a fold of the records, its clients remember what they have seen,
`TaskStatus` is the status machine it shares with the workflow. The machine may lose
power. What a client was told by a registry that had replayed unsynced lines can
be lost then, so each answer carries the `trust` it deserves: backed by a synced
line, by a cached one, or by one that is gone.

**`EngineeringWorkflow`** has one program counter per run; a call answers, fails,
is refused, or is given up and takes effect later (`late`). `Crash` kills all
runs; there is nothing to restart. The stage is what
`workflow.engineering.get` computes from the journal.

**`AgentRun`** has the record of a run (memory and log), the goroutine that
drives it, its context, its provider, the registry of live runs and any number
of cancels. The mock provider calls every end of its context a cancel, a real one
has a timeout of its own; `Outcomes` allows both.

**`Workspace`** has the record, the branch and worktree in git, and the calls in
flight. The check of a release is made before the fence, so it is an action of
its own. Time stamps are compared as the texts the code compares: RFC 3339 with
the zeros at the end of the fraction dropped (`Base` and `Digits` stand for ten
and nine).

**`EventJournal`** has the file as lines that are whole, without a newline, or
scraps; a hash is the identity of the record it is of. A replay reads page by
page, as `replayVia` of the session plugin does, while appends go on. **`SessionSeal`**
extends it with `session.seal`. There are two readers, the caller that collects the ids
of the events it wants sealed and the session plugin; the steps are those of
`sealOnce` in its order: checkpoint, patch, replay, archive, record. The events are asked
for by ids or by correlation. The plugin may die and git, the blob store or the record may
fail at any step; a put that failed may have happened.

### Instances and proofs

Each component has one `MC*.tla` module with the constants of its configurations
(call trees, exports, symmetries). `Inv` in a module conjoins its type invariant with the
state invariants that a proof starts from; what makes them inductive is part of it, or is
called `IInv`. The theorems are in `KernelProofs` (of `WriterFence`, `SingleWriter` and
`CallPath`), `SupervisorProofs`, `ExternalStreamsProofs`, `PluginStreamsProofs`,
`WorkRegistryProofs` (with those of `RecordLog`), `EngineeringWorkflowProofs`, `EventJournalProofs`
(with those of `SessionSeal`) and `PluginProofs` (of `Workspace` and `AgentRun`). Where two
components share a module of proofs, one has names of its own for what every specification has:
`CallSpec` of `CallPath`, `RunSpec` of `AgentRun`.

## 4. Runs

One run asks all questions of an instance of a component, safety and liveness
together where both fit.

| Run | Question | Bounds and why they are enough |
|---|---|---|
| `writer_fence` | Is the inductive invariant one? Does the code implement `SingleWriter`, and does a promotion that waits for the file lock end, whatever the handler does under it? | 2 runtimes, 2 commands, 2 promotions, 1 kernel crash, limits of 1: one command in the fence, stamped with the old epoch, waiting for a call of its own, while the other promotes. Larger numbers are covered by the proofs |
| `work_registry` | Do versions, idempotent creation and answers survive failed syncs, torn writes and deaths, and what can a torn write cost? | 2 clients, 2 tasks, 1 key, 2 pieces of evidence, 3 lines, 2 tears, 2 deaths of process or machine: both clients act on what they read before a failed append and its replay; a record after a torn tail after a record after a torn tail |
| `workflow` | Is DONE only reached through the gate and by one driver? Does the journal run ahead? | 2 runs of a task, 1 failing call, 1 late one: one run overtakes the other in every stage, and a transition arrives when its caller has given up |
| `supervisor` | Is the inductive invariant one? Are there two processes of a plugin, or registry entries of none? Are restarts bounded, do the dead stay dead? | a provider with one restart, and its consumer; 3 runtimes (two plugins and the restart); 1 exit, 1 heartbeat, walks of 1 pass. One exit begins everything: restart, walk and beat overlap. More is covered by the proofs |
| `supervisor_live` | Do dependents follow the health of what they need; does every start end? | a provider without restart, with a memory limit, that would like what its consumer provides, and the consumer; 1 hang, 1 heartbeat: the provider comes, misses its beat, or is killed, and its optional need is looked up before and after the consumer is there |
| `call_path` | Is a child refused although it was written before its parent's answer? Does every caller hear back, is a timed-out handler told? | a composer called from outside, whose handler calls a worker or its own plugin; 1 ping, 1 exit, the outer call may be cancelled. The deepest chain that waits (caller, handler, handler behind its own reader) is in it |
| `streams` | Does the kernel survive and are order and end kept while a provider behaves? Does a slow client hold up others? Are both ends released when one leaves or dies? | a stream whose client may be slow and one whose client reads; queues of 1, so that both queues fill, also before the answer; 1 frame and a close each; 1 trouble |
| `streams_crash` | Section 5 | as `streams` |
| `plugin_streams` | Does a consuming plugin read what was sent and its end, does it survive, and is each side released when the other stops, overflows or dies? | 1 stream of 3 data frames through queues of 1: one frame read, one queued, one too many, in the ingress queue and in the consumer's; 1 other call in front of the request or the cancel |
| `agent_run` | Does a run end once, do cancels tell the truth, does a cancelled run settle? | 1 run, 2 cancels, 2 failed appends, 2 restarts: runs share nothing but the mutex |
| `workspace` | Is a deletion on record a worktree gone; does one failure leave worktrees nobody knows; how many of the workspaces a lookup may answer with have no worktree? | 2 workspaces, 2 callers, 2 faults, 1 restart: a lookup in the middle of a release, two releases of one workspace, a failing undo of a failed allocation; 3 instants, which are two seconds and a fraction of the first |
| `journal` | Is a replay that ends complete and one chain; do undamaged journals reopen with all that was acknowledged; does a sealed archive hold what it has to? | 2 readers, pages of 2, 4 records of which 3 belong to the session, 1 fault, 1 tear, 1 crash, 1 seal: the events asked for lie on two pages, with a foreign one between, and the plugin that reads them starts anew |

Deadlock is not checked: every bound, and in most modules the death of all
processes, lets the system really stop. Symmetry is used in the runs without
liveness only, and there only for values that nothing tells apart: clients,
tasks and evidence (`work_registry`), runs (`workflow`), callers
(`workspace`).

The properties, with the code they are about, are commented where they are
defined. A few whose precise form matters:

- `IInv` of `WriterFence` and `ImplementsSingleWriter` carry the point of fencing, which
  the proofs draw from them: a writer that was replaced, and whose process goes on,
  adds nothing after its successor (`SerialCommits`).
- `Inv` of `WorkRegistry` compares the memory and the clients with every replay there can
  be (`Replay(n)`, of the first `n` lines), not with the one that happens next.
- `LogKept` is the invariant of `RecordLog` under the work registry, with
  `LossBoundedByTears`: a torn write costs at most the one record that is appended right
  after it. A store that lost an acknowledged record otherwise refuses to start.
- `AnswersHold` says that what a client was told is still so, after any replay, up to the
  `trust` of the answer.
- `DoneThroughGate` and `OneDriver` (part of `Inv`) hold for several runs of one task because
  transitions carry the version of the task; `StageNotAhead` says that the journal
  never tells more than the registry.
- `NoGhosts` and `RestartsBounded` are part of the `Inv` of `Supervisor`.
- `CancelTellsTruth` (part of `IInv` of `AgentRun`) needs the mutex that covers the check
  and the append of the run's record, and the log's last line through restarts.
- `NoSpareTrees` allows for one fault: the undo of a failed allocation can fail too.
- `CandidatesHaveTrees` counts: of the workspaces `GetByContext` chooses among, those without a
  worktree are no more than the failures and restarts there were. It holds in every state, and two
  exceptions that need no failure are named in it (`BeingRemoved`, `Overtaken`; section 5).
- `InOrder` and `EndIsTold` are part of the `Inv` of both modules on streams. In
  `ExternalStreams`, `InOrder` numbers what a client has received: the n-th frame that is
  not made up by the router is the n-th the provider has sent (`Sent`, `Own`).
- `KernelSurvives` and `DisconnectEnds` are about a provider that behaves, and so is the
  second half of the `ReadersReleased` of `ExternalStreams`; its first half, that a reader is
  released, excepts a kernel that crashed: `streams_crash` shows that it may. `ConsumerSurvives` is its counterpart in the consuming plugin.
- `ReadersReleased` and `CancelStops` of `PluginStreams` are the two directions of a release between plugins: a
  consumer never waits for frames that will not come, and a provider whose
  consumer cancelled does not stream on.
- `SealHolds` relates the archive to the checkpoint: no work that the recorded
  worktree shows was reported by an event the archive is without.

### Fairness

Runs without liveness use `Spec`, the others `FairSpec` (`FairCallSpec` in `CallPath`):

- **Weak fairness of goroutines** (all modules): the Go scheduler and the operating
  system run every goroutine that is not blocked. There is one conjunct per goroutine, or
  one for goroutines of the same kind where it is enough that some of them runs; never
  one for the whole of `Next`.
- **Timers** (`CallPath`): every call has a timeout, the default is 30 seconds. The
  goroutine of `invoke` selects among the answer, the timer, the cancel and the
  loss of the provider, so its fairness is that of the alternatives together.
- **The file lock** (`WriterFence`): a promotion that waits for the lock gets it
  (strong fairness), since `flock` hands it to its waiters; for the handlers nothing like
  it is assumed. A handler under the fence runs, and a call it makes there ends by its timer; nothing is assumed about when
  that call is answered, since it may wait for the mutex of the promotion itself.
- **Killed processes end** (`Supervisor`, `AgentRun`): SIGKILL is not ignored; a process
  group is killed a few seconds after its context ends.
- **The five seconds a slow client is given** (`ExternalStreams`) do not pass for a client
  that reads.
- **Streams between plugins** (`PluginStreams`): the goroutines of the router and of both
  hosts run, the consumer reads on until the end, a call ends by its deadline, and a
  goroutine whose context is done ends its stream. No stream ends by itself.
- Nothing makes a handler answer, a client read, a reviewer decide, a provider
  return by itself, or a fault happen or not happen.

## 5. Where the code departs from its documents

**The kernel can be brought down by a provider of a stream** (run `streams_crash`,
`NeverCrashes`; `findings` has the quotation). A provider that dies before it answered a
stream request makes the failed invocation close the channel that the removal of the
provider then sends on or closes again. A late answer with frames after it,
or a full ingress queue behind a client's full channel, ends in the same way.

The following departures bound what the passing properties say. Where there is
one, the condition that makes room for it is named.

| Property | What it has to leave out |
|---|---|
| `Inv` of `ExternalStreams` (`EndIsTold`) | a client that was too slow is cut off without a close frame (`Wedgeable`); so is one that reads, if the frames of its stream filled the channel for five seconds before the call was answered (`outrun`): the gateway reads only from then on |
| `ReadersReleased` of `ExternalStreams` | it is about streams that were accepted. When the provider answers a stream request with an error, or the router does because of the kind of the contract (`KIND_MISMATCH`, `router.go:299`), the gateway ranges over the channel all the same (`gateway.go:116`). It waits for the provider to die in the first case, and for ever in the second: that channel has no route and nobody closes it, so the connection serves no further request |
| `DisconnectEnds` | a provider that misbehaves before its client leaves (`Behaves`); a client that leaves before its answer is written (`LoseAnswer`): the gateway cancels nothing, and the provider streams on until the client's queue is full |
| `ConsumerSurvives` | a provider that dies, or a call of a stream that runs into its deadline (`Behaves`): `CommandStream` then closes the channel that `Serve` is sending on or has closed (`host.go:189`), which takes the consuming plugin down, against `kernel/docs/01-ARCHITECTURE-CONSTITUTION-v1.0.md:47` |
| `CancelStops` | the cancels of the router name the request, and the provider files the context of a stream under the id of the stream (`router.go:107`, `:368`, `host.go:381`): the provider of a call that timed out, or of a consumer that died, streams on to its deadline. A close made up for a full ingress queue (`client.go:82`) cancels nothing either (`dropped`) |
| `LogKept` | the record after a torn tail is glued to it and lost; after a failed sync, a restart may find a mutation that was answered with an error: only acknowledged records are promised |
| `AnswersHold` | a registry that replayed unsynced lines answers from them, and they may be gone after a loss of power (`trust`) |
| `AckedReadable` | the journal refuses to start after a torn tail, and an append that fails after its write makes the journal unreadable (`Undamaged`) |
| `EvidenceBehindDone` | errors of attaching evidence are ignored, so a task can get DONE without it (`faults = 0`) |
| `StageNotAhead` | a failed run is sealed too, and its outcome is answered as DONE (the condition on outcomes) |
| `CandidatesHaveTrees` | the lookup takes no fence (`store.go:208`): between the removal of a worktree (`handlers.go:94`) and the record of the release (`:101`) it answers with a workspace that is on record as allocated and has no tree (`BeingRemoved`). Two releases that both passed the check made before the fence (`handlers.go:84`) may delete and then preserve: the record says preserved, and the lookup answers with it, the worktree is gone (`Overtaken`). Each failure or restart, as one in the middle of a release, may leave one more, which can then be neither used nor released (counted) |
| `MostRecentIsChosen` | time stamps are compared as texts of different length, so the order within a second is not that of time (only seconds are compared) |

Seen while modelling, and not the subject of a property: the supervisor goes on
reporting READY for a plugin whose process died or hangs; the answers of a
plugin wait while one of its handlers waits for a call of its own, so the progress of a
running workflow cannot be queried then; a cancel between the record and the
registration of an agent run is confirmed while the provider runs on; the deadline of a
workflow is reported as AGENT_FAILED. An archive that a workflow run seals has none of the
run's events: the workflow passes neither ids nor a correlation id
(`engineering-workflow/handlers.go:264`), so the session selects by the id of the work
context, while the journal's records carry the correlation id of the outer request.
`docs/M1-DESIGN.md` (section 9) has the one equal to the other and the workflow pass the ids;
`docs/superpowers/specs/2026-09-03-m1-9-qualification-design.md:26` says that the code does
not. `SealHolds` is about requests that do name their events, by ids or by the correlation id
the journal has.

## 6. Proofs

The theorems hold for every value of the constants under the assumption named
in the module (`FenceAssumption`, `AgentRunAssumption`, ...), which say no more than
the types of the parameters. Each invariant is proved by the three facts *Init
implies it*, *each step keeps it*, *it implies the property*; the inductive
invariant is `IInv` or `Inv` of the component's module, and TLC checks it in the component's
run as well. Every invariant and every action
property that a passing run checks is a theorem.

**`KernelProofs`, of `WriterFence`.** `IInv` adds to the safety properties what makes them
inductive: a promotion under way will write the very next epoch for a healthy
runtime (`PromotionInv`: the mutex keeps health reports out), a lease has an owner from
its first epoch (`LeaseInv`), no stamp is ahead of the file and a stamp of the
file's epoch names the file's owner (`StampInv`), and whoever holds the file lock
passed a check that still holds (`LockInv`). From it: `TypeCorrect`, `MemoryAgreesWithFile`,
`WriterIsRoutable`, `EpochHasOneWriter`, `EpochsGrow` (across crashes),
`FenceExcludesPromotion`, and `Refinement`: the initial states map to initial states of
`SingleWriter`, `PersistLease` maps to a grant, `CommitFenced` to a commit (by `LockInv` the
stamp is the lease) and everything else to a stutter. `SerialRecords` proves the abstract
promise serial, and `SerialCommits` carries it over to the code.

**`KernelProofs`, of `CallPath`.** `Inv` says where each request and each answer is
(`PipesTrue`), that both sides of a call agree on it and a delegation is held while the
reader waits (`SidesAgree`), and the order of what is under way (`InOrder`).
`EarlyChildrenAreAdmitted` rests on an order: a handler's requests stand before its answer
in the plugin's output, and since the reader waits for each request it serves, the answer
waits too. `Flow` says how a step moves the output, `FlowKeeps` that an early request stays
ahead of the answer of its parent, for any plugins, any calls and any nesting of calls.

**`WorkRegistryProofs`.** The log comes first, for records of any kind. `IInv` of `RecordLog` adds
that synced lines are complete (`SyncInv`), that an acknowledged record is in a synced line or a
synced line is broken (`DurableInv`: what `Load` meets is then an error, never a silent loss),
that the next sequence number is above every acknowledged one (`SeqInv`), and that broken lines
are counted by tears (`TornInv`). From it: `NothingAcknowledgedIsMissing`,
`SequenceNumbersGrow` and `TearsBoundLoss`.

The state of the registry is a fold of its records, a recursive function of their number. That
it has a value for every length, that one record more is one application of the reducer more
(`ProjectionOfNext`) and that records alone determine it are proved for this function by
induction written out: a set of numbers that is not empty has a least one (`Least`). The reducer
is then reasoned about record by record. One state of a task follows another (`Later`: the
versions grow, the status goes along the machine, evidence stays), which is an order; a record that
was legal in one state leads every state that follows it to one that follows the result.
That is what makes an append harmless to replays that see more lines than the memory did. `Inv` says so of all replays there can
be: they are sound (`ReplaysSound`), none that covers the memory shows older tasks
(`MemoryInFile`), and none shows older tasks than a client was told of, up to the trust of the
answer (`AnswersInFile`). It is inductive together with the invariant of the log
(`RegistryInvariance`), whose actions the proof cites as lemmas of the first part. From
it: `InvHolds`, `LogIsKept`, `AnswersHoldAlways`, `CreationIsIdempotent` (a key that was
acknowledged is in the memory of every registry that serves) and `NoUpdateIsLost`.

**`PluginProofs`, of `Workspace`.** `Core` is inductive: a call that allocates is alone with
its id and one that releases has found the record (`CallInv`); the log of a workspace begins
with its allocation, and a deletion on record has happened (`LogInv`); the workspaces that lost
their tree otherwise (`Lost`) are no more than the failures and restarts (`LossInv`). A crash
loses at most one, because the fence lets at most one call be between a removal and its record,
or undo an allocation; every other step that loses one is a failure. That the memory is the replay
of the log, also after a restart, is proved for the recursive function of the replay by
written-out induction (`ReplayFacts`). `NoSpareTrees` is inductive beside it: a call that
undoes an allocation shows that a fault has happened, so one more is needed to leave a tree
behind. For the lookup, `refLess` on the texts of time stamps is a strict total order, for
any number of digits; so there is one greatest, the choice is the same in whatever order Go
ranges over the map, and it is of the last second (`ChoiceIsTheMostRecent`).
`ChosenWorkspaceIsThere` follows from `LossInv`: a candidate without a tree is lost, unless it is
one of the two exceptions.

**`PluginProofs`, of `AgentRun`.** `IInv` adds that only a driven run is registered and a
returned provider has a result (`Registered`), and that the log of a run that ended ends
with its end (`Recorded`), which is what a restart reads. From it: `CancelsAreTruthful` and
`RunsEndOnce`.

**`EventJournalProofs`.** `Inv` is inductive: what a reader has brought is one chain from
its first record on and, while the file is intact, a beginning of it; only the last line of the
file may be without a newline; ids are drawn in growing order, and while the file is intact
every acknowledged event is in it (`ReplayInv`). So a reader that has come to the end of an
intact file has all that was acknowledged before it began (`ReplaysAreComplete`), and one that
meets a file that is not intact does not come to an end. `AcknowledgedIsReadable` is about journals
none of whose writes failed or was torn. All three are carried over to `SealSpec`, in which the
session plugin is one of the readers (`SealedInvariance`, `SealedReplaysAreComplete`).
`SealsCanBeTrusted` is about the seals: `StepInv` has what a request has collected at
each of its steps, `IdsInv` what may be in the ids it asks for. Its archive is selected from a
replay that began after the checkpoint was taken, so whatever work the checkpoint shows was
acknowledged, if at all, before the replay. That `SelectOurs` keeps the events of the session and
their order is proved by the same written-out induction.

**`EngineeringWorkflowProofs`.** `Inv` adds to `OneDriver` and `DoneIsDone` what the place of a run
says of it (`RunHonest`: it drove, its build ran, its gate was passed), that the same is true of its
requests still on their way (`Honest`), that all traces on the task are its one driver's
(`Traces`), and which evidence is there when (`EvidenceLeft`). `RunStep` collects what one step of one
run may do to the task and the journal, `StepKeeps` shows that this keeps the invariant, and the
calls follow one by one. From it: `DoneOnlyThroughGate`,
`JournalNotAhead` and `EvidenceIsBehindDone`, for any number of runs, late requests and failed
calls.

**`SupervisorProofs`.** `IInv` says what each goroutine has in hand: `Duties` ties its
program counter to its locals, `InHand` gives every plugin to at most one goroutine that starts
or minds it, `Births` numbers the runtimes as they were launched and those of a plugin by their attempts, and `Lists` has the lists of
the supervisor and of the registry follow from the rest. `OneProcess` alone is not inductive:
it needs to know who may launch next. Most steps are calm (`Calm`), the others hand a runtime on
(`LetsGo`, `Enters`, `StartedKeeps`, `LaunchKeeps`). `NoGhosts` follows from `Lists` when nothing
is under way, `RestartsBounded` because the runtimes of a plugin have different attempts, at
most its restarts; `LostForGood` because no step makes a dropped or condemned runtime routable.

**`ExternalStreamsProofs`.** For any number of streams, clients, frames and capacities. The frames of a stream have a
rank, their place in what the provider sent. `QueueInv` has the ingress queue in the order of
ranks; `ThreadInv` says what each goroutine has in hand, and that what the ingress loop
holds was sent before everything of its stream that is still queued; `StageInv` says how far a stream can
have come. `FlowInv` joins the pieces: what the client has received, with what is on its channel, is
the beginning of what was sent; what the loop holds is the next frame; and as long as the
route is kept, the queue has all the rest. A step shifts the border between two pieces or
breaks the route (`FlowRests`, `FlowGrows`). `InOrder` follows, since receiving
moves a frame within the first piece. `EndInv` gives `EndIsTold`: a loop closes
the channel of a client that reads only behind the end it has put there, since the only other
reason, a channel that stays full, needs a call that is not answered yet (`outrun`). `CloseInv` gives `KernelSurvives`: while the
provider behaves only the refused call and the ingress loop close channels, and once the loop has
closed one, no frame of that stream is left in the queue, because the end ranks behind all data.

**`PluginStreamsProofs`.** For any number of streams and frames and any capacity of the
queues. Four things hold a stream together. It was asked for once, and before that there is
nothing of it anywhere (`AskedOnce`). Its channel has one writer (`OneWriter`): a stream in
the table has an open channel and no last frame that waits for room, such a frame and one in
`Serve`'s hand exclude each other, and either meets a closed channel only after its call has
failed. While it is in the table, the data in the pipe and in the ingress queue carry the
numbers that follow what was taken, in two adjoining rising intervals that reach up to what
was sent, or to the frame that did not fit (`OnTheWay`). What is on the channel continues
what was read, and the frame in hand comes next (`Delivered`, of which `InOrder` and
`EndIsTold` are consequences). They are inductive together: a frame in hand
is next because the interval in the pipe began with it, and it is the only one in hand
because the stream was asked for once. `Survival` needs one fact more: a stream whose call
was declined before its deadline never had a frame (`NoStreamIfDeclined`). So while the
provider behaves, a declined call closes a channel that nobody is sending on. A provider
that behaves has behaved before, which carries the argument from state to state. The module
has general lemmas on queues first, then which steps change what, then what a step does to
one stream, then one lemma for each part of the invariant.

**Only model-checked.** Liveness (`RegistryUnblocks`, `CallsEnd`, `NoRunawayWork`,
`DependentsFollow`, `StartsEnd`, `DisconnectEnds`, `ReadersReleased`, `CancelStops`,
`CancelledRunSettles`): fairness and `ENABLED` are beyond the prover. `NeverCrashes` is
refuted by its run. The library's theorems on induction take operators as parameters, which
the provers cannot use; where a property depends on a recursive function, the induction is
written out for that function, as said above. None of the modules declares a `RECURSIVE`
operator.

## 7. What is not modelled

- **Admission of manifests, bindings, contract catalog, authorisation policy**:
  decisions over static data. `CallPath` lets any call be refused. A delegation carries the
  authority of its root, copied unchanged from call to call, so there is no state to check.
- **Events between plugins** (fan-out to subscribers, whose queues may be full).
- **Streams between plugins**: the death of the consuming plugin, and two consumers on one
  runtime. A second answer with the same name, which blocks `Serve` (`host.go:288`), is left
  out too: the router answers once.
- **The records of the tool runner, review, artifact and session plugins**: copies of the
  storage in `RecordLog`, with the same handlers around it. The command a tool runs, its time
  limit and its output are data.
- **That a workflow run ends**: its calls time out and its context expires, but the
  module states no fairness, so only safety is checked.
- **Stopping the host**; loss of power under `EventJournal` (it is in `RecordLog`);
  wrap-around of epochs and sequence numbers (64 bits).
- **Name collisions** of fence files (`fencing.go:21` maps three characters to one) and of
  message ids chosen by clients.
- **A write to a plugin that takes five seconds** (`client.go:127` to `:137`): the plugin has stopped
  reading and its pipe is full. `Send` then marks the client of a live plugin as closed, and its
  pending calls end as disconnected, without a deadline and without a cancel. `CallPath` takes
  every write to a live plugin as done (`Written`). So `EarlyChildAdmitted` does not say that a
  child written by such a plugin keeps its delegation, nor `NoRunawayWork` that the plugin stops
  before the supervisor ends it.
- **Partial lines of the workspace log**: in `Workspace` a failed append leaves the whole line or
  nothing. A partial line, and the gluing of the next one to it (`store.go:137`), is the subject of
  `RecordLog`; the workspace plugin ignores a partial last line and refuses to start on a glued one.
- **Sizes**: a journal line beyond the scanner's 16 MiB.
- **Effects of a workflow step inside another plugin** (worktrees, sessions, agent
  runs): they are in the modules of those plugins; the workflow sees answers.
- **CLI, demo plugins, examples, scripts, generated SDK types**: input and output.

## 8. Plan

Written, in this order: `SingleWriter`, `WriterFence`, `RecordLog`, `WorkRegistry`,
`EngineeringWorkflow`, `Supervisor`, `CallPath`, `ExternalStreams`, `AgentRun`, `Workspace`,
`EventJournal`, then `LogBounds`, `PluginStreams` and `SessionSeal`; and the proofs of section 6,
those of the fence, the log and the agent runs first.

A component gets one run, at most two. Each new module takes the place of what
proofs have made redundant in the older runs: a property that is proved for every
value of the constants needs no large instance.

What would come next:

1. `PluginStreams` with two consumers, one of which dies; the abstract promise of a stream (a
   prefix of what was sent, then one end) that it and `ExternalStreams` implement.
2. `Events`: fan-out to subscribers, with the journal as one of them.
3. Compositions: `WorkRegistry` on `WriterFence` (the epoch of a replaced writer and its
   file), and `EngineeringWorkflow` on `AgentRun`, with the fairness to say that a run ends.
4. Proofs: that both modules on streams implement that promise, from `FlowInv` and `Delivered`.
   Liveness needs a prover that knows `ENABLED`.
