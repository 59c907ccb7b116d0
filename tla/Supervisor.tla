----------------------------- MODULE Supervisor -----------------------------
(***************************************************************************)
(* The plugin supervisor of the kernel: the boot loop of cmd/kernel, and    *)
(* for each runtime two goroutines, watch (waits for the process to exit,   *)
(* withdraws it and perhaps restarts the plugin) and heartbeat (pings it).  *)
(* All of them end in reconcileDependencies, which walks over a snapshot of *)
(* the runs and, with no lock held from one call to the next, recomputes    *)
(* which plugins have the capabilities they require.                        *)
(*                                                                          *)
(* One action is one critical section (of the supervisor's mutex or of the  *)
(* registry's) or one operating-system call.  Stopping the whole host is    *)
(* left out: main returns and every status disappears with the kernel.      *)
(***************************************************************************)
EXTENDS Integers, FiniteSets

CONSTANTS
  Plugins, Caps,
  Runtimes,        \* bound: the processes ever started, 1 .. n
  None,            \* no plugin, no runtime
  Provides,        \* [Plugins -> SUBSET Caps]: manifest exports
  Requires,        \* [Plugins -> SUBSET Caps]: manifest consumes.required
  Wants,           \* [Plugins -> SUBSET Caps]: manifest consumes.optional
  MaxAttempts,     \* [Plugins -> Nat]: restart.max_attempts
  MemoryLimited,   \* the plugins that declare resources.memory_mb
  HeartbeatLimit,  \* missed heartbeats that make a runtime unhealthy (3)
  MaxPasses,       \* passes of reconcileDependencies (8)
  MaxHangs,        \* bound: how often a process stops answering
  MaxBeats,        \* bound: heartbeats under way at the same time
  MaxExits         \* bound: processes that exit or are killed once started

ASSUME SupervisorAssumption ==
  /\ Provides \in [Plugins -> SUBSET Caps]
  /\ Requires \in [Plugins -> SUBSET Caps]
  /\ Wants \in [Plugins -> SUBSET Caps]
  /\ MaxAttempts \in [Plugins -> Nat]
  /\ Runtimes \subseteq Nat
  /\ MemoryLimited \subseteq Plugins
  /\ {HeartbeatLimit, MaxPasses} \subseteq Nat \ {0}
  /\ {MaxHangs, MaxBeats, MaxExits} \subseteq Nat
  /\ None \notin Plugins \cup Runtimes

VARIABLES
  runtime,  \* what is fixed when a process is started, and the process itself
  health,   \* the registry's view of each runtime
  runs,     \* supervisor.runs
  status,   \* supervisor.statuses: what operators are told of each plugin
  boot,     \* the boot loop of main
  thread,   \* the goroutines
  hangs

vars == <<runtime, health, runs, status, boot, thread, hangs>>

Boot == <<"boot">>
Watch(r) == <<"watch", r>>
Beat(r) == <<"beat", r>>
Threads == {Boot} \cup {Watch(r) : r \in Runtimes} \cup {Beat(r) : r \in Runtimes}

Proc == {"unborn", "running", "hung", "dying", "exited"}
Alive == {"running", "hung", "dying"}
State == {"INSTALLED", "STARTING", "READY", "DEGRADED", "BLOCKED", "FAILED"}
Pc == {"off", "loop", "handshake", "enter", "register", "ready", "started",
       "startFailed", "snapshot", "next", "mark", "want", "report",
       "wait", "drop", "fail", "prune", "restart", "tick", "record", "done"}

\* A goroutine: where it is, the plugin and the runtime it starts; in
\* reconcileDependencies, where it goes afterwards, the rest of its snapshot,
\* the runtime it looks at and its verdict; in heartbeat, the ping's outcome.
At(pc) == [pc |-> pc, plugin |-> None, run |-> None, then |-> "done",
           todo |-> {}, cur |-> None, verdict |-> "READY", pass |-> 0, changed |-> FALSE]

Unborn == [plugin |-> None, proc |-> "unborn", attempt |-> 0]
Unregistered ==
  [registered |-> FALSE, process |-> FALSE, deps |-> FALSE, missed |-> 0]
Registered ==
  [registered |-> TRUE, process |-> TRUE, deps |-> TRUE, missed |-> 0]

Init ==
  /\ runtime = [r \in Runtimes |-> Unborn]
  /\ health = [r \in Runtimes |-> Unregistered]
  /\ runs = {}
  /\ status = [p \in Plugins |-> "INSTALLED"]
  /\ boot = [left |-> Plugins, next |-> {}, progress |-> FALSE]
  /\ thread = [t \in Threads |-> At(IF t = Boot THEN "loop" ELSE "off")]
  /\ hangs = 0

(***************************************************************************)
(* The registry, each operator one critical section of its mutex.           *)
(***************************************************************************)
Healthy(r) ==
  LET h == health[r]
  IN  h.registered /\ h.process /\ h.deps /\ h.missed < HeartbeatLimit

Provided == UNION {Provides[runtime[r].plugin] : r \in {x \in Runtimes : Healthy(x)}}

MissingHealthyRequired(p) == Requires[p] \ Provided
MissingHealthyOptional(p) == Wants[p] \ Provided

\* Updates find no entry of a runtime that is not registered.
Update(r, h) == IF health[r].registered THEN [health EXCEPT ![r] = h] ELSE health

MarkDead(r) == Update(r, [health[r] EXCEPT !.process = FALSE])
MarkDependencyHealth(r, ok) == Update(r, [health[r] EXCEPT !.deps = ok])
Revive(r) == Update(r, [health[r] EXCEPT !.missed = 0, !.process = TRUE])
RecordHeartbeatSuccess(r) == Update(r, [health[r] EXCEPT !.missed = 0])
\* The count is only ever compared with the limit, and stops there.
RecordHeartbeatFailure(r) ==
  LET missed == health[r].missed IN
  Update(r, [health[r] EXCEPT !.missed =
    IF missed < HeartbeatLimit THEN missed + 1 ELSE missed])
EntriesKept(r) == health
RemoveRuntime(r) == [health EXCEPT ![r] = Unregistered]

(***************************************************************************)
(* start: launch a process, shake hands, register, announce, reconcile.     *)
(***************************************************************************)
Goto(t, pc) == thread' = [thread EXCEPT ![t] = [thread[t] EXCEPT !.pc = pc]]
Reconcile(t, then) ==
  thread' = [thread EXCEPT ![t] =
    [thread[t] EXCEPT !.pc = "snapshot", !.then = then, !.pass = 0]]
SetStatus(p, s) == status' = [status EXCEPT ![p] = s]

\* Runtimes are numbered in the order of their launch.
Born == {r \in Runtimes : runtime[r] # Unborn}
Fresh == 1 + Cardinality(Born)

Launch(t, p, attempt) ==
  /\ SetStatus(p, "STARTING")
  /\ \/ \E r \in Runtimes :
          /\ r = Fresh
          /\ runtime' = [runtime EXCEPT ![r] =
               [plugin |-> p, proc |-> "running", attempt |-> attempt]]
          /\ thread' = [thread EXCEPT ![t] =
               [At("handshake") EXCEPT !.plugin = p, !.run = r]]
     \/ /\ thread' = [thread EXCEPT ![t] = [At("startFailed") EXCEPT !.plugin = p]]
        /\ UNCHANGED runtime
  /\ UNCHANGED <<health, runs, hangs>>

HandshakeOk(t) ==
  /\ thread[t].pc = "handshake"
  /\ runtime[thread[t].run].proc = "running"
  /\ Goto(t, "enter")
  /\ UNCHANGED <<runtime, health, runs, status, boot, hangs>>

Killed(r) ==
  [runtime EXCEPT ![r].proc = IF runtime[r].proc = "exited" THEN "exited" ELSE "dying"]

\* A wrong ready message, a lost process or five seconds without an answer.
HandshakeFails(t) ==
  /\ thread[t].pc = "handshake"
  /\ runtime' = Killed(thread[t].run)
  /\ Goto(t, "startFailed")
  /\ UNCHANGED <<health, runs, status, boot, hangs>>

EnterRuns(t) ==
  /\ thread[t].pc = "enter"
  /\ runs' = runs \cup {thread[t].run}
  /\ Goto(t, "register")
  /\ UNCHANGED <<runtime, health, status, boot, hangs>>

RegisterRuntime(t) ==
  /\ thread[t].pc = "register"
  /\ health' = [health EXCEPT ![thread[t].run] = Registered]
  /\ Goto(t, "ready")
  /\ UNCHANGED <<runtime, runs, status, boot, hangs>>

ReportReady(t) ==
  /\ thread[t].pc = "ready"
  /\ SetStatus(thread[t].plugin, "READY")
  /\ Reconcile(t, "started")
  /\ UNCHANGED <<runtime, health, runs, boot, hangs>>

\* The boot loop goes on with the next plugin, a watcher is finished.
AfterStart(t) == IF t = Boot THEN At("loop") ELSE At("done")

Started(t) ==
  /\ thread[t].pc = "started"
  /\ thread' = [thread EXCEPT ![t] = AfterStart(t),
                              ![Watch(thread[t].run)] = At("wait"),
                              ![Beat(thread[t].run)] = At("tick")]
  /\ boot' = IF t = Boot THEN [boot EXCEPT !.progress = TRUE] ELSE boot
  /\ UNCHANGED <<runtime, health, runs, status, hangs>>

FailureUnreported(p) == status
FailedStart(p) == [status EXCEPT ![p] = "FAILED"]

StartFailed(t) ==
  /\ thread[t].pc = "startFailed"
  /\ status' = FailedStart(thread[t].plugin)
  /\ thread' = [thread EXCEPT ![t] = AfterStart(t)]
  /\ UNCHANGED <<runtime, health, runs, boot, hangs>>

(***************************************************************************)
(* The boot loop: rounds over the plugins that have not been started, until *)
(* a round starts none.                                                     *)
(***************************************************************************)
BootSkips(p) ==
  /\ thread[Boot].pc = "loop" /\ p \in boot.left
  /\ MissingHealthyRequired(p) # {}
  /\ boot' = [boot EXCEPT !.left = boot.left \ {p}, !.next = boot.next \cup {p}]
  /\ UNCHANGED <<runtime, health, runs, status, thread, hangs>>

BootStarts(p) ==
  /\ thread[Boot].pc = "loop" /\ p \in boot.left
  /\ MissingHealthyRequired(p) = {}
  /\ boot' = [boot EXCEPT !.left = boot.left \ {p}]
  /\ Launch(Boot, p, 0)

NextRound ==
  /\ thread[Boot].pc = "loop" /\ boot.left = {}
  /\ boot' = [left |-> IF boot.progress THEN boot.next ELSE {},
              next |-> {}, progress |-> FALSE]
  /\ IF boot.progress /\ boot.next # {}
       THEN UNCHANGED <<status, thread>>
       ELSE /\ status' = [p \in Plugins |->
                            IF p \in boot.next THEN "BLOCKED" ELSE status[p]]
            /\ Goto(Boot, "done")
  /\ UNCHANGED <<runtime, health, runs, hangs>>

(***************************************************************************)
(* reconcileDependencies.                                                   *)
(***************************************************************************)
Snapshot(t) ==
  LET th == thread[t] IN
  /\ th.pc = "snapshot"
  /\ thread' = [thread EXCEPT ![t] =
       [th EXCEPT !.pc = "next", !.todo = runs, !.pass = th.pass + 1, !.changed = FALSE]]
  /\ UNCHANGED <<runtime, health, runs, status, boot, hangs>>

Verdict(r) ==
  IF MissingHealthyRequired(runtime[r].plugin) = {} THEN "READY" ELSE "BLOCKED"

LookRequired(t) ==
  LET th == thread[t] IN
  /\ th.pc = "next"
  /\ \E r \in th.todo :
       thread' = [thread EXCEPT ![t] = [th EXCEPT
         !.pc = "mark", !.cur = r, !.todo = th.todo \ {r}, !.verdict = Verdict(r)]]
  /\ UNCHANGED <<runtime, health, runs, status, boot, hangs>>

MarkDependencies(t) ==
  LET th == thread[t]  r == th.cur  ok == th.verdict = "READY" IN
  /\ th.pc = "mark"
  /\ health' = MarkDependencyHealth(r, ok)
  /\ thread' = [thread EXCEPT ![t] = [th EXCEPT
       !.pc = IF ok /\ Wants[runtime[r].plugin] # {} THEN "want" ELSE "report",
       !.changed = th.changed \/ (health[r].registered /\ health[r].deps # ok)]]
  /\ UNCHANGED <<runtime, runs, status, boot, hangs>>

LookOptional(t) ==
  /\ thread[t].pc = "want"
  /\ thread' = [thread EXCEPT ![t] = [thread[t] EXCEPT !.pc = "report", !.verdict =
       IF MissingHealthyOptional(runtime[thread[t].cur].plugin) = {}
         THEN "READY" ELSE "DEGRADED"]]
  /\ UNCHANGED <<runtime, health, runs, status, boot, hangs>>

ReportDependencies(t) ==
  /\ thread[t].pc = "report"
  /\ SetStatus(runtime[thread[t].cur].plugin, thread[t].verdict)
  /\ thread' = [thread EXCEPT ![t] =
       [thread[t] EXCEPT !.pc = "next", !.cur = None, !.verdict = "READY"]]
  /\ UNCHANGED <<runtime, health, runs, boot, hangs>>

MorePasses(th) == th.changed /\ th.pass < MaxPasses

EndPass(t) ==
  LET th == thread[t] IN
  /\ th.pc = "next" /\ th.todo = {}
  /\ thread' = [thread EXCEPT ![t] =
       IF MorePasses(th)
         THEN [th EXCEPT !.pc = "snapshot"]
         ELSE [At(th.then) EXCEPT !.plugin = th.plugin, !.run = th.run]]
  /\ UNCHANGED <<runtime, health, runs, status, boot, hangs>>

(***************************************************************************)
(* watch.                                                                   *)
(***************************************************************************)
KillSent(r) == runtime[r].proc \in {"dying", "exited"}
Exited(r) == runtime[r].proc = "exited"

WaitReturns(r) ==
  /\ thread[Watch(r)].pc = "wait" /\ Exited(r)
  /\ health' = MarkDead(r)
  /\ Goto(Watch(r), "drop")
  /\ UNCHANGED <<runtime, runs, status, boot, hangs>>

DropRun(r) ==
  /\ thread[Watch(r)].pc = "drop"
  /\ runs' = runs \ {r}
  /\ Goto(Watch(r), "fail")
  /\ UNCHANGED <<runtime, health, status, boot, hangs>>

ReportFailed(r) ==
  /\ thread[Watch(r)].pc = "fail"
  /\ SetStatus(runtime[r].plugin, "FAILED")
  /\ Reconcile(Watch(r), "prune")
  /\ UNCHANGED <<runtime, health, runs, boot, hangs>>

MayRestart(r) == runtime[r].attempt < MaxAttempts[runtime[r].plugin]

Prune(r) ==
  /\ thread[Watch(r)].pc = "prune"
  /\ health' = RemoveRuntime(r)
  /\ Goto(Watch(r), IF MayRestart(r) THEN "restart" ELSE "done")
  /\ UNCHANGED <<runtime, runs, status, boot, hangs>>

NextAttempt(r) == runtime[r].attempt + 1

Restart(r) ==
  /\ thread[Watch(r)].pc = "restart"
  /\ Launch(Watch(r), runtime[r].plugin, NextAttempt(r))
  /\ UNCHANGED boot

(***************************************************************************)
(* heartbeat.                                                               *)
(***************************************************************************)
BeatEnds(r) ==
  /\ thread[Beat(r)].pc = "tick" /\ r \notin runs
  /\ Goto(Beat(r), "done")
  /\ UNCHANGED <<runtime, health, runs, status, boot, hangs>>

\* The process is over its declared memory, or its memory cannot be read.
BeatKills(r) ==
  /\ thread[Beat(r)].pc = "tick" /\ r \in runs
  /\ runtime[r].plugin \in MemoryLimited
  /\ health' = MarkDead(r)
  /\ runtime' = Killed(r)
  /\ Goto(Beat(r), "done")
  /\ UNCHANGED <<runs, status, boot, hangs>>

Ping(r) ==
  /\ thread[Beat(r)].pc = "tick" /\ r \in runs
  /\ Cardinality({x \in Runtimes : thread[Beat(x)].pc \notin {"off", "tick", "done"}}) < MaxBeats
  /\ thread' = [thread EXCEPT ![Beat(r)] = [thread[Beat(r)] EXCEPT !.pc = "record",
       !.verdict = IF runtime[r].proc = "running" THEN "READY" ELSE "FAILED"]]
  /\ UNCHANGED <<runtime, health, runs, status, boot, hangs>>

NoReconcile(r) == thread' = [thread EXCEPT ![Beat(r)] = At("tick")]
AfterRecord(r) ==
  thread' = [thread EXCEPT ![Beat(r)] = [At("snapshot") EXCEPT !.then = "tick"]]

RecordBeat(r) ==
  /\ thread[Beat(r)].pc = "record"
  /\ health' = IF thread[Beat(r)].verdict = "READY"
                 THEN RecordHeartbeatSuccess(r) ELSE RecordHeartbeatFailure(r)
  /\ AfterRecord(r)
  /\ UNCHANGED <<runtime, runs, status, boot, hangs>>

(***************************************************************************)
(* The processes.                                                           *)
(***************************************************************************)
SetProc(r, s) == runtime' = [runtime EXCEPT ![r].proc = s]

MoreExits ==
  Cardinality({r \in Runtimes : runtime[r].proc \in {"dying", "exited"}}) < MaxExits

Exit(r) ==
  /\ \/ runtime[r].proc = "dying"
     \/ runtime[r].proc \in {"running", "hung"} /\ MoreExits
  /\ SetProc(r, "exited")
  /\ UNCHANGED <<health, runs, status, boot, thread, hangs>>

\* Supervisor.Stop, called by an operator.
Stop(r) ==
  /\ r \in runs /\ runtime[r].proc \in {"running", "hung"} /\ MoreExits
  /\ runtime' = Killed(r)
  /\ UNCHANGED <<health, runs, status, boot, thread, hangs>>

Hang(r) ==
  /\ runtime[r].proc = "running" /\ hangs < MaxHangs
  /\ hangs' = hangs + 1
  /\ SetProc(r, "hung")
  /\ UNCHANGED <<health, runs, status, boot, thread>>

Unhang(r) ==
  /\ runtime[r].proc = "hung"
  /\ SetProc(r, "running")
  /\ UNCHANGED <<health, runs, status, boot, thread, hangs>>

Reconciling(t) ==
  \/ Snapshot(t) \/ LookRequired(t) \/ MarkDependencies(t) \/ LookOptional(t)
  \/ ReportDependencies(t) \/ EndPass(t)

Starting(t) ==
  \/ HandshakeOk(t) \/ HandshakeFails(t) \/ EnterRuns(t) \/ RegisterRuntime(t)
  \/ ReportReady(t) \/ Started(t) \/ StartFailed(t)

Booting ==
  \/ NextRound
  \/ \E p \in Plugins : BootSkips(p) \/ BootStarts(p)

Watching(r) ==
  \/ WaitReturns(r) \/ DropRun(r) \/ ReportFailed(r) \/ Prune(r) \/ Restart(r)

Beating(r) == BeatEnds(r) \/ Ping(r) \/ RecordBeat(r)

Processes(r) == Exit(r) \/ Stop(r) \/ Hang(r) \/ Unhang(r)

Next ==
  \/ Booting
  \/ \E t \in Threads : Starting(t) \/ Reconciling(t)
  \/ \E r \in Runtimes : Watching(r) \/ Beating(r) \/ BeatKills(r) \/ Processes(r)

Spec == Init /\ [][Next]_vars

(***************************************************************************)
(* Goroutines are scheduled fairly, the handshake has a timeout, the beat   *)
(* has a ticker, and a killed process dies.  Nothing makes a process exit,  *)
(* hang, recover or use too much memory.                                    *)
(***************************************************************************)
KilledDies(r) == runtime[r].proc = "dying" /\ Exit(r)

Fairness ==
  /\ WF_vars(Booting \/ Starting(Boot) \/ Reconciling(Boot))
  /\ \A r \in Runtimes :
       /\ WF_vars(Watching(r) \/ Starting(Watch(r)) \/ Reconciling(Watch(r)))
       /\ WF_vars(Beating(r) \/ Reconciling(Beat(r)))
       /\ WF_vars(KilledDies(r))

FairSpec == Spec /\ Fairness

(***************************************************************************)
(* Properties.                                                              *)
(***************************************************************************)
\* The variables have the values the code can store in them.
TypeOK ==
  /\ runtime \in [Runtimes ->
       [plugin : Plugins \cup {None}, proc : Proc, attempt : Nat]]
  /\ health \in [Runtimes -> [registered : BOOLEAN, process : BOOLEAN,
                              deps : BOOLEAN, missed : 0 .. HeartbeatLimit]]
  /\ runs \subseteq Runtimes
  /\ status \in [Plugins -> State]
  /\ boot \in [left : SUBSET Plugins, next : SUBSET Plugins, progress : BOOLEAN]
  /\ thread \in [Threads ->
       [pc : Pc, plugin : Plugins \cup {None}, run : Runtimes \cup {None},
        then : Pc, todo : SUBSET Runtimes, cur : Runtimes \cup {None},
        verdict : State, pass : 0 .. MaxPasses, changed : BOOLEAN]]
  /\ hangs \in 0 .. MaxHangs

\* Through crashes, kills, failed starts and restarts, no two live processes
\* belong to one plugin: each plugin's data directory has one writer, which is
\* what the plugins' append-only stores rest on.
OneProcess ==
  \A r, x \in Runtimes :
    /\ runtime[r].proc \in Alive /\ runtime[x].proc \in Alive
    /\ runtime[r].plugin = runtime[x].plugin
    => r = x

\* No goroutine has anything left to do until a process or a ticker acts.
Settled ==
  /\ \A t \in Threads : thread[t].pc \in {"off", "wait", "tick", "done"}
  /\ \A r \in Runtimes : thread[Watch(r)].pc = "wait" => ~Exited(r)

\* When the supervisor has settled, the registry knows exactly the runtimes the
\* supervisor runs, and their processes exist: an exited runtime leaves no
\* provider behind, and none is lost by goroutines that overlap.
NoGhosts ==
  Settled =>
    /\ runs = {r \in Runtimes : health[r].registered}
    /\ runs = {r \in Runtimes : runtime[r].proc \in Alive /\ thread[Watch(r)].pc = "wait"}

\* A runtime whose exit was noticed, or that was condemned by its memory use,
\* never becomes routable again, whatever pings and reconciliations are still
\* under way.
DeadStaysDead ==
  [][\A r \in Runtimes :
       \/ thread[Watch(r)].pc \notin {"off", "wait"}
       \/ health[r].registered /\ ~health[r].process
       => ~Healthy(r)']_vars

\* A plugin is started at most once and restarted at most max_attempts times.
RestartsBounded ==
  \A p \in Plugins :
    Cardinality({r \in Runtimes : runtime[r].plugin = p}) <= MaxAttempts[p] + 1

\* Behind these: what a goroutine has in hand.  It walks (reconcileDependencies), it
\* starts a runtime, or it minds its own until the plugin is withdrawn or restarted.
Walks(th) == th.pc \in {"snapshot", "next", "mark", "want", "report"}
Starts(th) ==
  th.pc \in {"handshake", "enter", "register", "ready", "started"} \/ (Walks(th) /\ th.then = "started")
Minds(th) ==
  th.pc \in {"wait", "drop", "fail", "prune", "restart"} \/ (Walks(th) /\ th.then = "prune")
Pings(th) == th.pc \in {"tick", "record"} \/ (Walks(th) /\ th.then = "tick")

Tends(t, r) ==
  \/ thread[t].run = r /\ Starts(thread[t])
  \/ t = Watch(r) /\ Minds(thread[t])
Holds(t, p) ==
  \/ \E r \in Runtimes : runtime[r].plugin = p /\ Tends(t, r)
  \/ thread[t].pc = "startFailed" /\ thread[t].plugin = p

InRuns(th) ==
  \/ th.pc \in {"register", "ready", "started", "wait", "drop"}
  \/ Walks(th) /\ th.then = "started"
Entered(th) ==
  \/ InRuns(th) /\ th.pc # "register"
  \/ th.pc \in {"fail", "prune"}
  \/ Walks(th) /\ th.then = "prune"

Duties ==
  /\ thread[Boot].pc \in {"loop", "done", "startFailed"} \/ Starts(thread[Boot])
  /\ \A r \in Runtimes :
       /\ LET th == thread[Watch(r)] IN
          /\ th.pc \in {"off", "done", "startFailed"} \/ Starts(th) \/ Minds(th)
          /\ Minds(th) /\ th.pc # "wait" => Exited(r)
          /\ th.pc = "restart" => MayRestart(r)
          /\ th.pc # "off" => runtime[r].proc # "unborn"
       /\ thread[Beat(r)].pc \in {"off", "done"} \/ Pings(thread[Beat(r)])
  /\ \A t \in Threads :
       LET th == thread[t] IN
       /\ th.pc = "snapshot" => th.pass < MaxPasses
       /\ th.pc = "startFailed" => th.plugin \in Plugins
       /\ Starts(th) => /\ th.run \in Runtimes /\ th.plugin = runtime[th.run].plugin
                        /\ runtime[th.run].proc # "unborn"
                        /\ thread[Watch(th.run)].pc = "off"

\* The runtimes: numbered as they were launched, each plugin's by their attempts.
Births ==
  /\ Cardinality(Born) \in Nat /\ Born = 1 .. Cardinality(Born)
  /\ \A r \in Runtimes : IF runtime[r].proc = "unborn"
       THEN runtime[r] = Unborn
       ELSE runtime[r].plugin \in Plugins /\ runtime[r].attempt <= MaxAttempts[runtime[r].plugin]
  /\ \A r, x \in Runtimes :
       /\ runtime[r].plugin # None /\ runtime[r].plugin = runtime[x].plugin
       /\ runtime[r].attempt = runtime[x].attempt
       => r = x
  /\ \A t \in Threads, r \in Runtimes : Tends(t, r) =>
       \A x \in Runtimes :
         runtime[x].plugin = runtime[r].plugin => runtime[x].attempt <= runtime[r].attempt

\* At most one goroutine has a plugin in hand, none while the boot loop has not started it,
\* and a live process that none has in hand is the leftover of a start that failed.
InHand ==
  /\ \A t \in Threads, p \in Plugins :
       Holds(t, p) => \A u \in Threads : Holds(u, p) => u = t
  /\ boot.left \cap boot.next = {}
  /\ \A p \in boot.left \cup boot.next :
       /\ \A t \in Threads : ~Holds(t, p)
       /\ \A r \in Runtimes : runtime[r].plugin # p
  /\ \A r \in Runtimes : runtime[r].proc \in Alive =>
       \/ \E t \in Threads : Tends(t, r)
       \/ /\ runtime[r].proc = "dying"
          /\ \A t \in Threads : Holds(t, runtime[r].plugin) => thread[t].pc = "startFailed"

\* The supervisor's and the registry's lists follow the goroutine that has the runtime.
Lists ==
  \A r \in Runtimes :
    /\ r \in runs <=> \E t \in Threads : Tends(t, r) /\ InRuns(thread[t])
    /\ health[r].registered <=> \E t \in Threads : Tends(t, r) /\ Entered(thread[t])
    /\ health[r].process => health[r].registered /\ thread[Watch(r)].pc \in {"off", "wait"}

\* The state invariant: the types, that starts, exits and restarts leave no trace, and what
\* makes it inductive.
IInv == TypeOK /\ Duties /\ Births /\ InHand /\ Lists /\ OneProcess
Inv == IInv /\ NoGhosts /\ RestartsBounded

\* Losing a required capability for good ends with every runtime of the plugin
\* withdrawn, and having it for good ends with none withdrawn for that reason,
\* although every walk works on a snapshot and may write a stale answer.
DependentsFollow ==
  \A p \in Plugins :
    /\ <>[](MissingHealthyRequired(p) # {})
       => <>[](\A r \in Runtimes : runtime[r].plugin = p => ~Healthy(r))
    /\ <>[](MissingHealthyRequired(p) = {})
       => <>[](\A r \in runs : runtime[r].plugin = p /\ health[r].registered
                               => health[r].deps)

\* A plugin does not stay STARTING: its start ends in a status of another kind.
StartsEnd == \A p \in Plugins : status[p] = "STARTING" ~> status[p] # "STARTING"
=============================================================================
