-------------------------- MODULE SupervisorProofs --------------------------
(***************************************************************************)
(* The supervisor for any plugins, runtimes, requirements and limits.  Most *)
(* steps are calm: every goroutine keeps what it has in hand (Calm).  The   *)
(* others hand a runtime on: a start fails, is entered in the lists, is     *)
(* taken over by its watcher, is dropped, or becomes the next launch; each  *)
(* has a lemma of its own, and StepKeeps puts them together.  What follows  *)
(* from the invariant, and the theorems, are at the end.                    *)
(***************************************************************************)
EXTENDS Supervisor, FiniteSetTheorems, TLAPS

\* The names of the goroutines tell them apart.
LEMMA Names ==
    /\ Boot \in Threads
    /\ \A r \in Runtimes : Watch(r) \in Threads /\ Beat(r) \in Threads
    /\ \A r, x : (Watch(r) = Watch(x) => r = x) /\ (Beat(r) = Beat(x) => r = x)
    /\ \A r, x : Boot # Watch(r) /\ Boot # Beat(r) /\ Watch(r) # Beat(x)
    /\ \A t \in Threads :
         t = Boot \/ (\E r \in Runtimes : t = Watch(r)) \/ (\E r \in Runtimes : t = Beat(r))
<1>1. \A r, x : (Watch(r) = Watch(x) => r = x) /\ (Beat(r) = Beat(x) => r = x)
  BY DEF Watch, Beat
<1>2. \A r, x : Watch(r) # Beat(x)
  BY DEF Watch, Beat
<1>3. \A r : Boot # Watch(r) /\ Boot # Beat(r)
  BY DEF Watch, Beat, Boot
<1> QED
  BY <1>1, <1>2, <1>3 DEF Threads

\* The records that TypeOK is about.
Thread ==
    [pc : Pc, plugin : Plugins \cup {None}, run : Runtimes \cup {None},
     then : Pc, todo : SUBSET Runtimes, cur : Runtimes \cup {None},
     verdict : State, pass : 0 .. MaxPasses, changed : BOOLEAN]
Process == [plugin : Plugins \cup {None}, proc : Proc, attempt : Nat]
Health == [registered : BOOLEAN, process : BOOLEAN, deps : BOOLEAN, missed : 0 .. HeartbeatLimit]
BootState == [left : SUBSET Plugins, next : SUBSET Plugins, progress : BOOLEAN]

\* TypeOK, set by set.
LEMMA Types ==
    TypeOK <=> /\ runtime \in [Runtimes -> Process] /\ health \in [Runtimes -> Health]
               /\ runs \subseteq Runtimes /\ status \in [Plugins -> State]
               /\ boot \in BootState /\ thread \in [Threads -> Thread] /\ hangs \in 0 .. MaxHangs
BY DEF TypeOK, Thread, Process, Health, BootState

\* A fresh record of a goroutine.
LEMMA AtTyped ==
    ASSUME NEW pc \in Pc
    PROVE  At(pc) \in Thread /\ At(pc).pc = pc
BY SupervisorAssumption DEF At, Thread, State, Pc

\* What Duties says of the goroutine t with the record n.
Own(t, n) ==
    /\ t = Boot => n.pc \in {"loop", "done", "startFailed"} \/ Starts(n)
    /\ \A r \in Runtimes : t = Watch(r) =>
         /\ n.pc \in {"off", "done", "startFailed"} \/ Starts(n) \/ Minds(n)
         /\ Minds(n) /\ n.pc # "wait" => Exited(r)
         /\ n.pc = "restart" => MayRestart(r)
         /\ n.pc # "off" => runtime[r].proc # "unborn"
    /\ \A r \in Runtimes : t = Beat(r) => n.pc \in {"off", "done"} \/ Pings(n)
    /\ n.pc = "snapshot" => n.pass < MaxPasses
    /\ n.pc = "startFailed" => n.plugin \in Plugins
    /\ Starts(n) => /\ n.run \in Runtimes /\ n.plugin = runtime[n.run].plugin
                    /\ runtime[n.run].proc # "unborn"
                    /\ thread[Watch(n.run)].pc = "off"

\* Duties, goroutine by goroutine.
LEMMA EachDuty == Duties <=> \A t \in Threads : Own(t, thread[t])
<1>1. ASSUME Duties, NEW t \in Threads PROVE Own(t, thread[t])
  BY <1>1, Names DEF Duties, Own
<1>2. ASSUME \A t \in Threads : Own(t, thread[t]) PROVE Duties
  BY <1>2, Names DEF Duties, Own
<1>. QED BY <1>1, <1>2

\* The same, after a step.
LEMMA EachDutyNext ==
    ASSUME \A t \in Threads : Own(t, thread[t])'
    PROVE  Duties'
BY Names DEF Duties, Own

\* What a step leaves of the processes that were started.
Steady ==
    \A r \in Runtimes : runtime[r].proc # "unborn" =>
      /\ runtime'[r].plugin = runtime[r].plugin /\ runtime'[r].attempt = runtime[r].attempt
      /\ runtime'[r].proc # "unborn"
      /\ runtime[r].proc = "exited" => runtime'[r].proc = "exited"

\* What a goroutine owes stays true while its record does.
LEMMA OwnStays ==
    ASSUME Steady, NEW t \in Threads, NEW n \in Thread, Own(t, n),
           Starts(n) => thread'[Watch(n.run)].pc = "off"
    PROVE  Own(t, n)'
<1>1. ASSUME NEW r \in Runtimes, t = Watch(r)
      PROVE  /\ n.pc \in {"off", "done", "startFailed"} \/ Starts(n) \/ Minds(n)
             /\ Minds(n) /\ n.pc # "wait" => Exited(r)'
             /\ n.pc = "restart" => MayRestart(r)'
             /\ n.pc # "off" => runtime'[r].proc # "unborn"
  BY <1>1 DEF Own, Steady, Exited, MayRestart, Minds
<1>2. Starts(n) => /\ n.run \in Runtimes /\ n.plugin = runtime'[n.run].plugin
                    /\ runtime'[n.run].proc # "unborn"
                    /\ thread'[Watch(n.run)].pc = "off"
  BY DEF Own, Steady
<1>. QED BY <1>1, <1>2 DEF Own, Starts, Minds, Pings, Walks

\* A calm step: no process, plugin or runtime passes from one hand to another.
RuntimeCalm ==
    /\ runtime' \in [Runtimes -> Process]
    /\ \A r \in Runtimes :
         /\ runtime'[r].plugin = runtime[r].plugin /\ runtime'[r].attempt = runtime[r].attempt
         /\ runtime'[r].proc = "unborn" <=> runtime[r].proc = "unborn"
         /\ runtime[r].proc = "exited" => runtime'[r].proc = "exited"
         /\ runtime'[r].proc \in Alive => runtime[r].proc \in Alive
         /\ runtime[r].proc = "dying" => runtime'[r].proc \in {"dying", "exited"}
HealthCalm ==
    /\ health' \in [Runtimes -> Health]
    /\ \A r \in Runtimes : /\ health'[r].registered = health[r].registered
                           /\ health'[r].process => health[r].process
BootCalm ==
    /\ boot' \in BootState
    /\ boot'.left \cup boot'.next \subseteq boot.left \cup boot.next
    /\ boot.left \cap boot.next = {} => boot'.left \cap boot'.next = {}

\* Two records of one goroutine that has the same in hand.
Alike(n, m) ==
    /\ Starts(n) <=> Starts(m)
    /\ Minds(n) <=> Minds(m)
    /\ InRuns(n) <=> InRuns(m)
    /\ Entered(n) <=> Entered(m)
    /\ n.pc = "startFailed" <=> m.pc = "startFailed"
    /\ n.pc = "off" <=> m.pc = "off"
    /\ Starts(m) \/ m.pc = "startFailed" => n.run = m.run /\ n.plugin = m.plugin

\* The runtimes that were started, by their processes.
LEMMA BornByProc ==
    ASSUME TypeOK, Births
    PROVE  Born = {r \in Runtimes : runtime[r].proc # "unborn"}
BY DEF TypeOK, Births, Born, Unborn

\* One goroutine moves, and it was not one that is still to be started.
LEMMA DutiesMove ==
    ASSUME IInv, NEW t \in Threads, NEW n \in Thread, thread' = [thread EXCEPT ![t] = n],
           thread[t].pc = "off" => n.pc = "off", Own(t, n)', Steady
    PROVE  Duties'
<1>2. \A u \in Threads : thread[u] \in Thread /\ thread'[u] = IF u = t THEN n ELSE thread[u]
  BY Types DEF IInv
<1>3. ASSUME NEW u \in Threads PROVE Own(u, thread[u])'
  <2>1. CASE u = t BY <2>1, <1>2 DEF Own
  <2>2. CASE u # t
    <3>1. Own(u, thread[u]) BY EachDuty DEF IInv
    <3>2. Starts(thread[u]) => thread'[Watch(thread[u].run)].pc = "off"
      BY <3>1, <1>2, Names DEF Own
    <3>3. PICK m \in Thread : m = thread[u] BY <1>2
    <3>4. Own(u, m) BY <3>1, <3>3 DEF Own
    <3>5. Own(u, m)' BY <3>2, <3>3, <3>4, OwnStays
    <3>. QED BY <3>3, <3>5, <2>2, <1>2 DEF Own
  <2>. QED BY <2>1, <2>2
<1>. QED BY <1>3, EachDutyNext

\* A calm step in which nobody takes a runtime into his hands.
LEMMA BirthsKept ==
    ASSUME SupervisorAssumption, IInv, TypeOK', RuntimeCalm,
           \A u \in Threads, r \in Runtimes : Tends(u, r)' => Tends(u, r)
    PROVE  Births' /\ OneProcess'
<1>0. TypeOK BY DEF IInv
<1>1. Born' = Born
  <2>1. Births BY DEF IInv
  <2>2. Born = {r \in Runtimes : runtime[r].proc # "unborn"} BY <1>0, <2>1, BornByProc
  <2>3. \A r \in Runtimes : runtime[r].proc = "unborn" => runtime'[r] = runtime[r]
    BY <1>0, Types DEF RuntimeCalm, Process
  <2>4. \A r \in Runtimes : runtime[r].proc = "unborn" => runtime'[r] = Unborn
    BY <2>1, <2>3 DEF Births
  <2>5. \A r \in Runtimes : r \in Born' <=> r \in Born
    BY <2>2, <2>4 DEF Born, RuntimeCalm, Unborn
  <2>. QED BY <2>5 DEF Born
<1>2. Births'
  <2>1. Births BY DEF IInv
  <2>3. \A r \in Runtimes : runtime[r].proc = "unborn" => runtime'[r] = runtime[r]
    BY <1>0, Types DEF RuntimeCalm, Process
  <2>4. \A r \in Runtimes : IF runtime'[r].proc = "unborn" THEN runtime'[r] = Unborn
          ELSE runtime'[r].plugin \in Plugins /\ runtime'[r].attempt <= MaxAttempts[runtime'[r].plugin]
    BY <2>1, <2>3 DEF Births, RuntimeCalm
  <2>5. \A r, x \in Runtimes :
       /\ runtime'[r].plugin # None /\ runtime'[r].plugin = runtime'[x].plugin
       /\ runtime'[r].attempt = runtime'[x].attempt
       => r = x
    BY <2>1 DEF Births, RuntimeCalm
  <2>6. \A u \in Threads, r \in Runtimes : Tends(u, r)' =>
       \A x \in Runtimes :
         runtime'[x].plugin = runtime'[r].plugin => runtime'[x].attempt <= runtime'[r].attempt
    BY <2>1 DEF Births, RuntimeCalm
  <2>. QED BY <2>1, <1>1, <2>4, <2>5, <2>6 DEF Births
<1>3. OneProcess'
  BY DEF IInv, OneProcess, RuntimeCalm
<1>. QED BY <1>2, <1>3

\* Every goroutine has in hand what it had.
LEMMA RolesKeep ==
    ASSUME SupervisorAssumption, IInv, TypeOK', RuntimeCalm, BootCalm,
           \A u \in Threads, r \in Runtimes : Tends(u, r)' <=> Tends(u, r),
           \A u \in Threads : thread'[u].pc = "startFailed" <=> thread[u].pc = "startFailed",
           \A u \in Threads : thread[u].pc = "startFailed" => thread'[u].plugin = thread[u].plugin
    PROVE  Births' /\ InHand' /\ OneProcess'
<1>0. TypeOK BY DEF IInv
<1>1. TypeOK' OBVIOUS
<1>6. \A u \in Threads, r \in Runtimes : Tends(u, r)' <=> Tends(u, r)
  OBVIOUS
<1>7. \A u \in Threads, p \in Plugins : Holds(u, p)' <=> Holds(u, p)
  BY <1>6 DEF Holds, RuntimeCalm
<1>10. InHand'
  <2>1. InHand BY DEF IInv
  <2>2. \A u \in Threads, p \in Plugins :
       Holds(u, p)' => \A v \in Threads : Holds(v, p)' => v = u
    BY <2>1, <1>7 DEF InHand
  <2>3. \A p \in boot'.left \cup boot'.next :
       /\ p \in Plugins
       /\ \A u \in Threads : ~Holds(u, p)'
       /\ \A r \in Runtimes : runtime'[r].plugin # p
    <3>1. \A p \in boot'.left \cup boot'.next : p \in Plugins /\ p \in boot.left \cup boot.next
      BY <1>1, Types DEF BootCalm, BootState
    <3>. QED BY <3>1, <2>1, <1>7 DEF InHand, RuntimeCalm
  <2>4. ASSUME NEW r \in Runtimes, runtime'[r].proc \in Alive
        PROVE  \/ \E u \in Threads : Tends(u, r)'
               \/ /\ runtime'[r].proc = "dying"
                  /\ \A u \in Threads : Holds(u, runtime[r].plugin)' => thread'[u].pc = "startFailed"
    <3>1. runtime[r].proc \in Alive /\ runtime'[r].plugin = runtime[r].plugin
      BY <2>4 DEF RuntimeCalm
    <3>2. CASE \E u \in Threads : Tends(u, r) BY <3>2, <1>6
    <3>3. CASE /\ runtime[r].proc = "dying"
               /\ \A u \in Threads : Holds(u, runtime[r].plugin) => thread[u].pc = "startFailed"
      <4>1. runtime'[r].proc = "dying" BY <3>3, <2>4 DEF RuntimeCalm, Alive
      <4>2. runtime[r].plugin \in Plugins
        BY <3>1 DEF IInv, Births, Alive
      <4>3. PICK p \in Plugins : p = runtime[r].plugin BY <4>2
      <4>4. \A u \in Threads : Holds(u, p)' => thread'[u].pc = "startFailed"
        BY <4>3, <3>3, <1>7
      <4>5. \A u \in Threads : Holds(u, runtime[r].plugin)' => Holds(u, p)'
        BY <4>3, <3>1 DEF Holds
      <4>. QED BY <4>1, <4>4, <4>5
    <3>. QED BY <2>1, <3>1, <3>2, <3>3 DEF InHand
  <2>5. boot'.left \cap boot'.next = {} BY <2>1 DEF InHand, BootCalm
  <2>. QED BY <2>2, <2>3, <2>4, <2>5 DEF InHand
<1>. QED BY <1>6, <1>10, BirthsKept

\* A calm step keeps the invariant.
LEMMA Calm ==
    ASSUME SupervisorAssumption, IInv, NEW t \in Threads, NEW n \in Thread,
           thread' = [thread EXCEPT ![t] = n],
           Alike(n, thread[t]), Own(t, n)',
           thread[t].pc = "wait" => n.pc = "wait" \/ (\A r \in Runtimes : t = Watch(r) => ~health'[r].process),
           RuntimeCalm, HealthCalm, BootCalm, runs' = runs,
           status' \in [Plugins -> State], hangs' \in 0 .. MaxHangs
    PROVE  IInv'
<1>0. TypeOK BY DEF IInv
<1>1. TypeOK'
  <2>1. thread' \in [Threads -> Thread] BY <1>0, Types
  <2>. QED BY <2>1, <1>0, Types DEF RuntimeCalm, HealthCalm, BootCalm, TypeOK, Thread, Process, Health, BootState
<1>2. \A u \in Threads : thread[u] \in Thread /\ thread'[u] = IF u = t THEN n ELSE thread[u]
  BY <1>0, Types
<1>3. \A u \in Threads : Alike(thread'[u], thread[u])
  BY <1>2 DEF Alike
<1>4. Steady
  BY DEF Steady, RuntimeCalm
<1>5. Duties'
  BY <1>2, <1>4, DutiesMove DEF Alike
<1>6. \A u \in Threads, r \in Runtimes : Tends(u, r)' <=> Tends(u, r)
  BY <1>3 DEF Tends, Alike
<1>7. Births' /\ InHand' /\ OneProcess'
  BY <1>1, <1>3, <1>6, RolesKeep DEF Alike
<1>11. Lists'
  <2>1. Lists BY DEF IInv
  <2>2. ASSUME NEW r \in Runtimes
        PROVE  /\ r \in runs' <=> \E u \in Threads : Tends(u, r)' /\ InRuns(thread'[u])
               /\ health'[r].registered <=> \E u \in Threads : Tends(u, r)' /\ Entered(thread'[u])
               /\ health'[r].process => health'[r].registered /\ thread'[Watch(r)].pc \in {"off", "wait"}
    <3>1. r \in runs' <=> \E u \in Threads : Tends(u, r)' /\ InRuns(thread'[u])
      BY <2>1, <1>3, <1>6 DEF Lists, Alike
    <3>2. health'[r].registered <=> \E u \in Threads : Tends(u, r)' /\ Entered(thread'[u])
      BY <2>1, <1>3, <1>6 DEF Lists, Alike, HealthCalm
    <3>3. ASSUME health'[r].process
          PROVE  health'[r].registered /\ thread'[Watch(r)].pc \in {"off", "wait"}
      <4>1. health'[r].registered /\ thread[Watch(r)].pc \in {"off", "wait"}
        BY <3>3, <2>1 DEF Lists, HealthCalm
      <4>2. CASE t = Watch(r) BY <4>1, <4>2, <3>3, <1>2 DEF Alike
      <4>3. CASE t # Watch(r) BY <4>1, <4>3, <1>2, Names
      <4>. QED BY <4>2, <4>3
    <3>. QED BY <3>1, <3>2, <3>3
  <2>. QED BY <2>2 DEF Lists
<1>. QED BY <1>1, <1>5, <1>7, <1>11 DEF IInv

\* What a step leaves unchanged is calm.
LEMMA Still ==
    ASSUME TypeOK
    PROVE  /\ runtime' = runtime => RuntimeCalm
           /\ health' = health => HealthCalm
           /\ boot' = boot => BootCalm
           /\ status' = status => status' \in [Plugins -> State]
           /\ hangs' = hangs => hangs' \in 0 .. MaxHangs
<1>1. runtime' = runtime => RuntimeCalm BY Types DEF RuntimeCalm
<1>2. health' = health => HealthCalm BY Types DEF HealthCalm
<1>3. boot' = boot => BootCalm BY Types DEF BootCalm
<1>. QED BY <1>1, <1>2, <1>3, Types

\* A calm step starts no process.
LEMMA CalmIsSteady == RuntimeCalm => Steady
BY DEF RuntimeCalm, Steady

\* A goroutine that starts a runtime goes on.
LEMMA StartCalm ==
    ASSUME SupervisorAssumption, IInv, NEW t \in Threads, NEW n \in Thread,
           thread' = [thread EXCEPT ![t] = n],
           Starts(thread[t]), Alike(n, thread[t]), n.pc = "snapshot" => n.pass < MaxPasses,
           RuntimeCalm, HealthCalm, BootCalm, runs' = runs,
           status' \in [Plugins -> State], hangs' \in 0 .. MaxHangs
    PROVE  IInv'
<1>0. Own(t, thread[t]) BY EachDuty DEF IInv
<1>1. PICK m \in Thread : m = thread[t] BY Types DEF IInv
<1>2. Starts(n) /\ n.run = m.run /\ n.plugin = m.plugin /\ Starts(m) BY <1>1 DEF Alike
<1>3. thread'[Watch(n.run)].pc = "off"
  <2>1. n.run \in Runtimes /\ thread[Watch(n.run)].pc = "off" BY <1>0, <1>1, <1>2 DEF Own
  <2>2. Watch(n.run) # t BY <2>1, <1>1, <1>2 DEF Starts, Walks
  <2>. QED BY <2>1, <2>2, Names, Types DEF IInv
<1>4. Own(t, m)' BY <1>0, <1>1, <1>2, <1>3, CalmIsSteady, OwnStays
<1>5. Own(t, n)'
  BY <1>2, <1>3, <1>4 DEF Own, Starts, Minds, Pings, Walks
<1>6. thread[t].pc # "wait" BY DEF Starts, Walks
<1>. QED BY <1>5, <1>6, Calm

\* A watcher goes on.
LEMMA MindCalm ==
    ASSUME SupervisorAssumption, IInv, NEW r \in Runtimes, NEW n \in Thread,
           thread' = [thread EXCEPT ![Watch(r)] = n],
           Minds(thread[Watch(r)]), Alike(n, thread[Watch(r)]),
           thread[Watch(r)].pc = "wait" => Exited(r) /\ ~health'[r].process,
           n.pc # "restart", n.pc = "snapshot" => n.pass < MaxPasses,
           RuntimeCalm, HealthCalm, BootCalm, runs' = runs,
           status' \in [Plugins -> State], hangs' \in 0 .. MaxHangs
    PROVE  IInv'
<1> DEFINE t == Watch(r)
<1>0. t \in Threads /\ Own(t, thread[t]) BY Names, EachDuty DEF IInv
<1>1. PICK m \in Thread : m = thread[t] BY <1>0, Types DEF IInv
<1>2. Minds(n) /\ Minds(m) BY <1>1 DEF Alike
<1>3. Exited(r) /\ runtime[r].proc # "unborn"
  BY <1>0, <1>1, <1>2 DEF Own, Exited
<1>4. ~Starts(n) /\ ~Starts(m) /\ n.pc # "startFailed" /\ n.pc # "off"
  BY <1>2 DEF Minds, Starts, Walks
<1>5. Exited(r)' /\ runtime'[r].proc # "unborn"
  BY <1>3 DEF RuntimeCalm, Exited
<1>6. Own(t, n)'
  <2>1. t # Boot /\ \A x \in Runtimes : t # Beat(x) /\ (t = Watch(x) => x = r) BY Names
  <2>. QED BY <1>2, <1>4, <1>5, <2>1 DEF Own
<1>7. thread[t].pc = "wait" => (\A x \in Runtimes : t = Watch(x) => ~health'[x].process)
  BY Names
<1>. QED BY <1>0, <1>6, <1>7, Calm

\* A heartbeat goes on or ends.
LEMMA BeatCalm ==
    ASSUME SupervisorAssumption, IInv, NEW r \in Runtimes, NEW n \in Thread,
           thread' = [thread EXCEPT ![Beat(r)] = n],
           Pings(thread[Beat(r)]), Pings(n) \/ n.pc = "done",
           n.pc = "snapshot" => n.pass < MaxPasses,
           RuntimeCalm, HealthCalm, BootCalm, runs' = runs,
           status' \in [Plugins -> State], hangs' \in 0 .. MaxHangs
    PROVE  IInv'
<1> DEFINE t == Beat(r)  m == thread[Beat(r)]
<1>1. ~Starts(n) /\ ~Minds(n) /\ n.pc # "startFailed" /\ n.pc # "off" /\ ~InRuns(n) /\ ~Entered(n)
  BY DEF Pings, Starts, Minds, Walks, InRuns, Entered
<1>2. ~Starts(m) /\ ~Minds(m) /\ m.pc # "startFailed" /\ m.pc # "off" /\ ~InRuns(m) /\ ~Entered(m) /\ m.pc # "wait"
  BY DEF Pings, Starts, Minds, Walks, InRuns, Entered
<1>3. Alike(n, thread[t]) BY <1>1, <1>2 DEF Alike
<1>4. t \in Threads BY Names
<1>5. Own(t, n)'
  <2>1. t # Boot /\ \A x \in Runtimes : t # Watch(x) BY Names
  <2>. QED BY <1>1, <2>1 DEF Own, Pings
<1>. QED BY <1>2, <1>3, <1>4, <1>5, Calm

\* A goroutine that walks stays in the walk.
LEMMA WalkCalm ==
    ASSUME SupervisorAssumption, IInv, NEW t \in Threads, NEW n \in Thread,
           thread' = [thread EXCEPT ![t] = n],
           Walks(thread[t]), Walks(n), n.then = thread[t].then,
           n.run = thread[t].run, n.plugin = thread[t].plugin,
           n.pc = "snapshot" => n.pass < MaxPasses,
           RuntimeCalm, HealthCalm, BootCalm, runs' = runs,
           status' \in [Plugins -> State], hangs' \in 0 .. MaxHangs
    PROVE  IInv'
<1>1. Alike(n, thread[t])
  BY DEF Alike, Walks, Starts, Minds, InRuns, Entered
<1>2. Own(t, thread[t]) BY EachDuty DEF IInv
<1>3. CASE t = Boot
  <2>1. Starts(thread[t]) BY <1>2, <1>3 DEF Own, Walks
  <2>. QED BY <1>1, <2>1, StartCalm
<1>4. CASE \E r \in Runtimes : t = Watch(r)
  <2>1. PICK r \in Runtimes : t = Watch(r) BY <1>4
  <2>2. Starts(thread[t]) \/ Minds(thread[t]) BY <1>2, <2>1 DEF Own, Walks
  <2>3. CASE Starts(thread[t]) BY <1>1, <2>3, StartCalm
  <2>4. CASE Minds(thread[t])
    <3>1. thread[t].pc # "wait" /\ n.pc # "restart" BY DEF Walks
    <3>. QED BY <1>1, <2>1, <2>4, <3>1, MindCalm
  <2>. QED BY <2>2, <2>3, <2>4
<1>5. CASE \E r \in Runtimes : t = Beat(r)
  <2>1. PICK r \in Runtimes : t = Beat(r) BY <1>5
  <2>2. Pings(thread[t]) BY <1>2, <2>1 DEF Own, Walks
  <2>3. Pings(n) BY <2>2 DEF Pings, Walks
  <2>. QED BY <2>1, <2>2, <2>3, BeatCalm
<1>. QED BY <1>3, <1>4, <1>5, Names

\* The registry's updates.
LEMMA Updates ==
    ASSUME TypeOK, NEW r, NEW h \in Health, health' = Update(r, h),
           r \in Runtimes => h.registered = health[r].registered /\ (h.process => health[r].process)
    PROVE  HealthCalm
<1>1. health' \in [Runtimes -> Health] BY Types DEF Update
<1>2. ASSUME NEW x \in Runtimes
      PROVE  health'[x].registered = health[x].registered /\ (health'[x].process => health[x].process)
  <2>1. CASE x = r BY <2>1, Types DEF Update
  <2>2. CASE x # r BY <2>2, Types DEF Update
  <2>. QED BY <2>1, <2>2
<1>. QED BY <1>1, <1>2 DEF HealthCalm

\* The steps of reconcileDependencies that leave the registry alone.
LEMMA Walking ==
    ASSUME SupervisorAssumption, IInv, NEW t \in Threads,
           Snapshot(t) \/ LookRequired(t) \/ LookOptional(t) \/ ReportDependencies(t)
    PROVE  IInv'
<1> DEFINE th == thread[t]
<1>0. TypeOK /\ th \in Thread BY Types DEF IInv
<1>1. CASE Snapshot(t)
  <2>1. th.pass + 1 \in 0 .. MaxPasses
    BY <1>0, <1>1, SupervisorAssumption DEF Snapshot, IInv, Duties, Thread
  <2>2. PICK n \in Thread : n = [th EXCEPT !.pc = "next", !.todo = runs, !.pass = th.pass + 1, !.changed = FALSE]
    BY <1>0, <2>1, Types DEF Thread, Pc
  <2>3. thread' = [thread EXCEPT ![t] = n] BY <1>1, <2>2 DEF Snapshot
  <2>4. Walks(n) /\ n.pc # "snapshot" /\ n.then = th.then /\ n.run = th.run /\ n.plugin = th.plugin
    BY <2>2, <1>0 DEF Walks, Thread
  <2>5. Walks(th) BY <1>1 DEF Snapshot, Walks
  <2>6. RuntimeCalm /\ HealthCalm /\ BootCalm /\ status' \in [Plugins -> State] /\ hangs' \in 0 .. MaxHangs /\ runs' = runs
    BY <1>0, <1>1, Still DEF Snapshot
  <2>. QED BY <2>3, <2>4, <2>5, <2>6, WalkCalm
<1>2. CASE LookRequired(t)
  <2>1. PICK r \in th.todo : thread' = [thread EXCEPT ![t] = [th EXCEPT
         !.pc = "mark", !.cur = r, !.todo = th.todo \ {r}, !.verdict = Verdict(r)]]
    BY <1>2 DEF LookRequired
  <2>2. Verdict(r) \in State BY DEF Verdict, State
  <2>3. r \in Runtimes BY <1>0 DEF Thread
  <2>4. PICK n \in Thread : n = [th EXCEPT
         !.pc = "mark", !.cur = r, !.todo = th.todo \ {r}, !.verdict = Verdict(r)]
    BY <1>0, <2>2, <2>3 DEF Thread, Pc
  <2>5. thread' = [thread EXCEPT ![t] = n] BY <2>1, <2>4
  <2>6. Walks(n) /\ n.pc # "snapshot" /\ n.then = th.then /\ n.run = th.run /\ n.plugin = th.plugin
    BY <2>4, <1>0 DEF Walks, Thread
  <2>7. Walks(th) BY <1>2 DEF LookRequired, Walks
  <2>8. RuntimeCalm /\ HealthCalm /\ BootCalm /\ status' \in [Plugins -> State] /\ hangs' \in 0 .. MaxHangs /\ runs' = runs
    BY <1>0, <1>2, Still DEF LookRequired
  <2>. QED BY <2>5, <2>6, <2>7, <2>8, WalkCalm
<1>3. CASE LookOptional(t)
  <2>1. PICK v \in State : thread' = [thread EXCEPT ![t] = [th EXCEPT !.pc = "report", !.verdict = v]]
    BY <1>3 DEF LookOptional, State
  <2>2. PICK n \in Thread : n = [th EXCEPT !.pc = "report", !.verdict = v]
    BY <1>0 DEF Thread, Pc
  <2>3. thread' = [thread EXCEPT ![t] = n] BY <2>1, <2>2
  <2>4. Walks(n) /\ n.pc # "snapshot" /\ n.then = th.then /\ n.run = th.run /\ n.plugin = th.plugin
    BY <2>2, <1>0 DEF Walks, Thread
  <2>5. Walks(th) BY <1>3 DEF LookOptional, Walks
  <2>6. RuntimeCalm /\ HealthCalm /\ BootCalm /\ status' \in [Plugins -> State] /\ hangs' \in 0 .. MaxHangs /\ runs' = runs
    BY <1>0, <1>3, Still DEF LookOptional
  <2>. QED BY <2>3, <2>4, <2>5, <2>6, WalkCalm
<1>4. CASE ReportDependencies(t)
  <2>1. "next" \in Pc /\ "READY" \in State BY DEF Pc, State
  <2>2. PICK n \in Thread : n = [th EXCEPT !.pc = "next", !.cur = None, !.verdict = "READY"]
    BY <1>0, <2>1 DEF Thread
  <2>3. thread' = [thread EXCEPT ![t] = n] BY <1>4, <2>2 DEF ReportDependencies
  <2>4. Walks(n) /\ n.pc # "snapshot" /\ n.then = th.then /\ n.run = th.run /\ n.plugin = th.plugin
    BY <2>2, <1>0 DEF Walks, Thread
  <2>5. Walks(th) BY <1>4 DEF ReportDependencies, Walks
  <2>6. status' \in [Plugins -> State]
    <3>1. th.verdict \in State BY <1>0 DEF Thread
    <3>. QED BY <3>1, <1>0, <1>4, Types DEF ReportDependencies, SetStatus
  <2>7. RuntimeCalm /\ HealthCalm /\ BootCalm /\ hangs' \in 0 .. MaxHangs /\ runs' = runs
    BY <1>0, <1>4, Still DEF ReportDependencies
  <2>. QED BY <2>3, <2>4, <2>5, <2>6, <2>7, WalkCalm
<1>. QED BY <1>1, <1>2, <1>3, <1>4

\* Setting the health of the dependencies.
LEMMA MarkIsCalm ==
    ASSUME TypeOK, NEW t \in Threads, MarkDependencies(t)
    PROVE  HealthCalm
<1> DEFINE th == thread[t]  r == th.cur  ok == th.verdict = "READY"
<1>1. CASE r \in Runtimes
  <2>1. health[r] \in Health BY <1>1, Types
  <2>2. ok \in BOOLEAN OBVIOUS
  <2>3. PICK h \in Health : h = [health[r] EXCEPT !.deps = ok] BY <2>1, <2>2 DEF Health
  <2>4. h.registered = health[r].registered /\ h.process = health[r].process BY <2>1, <2>3 DEF Health
  <2>5. health' = Update(r, h) BY <2>3 DEF MarkDependencies, MarkDependencyHealth
  <2>. QED BY <2>4, <2>5, Updates
<1>2. CASE r \notin Runtimes
  <2>1. health' = health
    BY <1>2, Types DEF MarkDependencies, MarkDependencyHealth, Update
  <2>. QED BY <2>1, Still
<1>. QED BY <1>1, <1>2

\* Marking a runtime dead.
LEMMA MarkDeadIsCalm ==
    ASSUME TypeOK, NEW r \in Runtimes, health' = MarkDead(r)
    PROVE  HealthCalm /\ (health[r].registered => ~health'[r].process)
<1>1. health[r] \in Health BY Types
<1>2. PICK h \in Health : h = [health[r] EXCEPT !.process = FALSE] BY <1>1 DEF Health
<1>3. h.registered = health[r].registered /\ ~h.process BY <1>1, <1>2 DEF Health
<1>4. health' = Update(r, h) BY <1>2 DEF MarkDead
<1>5. HealthCalm BY <1>3, <1>4, Updates
<1>6. health[r].registered => ~health'[r].process BY <1>3, <1>4, Types DEF Update
<1>. QED BY <1>5, <1>6

\* Recording the outcome of a ping.
LEMMA RecordIsCalm ==
    ASSUME SupervisorAssumption, TypeOK, NEW r \in Runtimes, RecordBeat(r)
    PROVE  HealthCalm
<1>1. health[r] \in Health BY Types
<1>2. PICK m \in 0 .. HeartbeatLimit : health' = Update(r, [health[r] EXCEPT !.missed = m])
  <2>1. CASE thread[Beat(r)].verdict = "READY"
    <3>1. 0 \in 0 .. HeartbeatLimit BY SupervisorAssumption
    <3>. QED BY <2>1, <3>1 DEF RecordBeat, RecordHeartbeatSuccess
  <2>2. CASE thread[Beat(r)].verdict # "READY"
    <3>1. PICK m \in 0 .. HeartbeatLimit :
            m = IF health[r].missed < HeartbeatLimit THEN health[r].missed + 1 ELSE health[r].missed
      BY <1>1, SupervisorAssumption DEF Health
    <3>2. health' = Update(r, [health[r] EXCEPT !.missed = m])
      BY <2>2, <3>1 DEF RecordBeat, RecordHeartbeatFailure
    <3>. QED BY <3>2
  <2>. QED BY <2>1, <2>2
<1>3. PICK h \in Health : h = [health[r] EXCEPT !.missed = m] BY <1>1 DEF Health
<1>4. h.registered = health[r].registered /\ h.process = health[r].process BY <1>1, <1>3 DEF Health
<1>5. health' = Update(r, h) BY <1>2, <1>3
<1>. QED BY <1>4, <1>5, Updates

\* The step that tells the registry the verdict on a runtime.
LEMMA Marking ==
    ASSUME SupervisorAssumption, IInv, NEW t \in Threads, MarkDependencies(t)
    PROVE  IInv'
<1> DEFINE th == thread[t]  r == th.cur  ok == th.verdict = "READY"
<1>0. TypeOK /\ th \in Thread BY Types DEF IInv
<1>1. PICK pc \in {"want", "report"}, changed \in BOOLEAN :
        thread' = [thread EXCEPT ![t] = [th EXCEPT !.pc = pc, !.changed = changed]]
  <2>1. PICK pc \in {"want", "report"} : pc = IF ok /\ Wants[runtime[r].plugin] # {} THEN "want" ELSE "report"
    OBVIOUS
  <2>2. PICK changed \in BOOLEAN : changed = (th.changed \/ (health[r].registered /\ health[r].deps # ok))
    OBVIOUS
  <2>. QED BY <2>1, <2>2 DEF MarkDependencies
<1>2. PICK n \in Thread : n = [th EXCEPT !.pc = pc, !.changed = changed]
  BY <1>0 DEF Thread, Pc
<1>3. thread' = [thread EXCEPT ![t] = n] BY <1>1, <1>2
<1>4. Walks(n) /\ n.pc # "snapshot" /\ n.then = th.then /\ n.run = th.run /\ n.plugin = th.plugin
  BY <1>2, <1>0 DEF Walks, Thread
<1>5. Walks(th) BY DEF MarkDependencies, Walks
<1>6. HealthCalm BY <1>0, MarkIsCalm
<1>7. RuntimeCalm /\ BootCalm /\ status' \in [Plugins -> State] /\ hangs' \in 0 .. MaxHangs /\ runs' = runs
  BY <1>0, Still DEF MarkDependencies
<1>. QED BY <1>3, <1>4, <1>5, <1>6, <1>7, WalkCalm

\* At the end of a pass a goroutine starts another or returns to what it had in hand.
LEMMA EndPassKeeps ==
    ASSUME SupervisorAssumption, IInv, NEW t \in Threads, EndPass(t)
    PROVE  IInv'
<1> DEFINE th == thread[t]
<1>0. TypeOK /\ th \in Thread BY Types DEF IInv
<1>1. Walks(th) BY DEF EndPass, Walks
<1>2. RuntimeCalm /\ HealthCalm /\ BootCalm /\ status' \in [Plugins -> State] /\ hangs' \in 0 .. MaxHangs /\ runs' = runs
  BY <1>0, Still DEF EndPass
<1>3. CASE MorePasses(th)
  <2>1. PICK n \in Thread : n = [th EXCEPT !.pc = "snapshot"] BY <1>0 DEF Thread, Pc
  <2>2. thread' = [thread EXCEPT ![t] = n] BY <1>3, <2>1 DEF EndPass
  <2>3. Walks(n) /\ n.pass < MaxPasses /\ n.then = th.then /\ n.run = th.run /\ n.plugin = th.plugin
    BY <2>1, <1>0, <1>3 DEF Walks, Thread, MorePasses
  <2>. QED BY <2>2, <2>3, <1>1, <1>2, WalkCalm
<1>4. CASE ~MorePasses(th)
  <2>1. th.then \in Pc /\ th.plugin \in Plugins \cup {None} /\ th.run \in Runtimes \cup {None}
    BY <1>0 DEF Thread
  <2>2. At(th.then) \in Thread /\ At(th.then).pc = th.then BY <2>1, AtTyped
  <2>3. PICK n \in Thread : n = [At(th.then) EXCEPT !.plugin = th.plugin, !.run = th.run]
    BY <2>1, <2>2 DEF Thread
  <2>4. thread' = [thread EXCEPT ![t] = n] BY <1>4, <2>3 DEF EndPass
  <2>5. n.pc = th.then /\ n.plugin = th.plugin /\ n.run = th.run
    BY <2>2, <2>3 DEF Thread
  <2>6. Own(t, thread[t]) BY EachDuty DEF IInv
  <2>7. CASE Starts(th)
    <3>1. th.then = "started" BY <1>1, <2>7 DEF Starts, Walks
    <3>2. Alike(n, th) /\ n.pc # "snapshot" BY <3>1, <1>1, <2>5 DEF Alike, Starts, Minds, InRuns, Entered, Walks
    <3>. QED BY <2>4, <2>7, <3>2, <1>2, StartCalm
  <2>8. CASE Minds(th) /\ ~Starts(th)
    <3>1. th.then = "prune" BY <1>1, <2>8 DEF Minds, Walks
    <3>2. Alike(n, th) /\ n.pc # "snapshot" /\ n.pc # "restart" /\ th.pc # "wait"
      BY <3>1, <1>1, <2>5 DEF Alike, Starts, Minds, InRuns, Entered, Walks
    <3>3. PICK r \in Runtimes : t = Watch(r)
      <4>1. t # Boot BY <2>6, <2>8, <1>1 DEF Own, Walks
      <4>2. \A r \in Runtimes : t # Beat(r)
        BY <2>6, <2>8, <1>1, <3>1 DEF Own, Walks, Pings
      <4>. QED BY <4>1, <4>2, Names
    <3>. QED BY <2>4, <2>8, <3>2, <3>3, <1>2, MindCalm
  <2>9. CASE ~Minds(th) /\ ~Starts(th)
    <3>1. PICK r \in Runtimes : t = Beat(r) BY <2>6, <2>9, <1>1, Names DEF Own, Walks
    <3>2. Pings(th) BY <2>6, <3>1, <1>1 DEF Own, Walks
    <3>3. Pings(n) /\ n.pc # "snapshot" BY <3>2, <2>5, <1>1 DEF Pings, Walks
    <3>. QED BY <2>4, <3>1, <3>2, <3>3, <1>2, BeatCalm
  <2>. QED BY <2>7, <2>8, <2>9
<1>. QED BY <1>3, <1>4

\* Going to another place keeps the rest of a goroutine's record.
LEMMA GotoRecord ==
    ASSUME TypeOK, NEW t \in Threads, NEW pc \in Pc, Goto(t, pc)
    PROVE  \E n \in Thread :
             /\ thread' = [thread EXCEPT ![t] = n]
             /\ n = [thread[t] EXCEPT !.pc = pc]
             /\ n.pc = pc /\ n.plugin = thread[t].plugin /\ n.run = thread[t].run
             /\ n.then = thread[t].then
<1>0. thread[t] \in Thread BY Types
<1>1. PICK n \in Thread : n = [thread[t] EXCEPT !.pc = pc] BY <1>0 DEF Thread
<1>2. n.pc = pc /\ n.plugin = thread[t].plugin /\ n.run = thread[t].run /\ n.then = thread[t].then
  BY <1>0, <1>1 DEF Thread
<1>3. thread' = [thread EXCEPT ![t] = n] BY <1>1 DEF Goto
<1>. QED BY <1>1, <1>2, <1>3

\* Entering reconcileDependencies keeps what is in hand and resets the passes.
LEMMA ReconcileRecord ==
    ASSUME TypeOK, NEW t \in Threads, NEW then \in Pc, Reconcile(t, then), SupervisorAssumption
    PROVE  \E n \in Thread :
             /\ thread' = [thread EXCEPT ![t] = n]
             /\ n.pc = "snapshot" /\ n.plugin = thread[t].plugin /\ n.run = thread[t].run
             /\ n.then = then /\ n.pass < MaxPasses
<1>0. thread[t] \in Thread BY Types
<1>1. 0 \in 0 .. MaxPasses /\ 0 < MaxPasses /\ "snapshot" \in Pc
  BY SupervisorAssumption DEF Pc
<1>2. PICK n \in Thread : n = [thread[t] EXCEPT !.pc = "snapshot", !.then = then, !.pass = 0]
  BY <1>0, <1>1 DEF Thread
<1>3. n.pc = "snapshot" /\ n.plugin = thread[t].plugin /\ n.run = thread[t].run /\ n.then = then /\ n.pass < MaxPasses
  BY <1>0, <1>1, <1>2 DEF Thread
<1>4. thread' = [thread EXCEPT ![t] = n] BY <1>2 DEF Reconcile
<1>. QED BY <1>3, <1>4

\* The handshake succeeds.
LEMMA HandshakeOkKeeps ==
    ASSUME SupervisorAssumption, IInv, NEW t \in Threads, HandshakeOk(t)
    PROVE  IInv'
<1>0. TypeOK /\ "enter" \in Pc BY DEF IInv, Pc
<1>1. PICK n \in Thread :
        /\ thread' = [thread EXCEPT ![t] = n]
        /\ n.pc = "enter" /\ n.plugin = thread[t].plugin /\ n.run = thread[t].run
  BY <1>0, GotoRecord DEF HandshakeOk
<1>2. Starts(thread[t]) /\ Alike(n, thread[t]) /\ n.pc # "snapshot"
  BY <1>1 DEF HandshakeOk, Alike, Starts, Minds, InRuns, Entered, Walks
<1>3. RuntimeCalm /\ HealthCalm /\ BootCalm /\ status' \in [Plugins -> State] /\ hangs' \in 0 .. MaxHangs /\ runs' = runs
  BY <1>0, Still DEF HandshakeOk
<1>. QED BY <1>1, <1>2, <1>3, StartCalm

\* The start is announced.
LEMMA ReportReadyKeeps ==
    ASSUME SupervisorAssumption, IInv, NEW t \in Threads, ReportReady(t)
    PROVE  IInv'
<1>0. TypeOK /\ "started" \in Pc /\ "READY" \in State BY DEF IInv, Pc, State
<1>1. PICK n \in Thread :
        /\ thread' = [thread EXCEPT ![t] = n]
        /\ n.pc = "snapshot" /\ n.plugin = thread[t].plugin /\ n.run = thread[t].run
        /\ n.then = "started" /\ n.pass < MaxPasses
  BY <1>0, ReconcileRecord DEF ReportReady
<1>2. Starts(thread[t]) /\ Alike(n, thread[t])
  BY <1>1 DEF ReportReady, Alike, Starts, Minds, InRuns, Entered, Walks
<1>3. status' \in [Plugins -> State]
  BY <1>0, Types DEF ReportReady, SetStatus
<1>4. RuntimeCalm /\ HealthCalm /\ BootCalm /\ hangs' \in 0 .. MaxHangs /\ runs' = runs
  BY <1>0, Still DEF ReportReady
<1>. QED BY <1>1, <1>2, <1>3, <1>4, StartCalm

\* The exit of a process is noticed.
LEMMA WaitReturnsKeeps ==
    ASSUME SupervisorAssumption, IInv, NEW r \in Runtimes, WaitReturns(r)
    PROVE  IInv'
<1>0. TypeOK /\ "drop" \in Pc /\ Watch(r) \in Threads BY Names DEF IInv, Pc
<1>1. PICK n \in Thread :
        /\ thread' = [thread EXCEPT ![Watch(r)] = n]
        /\ n.pc = "drop" /\ n.plugin = thread[Watch(r)].plugin /\ n.run = thread[Watch(r)].run
  BY <1>0, GotoRecord DEF WaitReturns
<1>2. Minds(thread[Watch(r)]) /\ Alike(n, thread[Watch(r)]) /\ n.pc # "restart" /\ n.pc # "snapshot"
  BY <1>1 DEF WaitReturns, Alike, Starts, Minds, InRuns, Entered, Walks
<1>6. HealthCalm /\ ~health'[r].process
  <2>1. HealthCalm /\ (health[r].registered => ~health'[r].process)
    BY <1>0, MarkDeadIsCalm DEF WaitReturns
  <2>. QED BY <2>1 DEF HealthCalm, IInv, Lists
<1>8. RuntimeCalm /\ BootCalm /\ status' \in [Plugins -> State] /\ hangs' \in 0 .. MaxHangs /\ runs' = runs /\ Exited(r)
  BY <1>0, Still DEF WaitReturns
<1>. QED BY <1>1, <1>2, <1>6, <1>8, MindCalm

\* The exit is announced.
LEMMA ReportFailedKeeps ==
    ASSUME SupervisorAssumption, IInv, NEW r \in Runtimes, ReportFailed(r)
    PROVE  IInv'
<1>0. TypeOK /\ "prune" \in Pc /\ "FAILED" \in State /\ Watch(r) \in Threads BY Names DEF IInv, Pc, State
<1>1. PICK n \in Thread :
        /\ thread' = [thread EXCEPT ![Watch(r)] = n]
        /\ n.pc = "snapshot" /\ n.plugin = thread[Watch(r)].plugin /\ n.run = thread[Watch(r)].run
        /\ n.then = "prune" /\ n.pass < MaxPasses
  BY <1>0, ReconcileRecord DEF ReportFailed
<1>2. Minds(thread[Watch(r)]) /\ Alike(n, thread[Watch(r)]) /\ thread[Watch(r)].pc # "wait"
  BY <1>1 DEF ReportFailed, Alike, Starts, Minds, InRuns, Entered, Walks
<1>3. status' \in [Plugins -> State]
  BY <1>0, Types DEF ReportFailed, SetStatus
<1>4. RuntimeCalm /\ HealthCalm /\ BootCalm /\ hangs' \in 0 .. MaxHangs /\ runs' = runs
  BY <1>0, Still DEF ReportFailed
<1>. QED BY <1>1, <1>2, <1>3, <1>4, MindCalm

\* A killed process is dying or has exited, and nothing else changes.
LEMMA KilledIsCalm ==
    ASSUME TypeOK, NEW r \in Runtimes, runtime' = Killed(r), runtime[r].proc # "unborn"
    PROVE  RuntimeCalm
<1>1. PICK s \in Proc : s = IF runtime[r].proc = "exited" THEN "exited" ELSE "dying"
  BY DEF Proc
<1>2. runtime' = [runtime EXCEPT ![r].proc = s] BY <1>1 DEF Killed
<1>3. runtime \in [Runtimes -> Process] BY Types
<1>4. runtime[r].proc \in Proc BY <1>3 DEF Process
<1>5. runtime' \in [Runtimes -> Process] BY <1>2, <1>3 DEF Process
<1>6. \A x \in Runtimes : x # r => runtime'[x] = runtime[x] BY <1>2, <1>3
<1>7. runtime'[r].plugin = runtime[r].plugin /\ runtime'[r].attempt = runtime[r].attempt /\ runtime'[r].proc = s
  BY <1>2, <1>3 DEF Process
<1>8. /\ s # "unborn" /\ (runtime[r].proc = "exited" => s = "exited")
      /\ s \in Alive => runtime[r].proc \in Alive
      /\ runtime[r].proc = "dying" => s \in {"dying", "exited"}
  BY <1>1, <1>4 DEF Alive, Proc
<1>9. ASSUME NEW x \in Runtimes
      PROVE  /\ runtime'[x].plugin = runtime[x].plugin /\ runtime'[x].attempt = runtime[x].attempt
             /\ runtime'[x].proc = "unborn" <=> runtime[x].proc = "unborn"
             /\ runtime[x].proc = "exited" => runtime'[x].proc = "exited"
             /\ runtime'[x].proc \in Alive => runtime[x].proc \in Alive
             /\ runtime[x].proc = "dying" => runtime'[x].proc \in {"dying", "exited"}
  <2>1. CASE x = r BY <2>1, <1>7, <1>8
  <2>2. CASE x # r BY <2>2, <1>6
  <2>. QED BY <2>1, <2>2
<1>. QED BY <1>5, <1>9 DEF RuntimeCalm

\* A process hangs, recovers or exits.
LEMMA SetProcIsCalm ==
    ASSUME TypeOK, NEW r \in Runtimes, NEW s \in Proc, SetProc(r, s),
           \/ runtime[r].proc \in Alive /\ s = "exited"
           \/ runtime[r].proc \in {"running", "hung"} /\ s \in Alive
    PROVE  RuntimeCalm
<1>2. runtime' = [runtime EXCEPT ![r].proc = s] BY DEF SetProc
<1>3. runtime \in [Runtimes -> Process] BY Types
<1>5. runtime' \in [Runtimes -> Process] BY <1>2, <1>3 DEF Process
<1>6. \A x \in Runtimes : x # r => runtime'[x] = runtime[x] BY <1>2, <1>3
<1>7. runtime'[r].plugin = runtime[r].plugin /\ runtime'[r].attempt = runtime[r].attempt /\ runtime'[r].proc = s
  BY <1>2, <1>3 DEF Process
<1>8. /\ s # "unborn" /\ runtime[r].proc # "unborn" /\ runtime[r].proc # "exited"
      /\ s \in Alive => runtime[r].proc \in Alive
      /\ runtime[r].proc = "dying" => s \in {"dying", "exited"}
  BY DEF Alive
<1>9. ASSUME NEW x \in Runtimes
      PROVE  /\ runtime'[x].plugin = runtime[x].plugin /\ runtime'[x].attempt = runtime[x].attempt
             /\ runtime'[x].proc = "unborn" <=> runtime[x].proc = "unborn"
             /\ runtime[x].proc = "exited" => runtime'[x].proc = "exited"
             /\ runtime'[x].proc \in Alive => runtime[x].proc \in Alive
             /\ runtime[x].proc = "dying" => runtime'[x].proc \in {"dying", "exited"}
  <2>1. CASE x = r BY <2>1, <1>7, <1>8
  <2>2. CASE x # r BY <2>2, <1>6
  <2>. QED BY <2>1, <2>2
<1>. QED BY <1>5, <1>9 DEF RuntimeCalm

\* No goroutine moves.
LEMMA NoneMoves ==
    ASSUME SupervisorAssumption, IInv, thread' = thread,
           RuntimeCalm, HealthCalm, BootCalm, runs' = runs,
           status' \in [Plugins -> State], hangs' \in 0 .. MaxHangs
    PROVE  IInv'
<1>1. Boot \in Threads BY Names
<1>2. PICK n \in Thread : n = thread[Boot] BY <1>1, Types DEF IInv
<1>3. thread' = [thread EXCEPT ![Boot] = n] BY <1>1, <1>2, Types DEF IInv
<1>4. Alike(n, thread[Boot]) BY <1>2 DEF Alike
<1>5. Own(Boot, n)'
  <2>1. Own(Boot, n) BY <1>1, <1>2, EachDuty DEF IInv, Own
  <2>2. Starts(n) => thread'[Watch(n.run)].pc = "off" BY <2>1 DEF Own
  <2>. QED BY <1>1, <2>1, <2>2, CalmIsSteady, OwnStays
<1>6. \A r \in Runtimes : Boot # Watch(r) BY Names
<1>. QED BY <1>1, <1>3, <1>4, <1>5, <1>6, Calm

\* The steps of the processes and of an operator who stops one.
LEMMA ProcessesKeep ==
    ASSUME SupervisorAssumption, IInv, NEW r \in Runtimes, Processes(r)
    PROVE  IInv'
<1>0. TypeOK BY DEF IInv
<1>1. CASE Exit(r)
  <2>1. RuntimeCalm BY <1>0, <1>1, SetProcIsCalm DEF Exit, Proc, Alive
  <2>2. thread' = thread /\ runs' = runs /\ HealthCalm /\ BootCalm /\ status' \in [Plugins -> State] /\ hangs' \in 0 .. MaxHangs
    BY <1>0, <1>1, Still DEF Exit
  <2>. QED BY <2>1, <2>2, NoneMoves
<1>2. CASE Stop(r)
  <2>1. RuntimeCalm BY <1>0, <1>2, KilledIsCalm DEF Stop
  <2>2. thread' = thread /\ runs' = runs /\ HealthCalm /\ BootCalm /\ status' \in [Plugins -> State] /\ hangs' \in 0 .. MaxHangs
    BY <1>0, <1>2, Still DEF Stop
  <2>. QED BY <2>1, <2>2, NoneMoves
<1>3. CASE Hang(r)
  <2>1. RuntimeCalm BY <1>0, <1>3, SetProcIsCalm DEF Hang, Proc, Alive
  <2>2. thread' = thread /\ runs' = runs /\ HealthCalm /\ BootCalm /\ status' \in [Plugins -> State]
    BY <1>0, <1>3, Still DEF Hang
  <2>3. hangs' \in 0 .. MaxHangs BY <1>0, <1>3, SupervisorAssumption, Types DEF Hang
  <2>. QED BY <2>1, <2>2, <2>3, NoneMoves
<1>4. CASE Unhang(r)
  <2>1. RuntimeCalm BY <1>0, <1>4, SetProcIsCalm DEF Unhang, Proc, Alive
  <2>2. thread' = thread /\ runs' = runs /\ HealthCalm /\ BootCalm /\ status' \in [Plugins -> State] /\ hangs' \in 0 .. MaxHangs
    BY <1>0, <1>4, Still DEF Unhang
  <2>. QED BY <2>1, <2>2, NoneMoves
<1>. QED BY <1>1, <1>2, <1>3, <1>4 DEF Processes

\* The steps of a heartbeat.
LEMMA BeatingKeeps ==
    ASSUME SupervisorAssumption, IInv, NEW r \in Runtimes, Beating(r) \/ BeatKills(r)
    PROVE  IInv'
<1>0. TypeOK /\ Beat(r) \in Threads BY Names DEF IInv
<1>1. CASE BeatEnds(r)
  <2>1. PICK n \in Thread : thread' = [thread EXCEPT ![Beat(r)] = n] /\ n.pc = "done"
    BY <1>0, <1>1, GotoRecord DEF BeatEnds, Pc
  <2>2. Pings(thread[Beat(r)]) BY <1>1 DEF BeatEnds, Pings
  <2>3. RuntimeCalm /\ HealthCalm /\ BootCalm /\ status' \in [Plugins -> State] /\ hangs' \in 0 .. MaxHangs /\ runs' = runs
    BY <1>0, <1>1, Still DEF BeatEnds
  <2>. QED BY <2>1, <2>2, <2>3, BeatCalm
<1>2. CASE BeatKills(r)
  <2>1. PICK n \in Thread : thread' = [thread EXCEPT ![Beat(r)] = n] /\ n.pc = "done"
    BY <1>0, <1>2, GotoRecord DEF BeatKills, Pc
  <2>2. Pings(thread[Beat(r)]) BY <1>2 DEF BeatKills, Pings
  <2>3. BootCalm /\ status' \in [Plugins -> State] /\ hangs' \in 0 .. MaxHangs /\ runs' = runs
    BY <1>0, <1>2, Still DEF BeatKills
  <2>7. HealthCalm BY <1>0, <1>2, MarkDeadIsCalm DEF BeatKills
  <2>8. runtime[r].proc # "unborn"
    <3>1. PICK t \in Threads : Tends(t, r) BY <1>2 DEF BeatKills, IInv, Lists
    <3>2. Own(t, thread[t]) BY EachDuty DEF IInv
    <3>. QED BY <3>1, <3>2 DEF Tends, Own, Minds, Walks
  <2>9. RuntimeCalm BY <1>0, <1>2, <2>8, KilledIsCalm DEF BeatKills
  <2>. QED BY <2>1, <2>2, <2>3, <2>7, <2>9, BeatCalm
<1>3. CASE Ping(r)
  <2>1. PICK v \in State : thread' = [thread EXCEPT ![Beat(r)] = [thread[Beat(r)] EXCEPT !.pc = "record", !.verdict = v]]
    BY <1>3 DEF Ping, State
  <2>2. thread[Beat(r)] \in Thread BY <1>0, Types
  <2>3. PICK n \in Thread : n = [thread[Beat(r)] EXCEPT !.pc = "record", !.verdict = v]
    BY <2>2 DEF Thread, Pc
  <2>4. n.pc = "record" BY <2>2, <2>3 DEF Thread
  <2>5. thread' = [thread EXCEPT ![Beat(r)] = n] BY <2>1, <2>3
  <2>6. Pings(thread[Beat(r)]) /\ Pings(n) BY <1>3, <2>4 DEF Ping, Pings
  <2>7. RuntimeCalm /\ HealthCalm /\ BootCalm /\ status' \in [Plugins -> State] /\ hangs' \in 0 .. MaxHangs /\ runs' = runs
    BY <1>0, <1>3, Still DEF Ping
  <2>. QED BY <2>4, <2>5, <2>6, <2>7, BeatCalm
<1>4. CASE RecordBeat(r)
  <2>1. At("snapshot") \in Thread /\ At("snapshot").pc = "snapshot" BY AtTyped DEF Pc
  <2>2. PICK n \in Thread : n = [At("snapshot") EXCEPT !.then = "tick"] BY <2>1 DEF Thread, Pc
  <2>3. n.pc = "snapshot" /\ n.then = "tick" /\ n.pass < MaxPasses
    BY <2>2, SupervisorAssumption DEF At
  <2>4. thread' = [thread EXCEPT ![Beat(r)] = n] BY <1>4, <2>2 DEF RecordBeat, AfterRecord
  <2>5. Pings(thread[Beat(r)]) /\ Pings(n) BY <1>4, <2>3 DEF RecordBeat, Pings, Walks
  <2>6. HealthCalm BY <1>0, <1>4, RecordIsCalm
  <2>7. RuntimeCalm /\ BootCalm /\ status' \in [Plugins -> State] /\ hangs' \in 0 .. MaxHangs /\ runs' = runs
    BY <1>0, <1>4, Still DEF RecordBeat
  <2>. QED BY <2>3, <2>4, <2>5, <2>6, <2>7, BeatCalm
<1>. QED BY <1>1, <1>2, <1>3, <1>4 DEF Beating

\* The boot loop skips a plugin, begins a round or ends.
LEMMA RoundsKeep ==
    ASSUME SupervisorAssumption, IInv, NextRound \/ (\E p \in Plugins : BootSkips(p))
    PROVE  IInv'
<1>0. TypeOK /\ Boot \in Threads BY Names DEF IInv
<1>1. CASE \E p \in Plugins : BootSkips(p)
  <2>1. PICK p \in Plugins : BootSkips(p) BY <1>1
  <2>2. BootCalm BY <1>0, <2>1, Types DEF BootSkips, BootCalm, BootState
  <2>3. thread' = thread /\ runs' = runs /\ HealthCalm /\ RuntimeCalm /\ status' \in [Plugins -> State] /\ hangs' \in 0 .. MaxHangs
    BY <1>0, <2>1, Still DEF BootSkips
  <2>. QED BY <2>2, <2>3, NoneMoves
<1>2. CASE NextRound
  <2>1. BootCalm BY <1>0, <1>2, Types DEF NextRound, BootCalm, BootState
  <2>2. runs' = runs /\ HealthCalm /\ RuntimeCalm /\ hangs' \in 0 .. MaxHangs
    BY <1>0, <1>2, Still DEF NextRound
  <2>3. CASE boot.progress /\ boot.next # {}
    <3>1. thread' = thread /\ status' \in [Plugins -> State]
      BY <1>0, <1>2, <2>3, Types DEF NextRound
    <3>. QED BY <2>1, <2>2, <3>1, NoneMoves
  <2>4. CASE ~(boot.progress /\ boot.next # {})
    <3>1. status' \in [Plugins -> State]
      <4>1. status' = [p \in Plugins |-> IF p \in boot.next THEN "BLOCKED" ELSE status[p]]
        BY <1>2, <2>4 DEF NextRound
      <4>2. "BLOCKED" \in State BY DEF State
      <4>. QED BY <4>1, <4>2, <1>0, Types
    <3>2. PICK n \in Thread : thread' = [thread EXCEPT ![Boot] = n] /\ n.pc = "done"
      BY <1>0, <1>2, <2>4, GotoRecord DEF NextRound, Pc
    <3>3. thread[Boot].pc = "loop" BY <1>2 DEF NextRound
    <3>4. Alike(n, thread[Boot])
      BY <3>2, <3>3 DEF Alike, Starts, Minds, InRuns, Entered, Walks
    <3>5. Own(Boot, n)'
      <4>1. \A r \in Runtimes : Boot # Watch(r) /\ Boot # Beat(r) BY Names
      <4>. QED BY <3>2, <4>1 DEF Own, Starts, Walks
    <3>. QED BY <1>0, <2>1, <2>2, <3>1, <3>2, <3>3, <3>4, <3>5, Calm
  <2>. QED BY <2>3, <2>4
<1>. QED BY <1>1, <1>2

\* A runtime that a goroutine has in hand was started and belongs to a plugin.
LEMMA TendedIsBorn ==
    ASSUME IInv, NEW t \in Threads, NEW r \in Runtimes, Tends(t, r)
    PROVE  runtime[r].proc # "unborn" /\ runtime[r].plugin \in Plugins /\ Holds(t, runtime[r].plugin)
<1>1. Own(t, thread[t]) BY EachDuty DEF IInv
<1>2. runtime[r].proc # "unborn"
  BY <1>1 DEF Tends, Own, Minds, Walks
<1>3. runtime[r].plugin \in Plugins BY <1>2 DEF IInv, Births
<1>. QED BY <1>2, <1>3 DEF Holds

\* No two goroutines have one runtime in hand.
LEMMA Sole ==
    ASSUME IInv, NEW t \in Threads, NEW u \in Threads, NEW r \in Runtimes, Tends(t, r), Tends(u, r)
    PROVE  t = u
<1>1. PICK p \in Plugins : p = runtime[r].plugin BY TendedIsBorn
<1>2. Holds(t, p) /\ Holds(u, p) BY <1>1, TendedIsBorn
<1>. QED BY <1>2 DEF IInv, InHand

\* A goroutine that starts a runtime tends no other.
LEMMA StarterTends ==
    ASSUME IInv, NEW t \in Threads, Starts(thread[t])
    PROVE  /\ thread[t].run \in Runtimes /\ Tends(t, thread[t].run)
           /\ \A r \in Runtimes : Tends(t, r) => r = thread[t].run
           /\ thread[t].plugin = runtime[thread[t].run].plugin
           /\ thread[Watch(thread[t].run)].pc = "off" /\ thread[t].pc # "off"
           /\ thread[t].pc # "wait"
           /\ \A r \in Runtimes : t # Beat(r)
<1>1. Own(t, thread[t]) BY EachDuty DEF IInv
<1>2. ~Minds(thread[t]) /\ thread[t].pc # "off" /\ thread[t].pc # "wait" /\ ~Pings(thread[t]) /\ thread[t].pc # "done"
  BY DEF Starts, Minds, Pings, Walks
<1>. QED BY <1>1, <1>2 DEF Own, Tends

\* A watcher that minds its runtime tends no other.
LEMMA MinderTends ==
    ASSUME IInv, NEW r \in Runtimes, Minds(thread[Watch(r)])
    PROVE  /\ Watch(r) \in Threads /\ Tends(Watch(r), r)
           /\ \A x \in Runtimes : Tends(Watch(r), x) => x = r
           /\ thread[Watch(r)].pc # "wait" => Exited(r)
           /\ thread[Watch(r)].pc # "off"
<1>1. Watch(r) \in Threads BY Names
<1>2. ~Starts(thread[Watch(r)]) /\ thread[Watch(r)].pc # "off" BY DEF Starts, Minds, Walks
<1>3. Own(Watch(r), thread[Watch(r)]) BY <1>1, EachDuty DEF IInv
<1>. QED BY <1>1, <1>2, <1>3, Names DEF Own, Tends

\* A goroutine lets go of what it has in hand, or of all but a failed start.
LEMMA LetsGo ==
    ASSUME SupervisorAssumption, IInv, TypeOK', RuntimeCalm, BootCalm,
           NEW t \in Threads, NEW n \in Thread, thread' = [thread EXCEPT ![t] = n],
           ~Starts(n), ~Minds(n),
           n.pc = "startFailed" => Holds(t, n.plugin),
           \A r \in Runtimes : Tends(t, r) =>
             \/ runtime'[r].proc = "exited"
             \/ runtime'[r].proc = "dying" /\ n.pc = "startFailed"
    PROVE  /\ Births' /\ InHand' /\ OneProcess'
           /\ \A u \in Threads, r \in Runtimes : Tends(u, r)' <=> Tends(u, r) /\ u # t
<1>0. TypeOK BY DEF IInv
<1>1. TypeOK' OBVIOUS
<1>2. \A u \in Threads : thread'[u] = IF u = t THEN n ELSE thread[u] BY <1>0, Types
<1>3. \A u \in Threads, r \in Runtimes : Tends(u, r)' <=> Tends(u, r) /\ u # t
  BY <1>2 DEF Tends
<1>4. \A u \in Threads, p \in Plugins : Holds(u, p)' => Holds(u, p)
  BY <1>2, <1>3 DEF Holds, RuntimeCalm
<1>5. \A p \in Plugins : Holds(t, p)' => n.pc = "startFailed"
  BY <1>2, <1>3 DEF Holds
<1>8. InHand'
  <2>1. InHand BY DEF IInv
  <2>2. \A u \in Threads, p \in Plugins :
       Holds(u, p)' => \A v \in Threads : Holds(v, p)' => v = u
    BY <2>1, <1>4 DEF InHand
  <2>3. \A p \in boot'.left \cup boot'.next :
       /\ p \in Plugins
       /\ \A u \in Threads : ~Holds(u, p)'
       /\ \A r \in Runtimes : runtime'[r].plugin # p
    <3>1. \A p \in boot'.left \cup boot'.next : p \in Plugins /\ p \in boot.left \cup boot.next
      BY <1>1, Types DEF BootCalm, BootState
    <3>. QED BY <3>1, <2>1, <1>4 DEF InHand, RuntimeCalm
  <2>4. ASSUME NEW r \in Runtimes, runtime'[r].proc \in Alive
        PROVE  \/ \E u \in Threads : Tends(u, r)'
               \/ /\ runtime'[r].proc = "dying"
                  /\ \A u \in Threads : Holds(u, runtime[r].plugin)' => thread'[u].pc = "startFailed"
    <3>1. runtime[r].proc \in Alive /\ runtime'[r].plugin = runtime[r].plugin
      BY <2>4 DEF RuntimeCalm
    <3>2. runtime[r].plugin \in Plugins
      BY <3>1 DEF IInv, Births, Alive
    <3>3. PICK p \in Plugins : p = runtime[r].plugin BY <3>2
    <3>4. \A u \in Threads : Holds(u, runtime[r].plugin)' => Holds(u, p)'
      BY <3>1, <3>3 DEF Holds
    <3>5. CASE Tends(t, r)
      <4>1. runtime'[r].proc = "dying" /\ n.pc = "startFailed" BY <3>5, <2>4 DEF Alive
      <4>2. Holds(t, p) BY <3>3, <3>5, TendedIsBorn
      <4>3. \A u \in Threads : Holds(u, p)' => u = t
        BY <4>2, <2>1, <1>4 DEF InHand
      <4>. QED BY <4>1, <4>3, <3>4, <1>2
    <3>6. CASE ~Tends(t, r) /\ \E u \in Threads : Tends(u, r) BY <3>6, <1>3
    <3>7. CASE /\ runtime[r].proc = "dying"
               /\ \A u \in Threads : Holds(u, runtime[r].plugin) => thread[u].pc = "startFailed"
      <4>1. runtime'[r].proc = "dying" BY <3>7, <2>4 DEF RuntimeCalm, Alive
      <4>2. ASSUME NEW u \in Threads, Holds(u, p)' PROVE thread'[u].pc = "startFailed"
        <5>1. CASE u = t BY <5>1, <4>2, <1>2, <1>5
        <5>2. CASE u # t BY <5>2, <4>2, <3>3, <3>7, <1>2, <1>4
        <5>. QED BY <5>1, <5>2
      <4>. QED BY <4>1, <4>2, <3>4
    <3>. QED BY <2>1, <3>1, <3>5, <3>6, <3>7 DEF InHand
  <2>5. boot'.left \cap boot'.next = {} BY <2>1 DEF InHand, BootCalm
  <2>. QED BY <2>2, <2>3, <2>4, <2>5 DEF InHand
<1>. QED BY <1>3, <1>8, BirthsKept

\* The lists after a step that moves one goroutine.
LEMMA ListsMove ==
    ASSUME IInv, NEW t \in Threads, NEW n \in Thread, thread' = [thread EXCEPT ![t] = n],
           \A u \in Threads, r \in Runtimes : u # t => (Tends(u, r)' <=> Tends(u, r)),
           \A r \in Runtimes :
             /\ r \in runs' <=> \/ r \in runs /\ ~(Tends(t, r) /\ InRuns(thread[t]))
                                \/ Tends(t, r)' /\ InRuns(n)
             /\ health'[r].registered <=>
                  \/ health[r].registered /\ ~(Tends(t, r) /\ Entered(thread[t]))
                  \/ Tends(t, r)' /\ Entered(n)
             /\ health'[r].process => /\ health'[r].registered
                                      /\ health[r].process \/ (thread[Watch(r)].pc = "off" /\ Watch(r) # t)
                                      /\ Watch(r) = t => n.pc \in {"off", "wait"}
    PROVE  Lists'
<1>1. \A u \in Threads : thread'[u] = IF u = t THEN n ELSE thread[u] BY Types DEF IInv
<1>2. Lists BY DEF IInv
<1>3. ASSUME NEW r \in Runtimes
      PROVE  /\ r \in runs' <=> \E u \in Threads : Tends(u, r)' /\ InRuns(thread'[u])
             /\ health'[r].registered <=> \E u \in Threads : Tends(u, r)' /\ Entered(thread'[u])
             /\ health'[r].process => health'[r].registered /\ thread'[Watch(r)].pc \in {"off", "wait"}
  <2>1. r \in runs /\ ~(Tends(t, r) /\ InRuns(thread[t])) <=> \E u \in Threads : u # t /\ Tends(u, r) /\ InRuns(thread[u])
    BY <1>2, Sole DEF Lists
  <2>2. r \in runs' <=> \E u \in Threads : Tends(u, r)' /\ InRuns(thread'[u])
    BY <2>1, <1>1
  <2>3. health[r].registered /\ ~(Tends(t, r) /\ Entered(thread[t])) <=> \E u \in Threads : u # t /\ Tends(u, r) /\ Entered(thread[u])
    BY <1>2, Sole DEF Lists
  <2>4. health'[r].registered <=> \E u \in Threads : Tends(u, r)' /\ Entered(thread'[u])
    BY <2>3, <1>1
  <2>5. health'[r].process => health'[r].registered /\ thread'[Watch(r)].pc \in {"off", "wait"}
    BY <1>1, <1>2, Names DEF Lists
  <2>. QED BY <2>2, <2>4, <2>5
<1>. QED BY <1>3 DEF Lists

\* The handshake fails: the process is killed and nobody waits for it.
LEMMA HandshakeFailsKeeps ==
    ASSUME SupervisorAssumption, IInv, NEW t \in Threads, HandshakeFails(t)
    PROVE  IInv'
<1>0. TypeOK /\ "startFailed" \in Pc BY DEF IInv, Pc
<1>1. Starts(thread[t]) BY DEF HandshakeFails, Starts
<1>2. PICK r \in Runtimes :
        /\ r = thread[t].run /\ Tends(t, r) /\ thread[t].plugin = runtime[r].plugin
        /\ \A x \in Runtimes : Tends(t, x) => x = r
        /\ thread[t].pc # "off" /\ \A x \in Runtimes : t # Beat(x)
  BY <1>1, StarterTends
<1>3. runtime[r].proc # "unborn" /\ runtime[r].plugin \in Plugins /\ Holds(t, runtime[r].plugin)
  BY <1>2, TendedIsBorn
<1>4. PICK n \in Thread :
        /\ thread' = [thread EXCEPT ![t] = n]
        /\ n.pc = "startFailed" /\ n.plugin = thread[t].plugin /\ n.run = thread[t].run
  BY <1>0, GotoRecord DEF HandshakeFails
<1>5. ~Starts(n) /\ ~Minds(n) /\ ~InRuns(n) /\ ~Entered(n) /\ ~InRuns(thread[t]) /\ ~Entered(thread[t])
  BY <1>4 DEF HandshakeFails, Starts, Minds, InRuns, Entered, Walks
<1>6. runtime' = Killed(r) BY <1>2 DEF HandshakeFails
<1>7. RuntimeCalm BY <1>0, <1>3, <1>6, KilledIsCalm
<1>8. health' = health /\ HealthCalm /\ BootCalm /\ status' \in [Plugins -> State] /\ hangs' \in 0 .. MaxHangs /\ runs' = runs
  BY <1>0, Still DEF HandshakeFails
<1>9. TypeOK' BY <1>0, <1>4, <1>7, <1>8, Types DEF RuntimeCalm, HealthCalm, BootCalm, TypeOK, Thread, Process, Health, BootState
<1>10. runtime'[r].proc \in {"exited", "dying"}
  BY <1>0, <1>6, Types DEF Killed, Process
<1>11. /\ Births' /\ InHand' /\ OneProcess'
       /\ \A u \in Threads, x \in Runtimes : Tends(u, x)' <=> Tends(u, x) /\ u # t
  <2>1. Holds(t, n.plugin) BY <1>2, <1>3, <1>4
  <2>2. \A x \in Runtimes : Tends(t, x) =>
             \/ runtime'[x].proc = "exited"
             \/ runtime'[x].proc = "dying" /\ n.pc = "startFailed"
    BY <1>2, <1>4, <1>10
  <2>. QED BY <2>1, <2>2, <1>4, <1>5, <1>7, <1>8, <1>9, LetsGo
<1>12. Duties'
  <2>1. Own(t, thread[t]) BY EachDuty DEF IInv
  <2>2. Own(t, n)'
    BY <2>1, <1>2, <1>3, <1>4, <1>5, <1>7 DEF Own, RuntimeCalm
  <2>. QED BY <2>2, <1>2, <1>4, <1>7, CalmIsSteady, DutiesMove
<1>13. Lists'
  <2>1. \A x \in Runtimes : health[x].process => thread[Watch(x)].pc \in {"off", "wait"} /\ health[x].registered
    BY DEF IInv, Lists
  <2>2. \A x \in Runtimes : Watch(x) = t => ~health[x].process
    BY <2>1 DEF HandshakeFails
  <2>. QED BY <2>1, <2>2, <1>4, <1>5, <1>8, <1>11, ListsMove
<1>. QED BY <1>9, <1>11, <1>12, <1>13 DEF IInv

\* A failed start is reported and given up.
LEMMA StartFailedKeeps ==
    ASSUME SupervisorAssumption, IInv, NEW t \in Threads, StartFailed(t)
    PROVE  IInv'
<1>0. TypeOK BY DEF IInv
<1>1. PICK n \in Thread :
        thread' = [thread EXCEPT ![t] = n] /\ n.pc = IF t = Boot THEN "loop" ELSE "done"
  BY AtTyped DEF StartFailed, AfterStart, Pc
<1>2. thread[t].pc = "startFailed" BY DEF StartFailed
<1>3. ~Starts(thread[t]) /\ ~Minds(thread[t]) /\ ~Starts(n) /\ ~Minds(n) /\ n.pc # "startFailed"
  BY <1>1, <1>2 DEF Starts, Minds, Walks
<1>4. \A x \in Runtimes : ~Tends(t, x) BY <1>3 DEF Tends
<1>5. RuntimeCalm /\ health' = health /\ HealthCalm /\ BootCalm /\ hangs' \in 0 .. MaxHangs /\ runs' = runs
  BY <1>0, Still DEF StartFailed
<1>6. status' \in [Plugins -> State]
  <2>1. "FAILED" \in State BY DEF State
  <2>. QED BY <2>1, <1>0, Types DEF StartFailed, FailedStart
<1>7. TypeOK' BY <1>0, <1>1, <1>5, <1>6, Types DEF RuntimeCalm, HealthCalm, BootCalm, TypeOK, Thread, Process, Health, BootState
<1>8. /\ Births' /\ InHand' /\ OneProcess'
      /\ \A u \in Threads, x \in Runtimes : Tends(u, x)' <=> Tends(u, x) /\ u # t
  BY <1>1, <1>3, <1>4, <1>5, <1>7, LetsGo
<1>9. Duties'
  <2>1. Own(t, thread[t]) BY EachDuty DEF IInv
  <2>2. Own(t, n)'
    BY <2>1, <1>1, <1>2, <1>3, <1>5, Names DEF Own, RuntimeCalm, Pings, Walks
  <2>. QED BY <2>2, <1>1, <1>2, <1>5, CalmIsSteady, DutiesMove
<1>10. Lists'
  <2>1. \A x \in Runtimes : health[x].process => thread[Watch(x)].pc \in {"off", "wait"} /\ health[x].registered
    BY DEF IInv, Lists
  <2>2. \A x \in Runtimes : Watch(x) = t => ~health[x].process
    BY <2>1, <1>2
  <2>. QED BY <2>1, <2>2, <1>1, <1>4, <1>5, <1>8, ListsMove
<1>. QED BY <1>7, <1>8, <1>9, <1>10 DEF IInv

\* A starting goroutine goes on and enters its runtime in a list.
LEMMA Enters ==
    ASSUME SupervisorAssumption, IInv, NEW t \in Threads, NEW n \in Thread, thread' = [thread EXCEPT ![t] = n],
           Starts(thread[t]), Starts(n), n.run = thread[t].run, n.plugin = thread[t].plugin,
           n.pc # "snapshot", runtime' = runtime, boot' = boot, status' = status, hangs' = hangs,
           runs' \subseteq Runtimes, health' \in [Runtimes -> Health], Lists'
    PROVE  IInv'
<1>0. TypeOK BY DEF IInv
<1>1. RuntimeCalm /\ BootCalm /\ Steady BY <1>0, Still, CalmIsSteady
<1>2. TypeOK' BY <1>0, Types DEF TypeOK, Thread, Process, Health, BootState
<1>3. \A u \in Threads : thread'[u] = IF u = t THEN n ELSE thread[u] BY <1>0, Types
<1>4. ~Minds(n) /\ ~Minds(thread[t]) /\ n.pc # "startFailed" /\ thread[t].pc # "startFailed"
  BY DEF Starts, Minds, Walks
<1>5. \A u \in Threads, r \in Runtimes : Tends(u, r)' <=> Tends(u, r) BY <1>3, <1>4 DEF Tends
<1>6. Births' /\ InHand' /\ OneProcess' BY <1>1, <1>2, <1>3, <1>4, <1>5, RolesKeep
<1>7. Duties'
  <2>1. /\ n.run \in Runtimes /\ thread[Watch(n.run)].pc = "off" /\ thread[t].pc # "off"
        /\ \A r \in Runtimes : t # Beat(r)
    BY StarterTends
  <2>2. thread'[Watch(n.run)].pc = "off" BY <2>1, <1>3, Names
  <2>3. Own(t, thread[t]) BY EachDuty DEF IInv
  <2>4. Own(t, n)' BY <2>1, <2>2, <2>3, <1>4 DEF Own, Starts, Walks
  <2>. QED BY <2>1, <2>4, <1>1, DutiesMove
<1>. QED BY <1>2, <1>6, <1>7 DEF IInv

\* The runtime is entered in the supervisor's list.
LEMMA EnterRunsKeeps ==
    ASSUME SupervisorAssumption, IInv, NEW t \in Threads, EnterRuns(t)
    PROVE  IInv'
<1>0. TypeOK /\ "register" \in Pc BY DEF IInv, Pc
<1>1. Starts(thread[t]) BY DEF EnterRuns, Starts
<1>2. PICK r \in Runtimes : r = thread[t].run /\ Tends(t, r) /\ \A x \in Runtimes : Tends(t, x) => x = r
  BY <1>1, StarterTends
<1>3. PICK n \in Thread :
        /\ thread' = [thread EXCEPT ![t] = n]
        /\ n.pc = "register" /\ n.plugin = thread[t].plugin /\ n.run = thread[t].run
  BY <1>0, GotoRecord DEF EnterRuns
<1>4. Starts(n) /\ InRuns(n) /\ ~Entered(n) /\ ~InRuns(thread[t]) /\ ~Entered(thread[t]) /\ ~Minds(n)
  BY <1>3 DEF EnterRuns, Starts, Minds, InRuns, Entered, Walks
<1>5. runs' = runs \cup {r} BY <1>2 DEF EnterRuns
<1>6. Lists'
  <2>1. \A x \in Runtimes : health[x].process => thread[Watch(x)].pc \in {"off", "wait"} /\ health[x].registered
    BY DEF IInv, Lists
  <2>2. \A x \in Runtimes : Watch(x) = t => ~health[x].process BY <2>1 DEF EnterRuns
  <2>3. \A u \in Threads : thread'[u] = IF u = t THEN n ELSE thread[u] BY <1>0, <1>3, Types
  <2>4. \A u \in Threads, x \in Runtimes : u # t => (Tends(u, x)' <=> Tends(u, x)) BY <2>3 DEF Tends
  <2>5. \A x \in Runtimes : Tends(t, x)' <=> x = r BY <2>3, <1>2, <1>3, <1>4 DEF Tends
  <2>6. health' = health BY DEF EnterRuns
  <2>. QED BY <2>1, <2>2, <2>4, <2>5, <2>6, <1>3, <1>4, <1>5, ListsMove
<1>7. runtime' = runtime /\ boot' = boot /\ status' = status /\ hangs' = hangs /\ health' = health
  BY DEF EnterRuns
<1>8. runs' \subseteq Runtimes /\ health' \in [Runtimes -> Health] BY <1>0, <1>5, <1>7, Types
<1>. QED BY <1>1, <1>3, <1>4, <1>6, <1>7, <1>8, Enters

\* The runtime is registered.
LEMMA RegisterRuntimeKeeps ==
    ASSUME SupervisorAssumption, IInv, NEW t \in Threads, RegisterRuntime(t)
    PROVE  IInv'
<1>0. TypeOK /\ "ready" \in Pc BY DEF IInv, Pc
<1>1. Starts(thread[t]) BY DEF RegisterRuntime, Starts
<1>2. PICK r \in Runtimes :
        /\ r = thread[t].run /\ Tends(t, r) /\ \A x \in Runtimes : Tends(t, x) => x = r
        /\ thread[Watch(r)].pc = "off"
  BY <1>1, StarterTends
<1>3. PICK n \in Thread :
        /\ thread' = [thread EXCEPT ![t] = n]
        /\ n.pc = "ready" /\ n.plugin = thread[t].plugin /\ n.run = thread[t].run
  BY <1>0, GotoRecord DEF RegisterRuntime
<1>4. Starts(n) /\ InRuns(n) /\ Entered(n) /\ InRuns(thread[t]) /\ ~Entered(thread[t]) /\ ~Minds(n)
  BY <1>3 DEF RegisterRuntime, Starts, Minds, InRuns, Entered, Walks
<1>5. health' = [health EXCEPT ![r] = Registered] BY <1>2 DEF RegisterRuntime
<1>6. /\ health'[r].registered /\ \A x \in Runtimes : x # r => health'[x] = health[x]
      /\ health' \in [Runtimes -> Health]
  <2>1. Registered \in Health /\ Registered.registered BY SupervisorAssumption DEF Registered, Health
  <2>. QED BY <2>1, <1>0, <1>5, Types
<1>7. Lists'
  <2>1. \A x \in Runtimes : health[x].process => thread[Watch(x)].pc \in {"off", "wait"} /\ health[x].registered
    BY DEF IInv, Lists
  <2>2. \A x \in Runtimes : Watch(x) = t => ~health[x].process /\ x # r BY <2>1, <1>2 DEF RegisterRuntime
  <2>3. \A u \in Threads : thread'[u] = IF u = t THEN n ELSE thread[u] BY <1>0, <1>3, Types
  <2>4. \A u \in Threads, x \in Runtimes : u # t => (Tends(u, x)' <=> Tends(u, x)) BY <2>3 DEF Tends
  <2>5. \A x \in Runtimes : Tends(t, x)' <=> x = r BY <2>3, <1>2, <1>3, <1>4 DEF Tends
  <2>6. runs' = runs /\ r \in runs
    <3>1. r \in runs BY <1>2, <1>4 DEF IInv, Lists
    <3>. QED BY <3>1 DEF RegisterRuntime
  <2>7. ASSUME NEW x \in Runtimes
        PROVE  /\ x \in runs' <=> \/ x \in runs /\ ~(Tends(t, x) /\ InRuns(thread[t]))
                                  \/ Tends(t, x)' /\ InRuns(n)
               /\ health'[x].registered <=>
                    \/ health[x].registered /\ ~(Tends(t, x) /\ Entered(thread[t]))
                    \/ Tends(t, x)' /\ Entered(n)
               /\ health'[x].process => /\ health'[x].registered
                                        /\ health[x].process \/ (thread[Watch(x)].pc = "off" /\ Watch(x) # t)
                                        /\ Watch(x) = t => n.pc \in {"off", "wait"}
    <3>1. CASE x = r BY <3>1, <1>2, <1>4, <1>6, <2>2, <2>5, <2>6
    <3>2. CASE x # r BY <3>2, <1>2, <1>4, <1>6, <2>1, <2>2, <2>5, <2>6
    <3>. QED BY <3>1, <3>2
  <2>. QED BY <2>4, <2>7, <1>3, ListsMove
<1>8. runtime' = runtime /\ boot' = boot /\ status' = status /\ hangs' = hangs /\ runs' = runs
  BY DEF RegisterRuntime
<1>9. runs' \subseteq Runtimes BY <1>0, <1>8, Types
<1>. QED BY <1>1, <1>3, <1>4, <1>6, <1>7, <1>8, <1>9, Enters

\* An exited runtime leaves the supervisor's list.
LEMMA DropRunKeeps ==
    ASSUME SupervisorAssumption, IInv, NEW r \in Runtimes, DropRun(r)
    PROVE  IInv'
<1> DEFINE t == Watch(r)
<1>0. TypeOK /\ "fail" \in Pc /\ t \in Threads BY Names DEF IInv, Pc
<1>1. thread[t].pc = "drop" BY DEF DropRun
<1>2. Minds(thread[t]) BY <1>1 DEF Minds
<1>3. Tends(t, r) /\ (\A x \in Runtimes : Tends(t, x) => x = r) /\ Exited(r)
  BY <1>1, <1>2, MinderTends
<1>4. PICK n \in Thread :
        /\ thread' = [thread EXCEPT ![t] = n]
        /\ n.pc = "fail" /\ n.plugin = thread[t].plugin /\ n.run = thread[t].run
  BY <1>0, GotoRecord DEF DropRun
<1>5. /\ Minds(n) /\ ~Starts(n) /\ ~Starts(thread[t]) /\ ~InRuns(n) /\ Entered(n)
      /\ InRuns(thread[t]) /\ Entered(thread[t])
  BY <1>1, <1>4 DEF Starts, Minds, InRuns, Entered, Walks
<1>6. RuntimeCalm /\ Steady /\ health' = health /\ HealthCalm /\ BootCalm /\ status' \in [Plugins -> State] /\ hangs' \in 0 .. MaxHangs
  BY <1>0, Still, CalmIsSteady DEF DropRun
<1>7. runs' = runs \ {r} BY DEF DropRun
<1>8. TypeOK'
  BY <1>0, <1>4, <1>6, <1>7, Types DEF RuntimeCalm, HealthCalm, BootCalm, TypeOK, Thread, Process, Health, BootState
<1>9. \A u \in Threads : thread'[u] = IF u = t THEN n ELSE thread[u] BY <1>0, <1>4, Types
<1>10. \A u \in Threads, x \in Runtimes : Tends(u, x)' <=> Tends(u, x) BY <1>2, <1>5, <1>9 DEF Tends
<1>11. Births' /\ InHand' /\ OneProcess' BY <1>1, <1>4, <1>6, <1>8, <1>9, <1>10, RolesKeep
<1>12. Duties'
  <2>1. Own(t, thread[t]) BY <1>0, EachDuty DEF IInv
  <2>2. Exited(r)' /\ runtime'[r].proc # "unborn" BY <1>3 DEF Exited, DropRun
  <2>3. Own(t, n)' BY <2>2, <1>4, <1>5, Names DEF Own
  <2>. QED BY <2>3, <1>0, <1>1, <1>4, <1>6, DutiesMove
<1>13. Lists'
  <2>1. \A x \in Runtimes : health[x].process => thread[Watch(x)].pc \in {"off", "wait"} /\ health[x].registered
    BY DEF IInv, Lists
  <2>2. \A x \in Runtimes : Watch(x) = t => ~health[x].process BY <2>1, <1>1
  <2>3. ASSUME NEW x \in Runtimes
        PROVE  /\ x \in runs' <=> \/ x \in runs /\ ~(Tends(t, x) /\ InRuns(thread[t]))
                                  \/ Tends(t, x)' /\ InRuns(n)
               /\ health'[x].registered <=>
                    \/ health[x].registered /\ ~(Tends(t, x) /\ Entered(thread[t]))
                    \/ Tends(t, x)' /\ Entered(n)
               /\ health'[x].process => /\ health'[x].registered
                                        /\ health[x].process \/ (thread[Watch(x)].pc = "off" /\ Watch(x) # t)
                                        /\ Watch(x) = t => n.pc \in {"off", "wait"}
    <3>1. Tends(t, x)' <=> Tends(t, x) BY <1>0, <1>10
    <3>2. Tends(t, x) => health[x].registered BY <1>0, <1>5 DEF IInv, Lists
    <3>. QED BY <3>1, <3>2, <2>1, <2>2, <1>3, <1>5, <1>6, <1>7
  <2>. QED BY <2>3, <1>0, <1>4, <1>10, ListsMove
<1>. QED BY <1>8, <1>11, <1>12, <1>13 DEF IInv

\* An exited runtime leaves the registry; its watcher restarts the plugin or ends.
LEMMA PruneKeeps ==
    ASSUME SupervisorAssumption, IInv, NEW r \in Runtimes, Prune(r)
    PROVE  IInv'
<1> DEFINE t == Watch(r)
<1>0. TypeOK /\ {"restart", "done"} \subseteq Pc /\ t \in Threads BY Names DEF IInv, Pc
<1>1. thread[t].pc = "prune" BY DEF Prune
<1>2. Minds(thread[t]) BY <1>1 DEF Minds
<1>3. Tends(t, r) /\ (\A x \in Runtimes : Tends(t, x) => x = r) /\ Exited(r)
  BY <1>1, <1>2, MinderTends
<1>4. PICK n \in Thread :
        /\ thread' = [thread EXCEPT ![t] = n]
        /\ n.pc = (IF MayRestart(r) THEN "restart" ELSE "done")
        /\ n.plugin = thread[t].plugin /\ n.run = thread[t].run
  <2>1. (IF MayRestart(r) THEN "restart" ELSE "done") \in Pc BY <1>0
  <2>2. PICK pc \in Pc : pc = IF MayRestart(r) THEN "restart" ELSE "done" BY <2>1
  <2>. QED BY <1>0, <2>2, GotoRecord DEF Prune
<1>5. ~Starts(n) /\ ~Starts(thread[t]) /\ ~InRuns(n) /\ ~Entered(n) /\ ~InRuns(thread[t]) /\ Entered(thread[t])
  BY <1>1, <1>4 DEF Starts, InRuns, Entered, Walks
<1>6. RuntimeCalm /\ Steady /\ runs' = runs /\ BootCalm /\ status' \in [Plugins -> State] /\ hangs' \in 0 .. MaxHangs
  BY <1>0, Still, CalmIsSteady DEF Prune
<1>7. /\ ~health'[r].registered /\ ~health'[r].process /\ \A x \in Runtimes : x # r => health'[x] = health[x]
      /\ health' \in [Runtimes -> Health]
  <2>1. Unregistered \in Health /\ ~Unregistered.registered /\ ~Unregistered.process
    BY SupervisorAssumption DEF Unregistered, Health
  <2>. QED BY <2>1, <1>0, Types DEF Prune, RemoveRuntime
<1>8. TypeOK'
  BY <1>0, <1>4, <1>6, <1>7, Types DEF RuntimeCalm, BootCalm, TypeOK, Thread, Process, Health, BootState
<1>9. \A u \in Threads : thread'[u] = IF u = t THEN n ELSE thread[u] BY <1>0, <1>4, Types
<1>10. \A u \in Threads, x \in Runtimes : u # t => (Tends(u, x)' <=> Tends(u, x)) BY <1>9 DEF Tends
<1>11. Births' /\ InHand' /\ OneProcess'
  <2>1. CASE MayRestart(r)
    <3>1. Minds(n) BY <2>1, <1>4 DEF Minds
    <3>2. \A u \in Threads, x \in Runtimes : Tends(u, x)' <=> Tends(u, x)
      BY <3>1, <1>2, <1>5, <1>9 DEF Tends
    <3>. QED BY <3>2, <1>1, <1>4, <1>6, <1>8, <1>9, RolesKeep
  <2>2. CASE ~MayRestart(r)
    <3>1. ~Minds(n) /\ n.pc # "startFailed" BY <2>2, <1>4 DEF Minds, Walks
    <3>2. runtime'[r].proc = "exited" BY <1>3 DEF Exited, Prune
    <3>. QED BY <3>1, <3>2, <1>0, <1>3, <1>4, <1>5, <1>6, <1>8, LetsGo
  <2>. QED BY <2>1, <2>2
<1>12. Duties'
  <2>2. Exited(r)' /\ runtime'[r].proc # "unborn" /\ MayRestart(r)' <=> MayRestart(r)
    BY <1>3 DEF Exited, Prune, MayRestart
  <2>3. Exited(r)' /\ runtime'[r].proc # "unborn" BY <1>3 DEF Exited, Prune
  <2>4. Own(t, n)' BY <2>2, <2>3, <1>4, <1>5, Names DEF Own, Minds, Walks
  <2>. QED BY <2>4, <1>0, <1>1, <1>4, <1>6, DutiesMove
<1>13. Lists'
  <2>1. \A x \in Runtimes : health[x].process => thread[Watch(x)].pc \in {"off", "wait"} /\ health[x].registered
    BY DEF IInv, Lists
  <2>2. \A x \in Runtimes : Watch(x) = t => x = r BY Names
  <2>3. ASSUME NEW x \in Runtimes
        PROVE  /\ x \in runs' <=> \/ x \in runs /\ ~(Tends(t, x) /\ InRuns(thread[t]))
                                  \/ Tends(t, x)' /\ InRuns(n)
               /\ health'[x].registered <=>
                    \/ health[x].registered /\ ~(Tends(t, x) /\ Entered(thread[t]))
                    \/ Tends(t, x)' /\ Entered(n)
               /\ health'[x].process => /\ health'[x].registered
                                        /\ health[x].process \/ (thread[Watch(x)].pc = "off" /\ Watch(x) # t)
                                        /\ Watch(x) = t => n.pc \in {"off", "wait"}
    <3>1. CASE x = r BY <3>1, <1>3, <1>5, <1>6, <1>7
    <3>2. CASE x # r BY <3>2, <1>3, <1>5, <1>6, <1>7, <2>1, <2>2
    <3>. QED BY <3>1, <3>2
  <2>. QED BY <2>3, <1>0, <1>4, <1>10, ListsMove
<1>. QED BY <1>8, <1>11, <1>12, <1>13 DEF IInv

\* The watcher takes the runtime over from the goroutine that started it.
LEMMA StartedKeeps ==
    ASSUME SupervisorAssumption, IInv, NEW t \in Threads, Started(t)
    PROVE  IInv'
<1>0. TypeOK BY DEF IInv
<1>1. thread[t].pc = "started" /\ Starts(thread[t]) BY DEF Started, Starts
<1>2. PICK r \in Runtimes :
        /\ r = thread[t].run /\ Tends(t, r) /\ thread[t].plugin = runtime[r].plugin
        /\ \A x \in Runtimes : Tends(t, x) => x = r
        /\ thread[Watch(r)].pc = "off" /\ \A x \in Runtimes : t # Beat(x)
  BY <1>1, StarterTends
<1>3. runtime[r].proc # "unborn" /\ runtime[r].plugin \in Plugins /\ Holds(t, runtime[r].plugin)
  BY <1>2, TendedIsBorn
<1>4. PICK n \in Thread : n = AfterStart(t) /\ n.pc = IF t = Boot THEN "loop" ELSE "done"
  BY AtTyped DEF AfterStart, Pc
<1>5. PICK w \in Thread, b \in Thread : w = At("wait") /\ w.pc = "wait" /\ b = At("tick") /\ b.pc = "tick"
  BY AtTyped DEF Pc
<1>6. Watch(r) \in Threads /\ Beat(r) \in Threads /\ Watch(r) # t /\ Beat(r) # t /\ Watch(r) # Beat(r)
  BY <1>1, <1>2, Names
<1>7. thread' = [thread EXCEPT ![t] = n, ![Watch(r)] = w, ![Beat(r)] = b]
  BY <1>2, <1>4, <1>5 DEF Started
<1>8. \A u \in Threads : thread'[u] = IF u = t THEN n ELSE IF u = Watch(r) THEN w ELSE IF u = Beat(r) THEN b ELSE thread[u]
  BY <1>0, <1>6, <1>7, Types
<1>9. /\ ~Starts(n) /\ ~Minds(n) /\ ~InRuns(n) /\ ~Entered(n) /\ n.pc # "startFailed"
      /\ ~Starts(w) /\ Minds(w) /\ InRuns(w) /\ Entered(w)
      /\ ~Starts(b) /\ ~Minds(b) /\ ~InRuns(b) /\ ~Entered(b) /\ Pings(b)
      /\ InRuns(thread[t]) /\ Entered(thread[t]) /\ ~Minds(thread[t])
      /\ ~Starts(thread[Watch(r)]) /\ ~Minds(thread[Watch(r)]) /\ ~InRuns(thread[Watch(r)])
  BY <1>1, <1>2, <1>4, <1>5 DEF Starts, Minds, Pings, InRuns, Entered, Walks
<1>10. ~Starts(thread[Beat(r)]) /\ ~Minds(thread[Beat(r)]) /\ thread[Beat(r)].pc # "startFailed"
  <2>1. Own(Beat(r), thread[Beat(r)]) BY <1>6, EachDuty DEF IInv
  <2>. QED BY <2>1 DEF Own, Pings, Starts, Minds, Walks
<1>11. RuntimeCalm /\ Steady /\ runs' = runs /\ health' = health /\ HealthCalm /\ status' \in [Plugins -> State] /\ hangs' \in 0 .. MaxHangs
  BY <1>0, Still, CalmIsSteady DEF Started
<1>12. boot' \in BootState /\ boot'.left = boot.left /\ boot'.next = boot.next
  BY <1>0, Types DEF Started, BootState
<1>13. thread' \in [Threads -> Thread] BY <1>0, <1>7, Types
<1>14. TypeOK'
  BY <1>0, <1>11, <1>12, <1>13, Types DEF RuntimeCalm, HealthCalm, TypeOK, Thread, Process, Health, BootState
<1>15. ASSUME NEW u \in Threads, NEW x \in Runtimes
       PROVE  Tends(u, x)' <=> IF x = r THEN u = Watch(r) ELSE Tends(u, x)
  <2>1. CASE u = t BY <2>1, <1>2, <1>6, <1>8, <1>9 DEF Tends
  <2>2. CASE u = Watch(r) BY <2>2, <1>6, <1>8, <1>9, Names DEF Tends
  <2>3. CASE u = Beat(r) BY <2>3, <1>6, <1>8, <1>9, <1>10, Names DEF Tends
  <2>4. CASE u # t /\ u # Watch(r) /\ u # Beat(r)
    <3>1. x = r => ~Tends(u, x) BY <2>4, <1>2, Sole
    <3>. QED BY <2>4, <3>1, <1>8 DEF Tends
  <2>. QED BY <2>1, <2>2, <2>3, <2>4
<1>16. ASSUME NEW u \in Threads, NEW p \in Plugins, Holds(u, p)'
       PROVE  IF u = Watch(r) THEN p = runtime[r].plugin /\ Holds(t, p) ELSE u # t /\ Holds(u, p)
  <2>1. \A x \in Runtimes : runtime'[x].plugin = runtime[x].plugin BY <1>11 DEF RuntimeCalm
  <2>2. CASE u = t BY <2>2, <1>6, <1>8, <1>9, <1>15, <1>16, <1>2 DEF Holds
  <2>3. CASE u = Watch(r)
    <3>1. thread'[u] = w /\ w.pc # "startFailed" BY <2>3, <1>5, <1>6, <1>8
    <3>2. PICK x \in Runtimes : Tends(u, x)' /\ runtime'[x].plugin = p BY <3>1, <1>16 DEF Holds
    <3>3. x = r BY <3>1, <3>2, <2>3, <1>9, Names DEF Tends
    <3>. QED BY <3>2, <3>3, <2>1, <2>3, <1>3
  <2>4. CASE u = Beat(r) BY <2>4, <1>6, <1>8, <1>9, <1>5, <1>16, Names DEF Holds, Tends
  <2>5. CASE u # t /\ u # Watch(r) /\ u # Beat(r) BY <2>5, <2>1, <1>8, <1>15, <1>16 DEF Holds
  <2>. QED BY <2>2, <2>3, <2>4, <2>5
<1>17. Births' /\ OneProcess'
  <2>1. runtime' = runtime BY DEF Started
  <2>2. Births BY DEF IInv
  <2>3. ASSUME NEW u \in Threads, NEW x \in Runtimes, Tends(u, x)'
        PROVE  \A y \in Runtimes : runtime'[y].plugin = runtime'[x].plugin => runtime'[y].attempt <= runtime'[x].attempt
    <3>1. \E v \in Threads : Tends(v, x) BY <2>3, <1>2, <1>15
    <3>. QED BY <3>1, <2>1, <2>2 DEF Births
  <2>. QED BY <2>1, <2>2, <2>3 DEF Births, Born, IInv, OneProcess
<1>18. InHand'
  <2>1. InHand BY DEF IInv
  <2>2. ASSUME NEW u \in Threads, NEW p \in Plugins, Holds(u, p)', NEW v \in Threads, Holds(v, p)'
        PROVE  v = u
    <3>1. IF u = Watch(r) THEN p = runtime[r].plugin /\ Holds(t, p) ELSE u # t /\ Holds(u, p) BY <2>2, <1>16
    <3>2. IF v = Watch(r) THEN p = runtime[r].plugin /\ Holds(t, p) ELSE v # t /\ Holds(v, p) BY <2>2, <1>16
    <3>. QED BY <3>1, <3>2, <2>1 DEF InHand
  <2>3. \A p \in boot'.left \cup boot'.next :
       /\ \A u \in Threads : ~Holds(u, p)'
       /\ \A x \in Runtimes : runtime'[x].plugin # p
    <3>1. boot.left \cup boot.next \subseteq Plugins BY <1>0, Types DEF BootState
    <3>. QED BY <3>1, <2>1, <1>11, <1>12, <1>16 DEF InHand, RuntimeCalm
  <2>4. ASSUME NEW x \in Runtimes, runtime'[x].proc \in Alive
        PROVE  \/ \E u \in Threads : Tends(u, x)'
               \/ /\ runtime'[x].proc = "dying"
                  /\ \A u \in Threads : Holds(u, runtime[x].plugin)' => thread'[u].pc = "startFailed"
    <3>1. runtime' = runtime BY DEF Started
    <3>2. CASE x = r BY <3>2, <1>6, <1>15
    <3>3. CASE x # r /\ \E u \in Threads : Tends(u, x) BY <3>3, <1>15
    <3>4. CASE /\ runtime[x].proc = "dying"
               /\ \A u \in Threads : Holds(u, runtime[x].plugin) => thread[u].pc = "startFailed"
      <4>1. runtime[x].plugin \in Plugins BY <3>4 DEF IInv, Births
      <4>2. PICK p \in Plugins : p = runtime[x].plugin BY <4>1
      <4>3. \A u \in Threads : Holds(u, runtime[x].plugin)' => Holds(u, p)'
        BY <3>1, <4>2 DEF Holds
      <4>4. ASSUME NEW u \in Threads, Holds(u, p)' PROVE thread'[u].pc = "startFailed"
        <5>1. ~Holds(t, p) BY <3>4, <4>2, <1>1
        <5>2. u # Watch(r) /\ u # t /\ Holds(u, p) BY <4>4, <5>1, <1>16
        <5>3. thread[u].pc = "startFailed" BY <5>2, <4>2, <3>4
        <5>4. u # Beat(r) BY <5>3, <1>10
        <5>. QED BY <5>2, <5>3, <5>4, <1>8
      <4>. QED BY <3>1, <3>4, <4>3, <4>4
    <3>. QED BY <2>1, <2>4, <3>1, <3>2, <3>3, <3>4 DEF InHand
  <2>5. boot'.left \cap boot'.next = {} BY <2>1, <1>12 DEF InHand
  <2>. QED BY <2>2, <2>3, <2>4, <2>5 DEF InHand
<1>19. Duties'
  <2>1. ASSUME NEW u \in Threads PROVE Own(u, thread[u])'
    <3>0. runtime' = runtime BY DEF Started
    <3>1. CASE u = t
      <4>1. Own(t, thread[t]) BY EachDuty DEF IInv
      <4>2. Own(t, n)' BY <4>1, <1>1, <1>2, <1>4, <1>9, <3>0, Names DEF Own
      <4>. QED BY <4>2, <3>1, <1>8 DEF Own
    <3>2. CASE u = Watch(r)
      <4>1. Own(Watch(r), w)' BY <1>3, <1>5, <1>9, <3>0, Names DEF Own
      <4>. QED BY <4>1, <3>2, <1>6, <1>8 DEF Own
    <3>3. CASE u = Beat(r)
      <4>1. Own(Beat(r), b)' BY <1>5, <1>9, Names DEF Own
      <4>. QED BY <4>1, <3>3, <1>6, <1>8 DEF Own
    <3>4. CASE u # t /\ u # Watch(r) /\ u # Beat(r)
      <4>1. PICK m \in Thread : m = thread[u] BY <1>0, Types
      <4>2. Own(u, m) BY <4>1, EachDuty DEF IInv, Own
      <4>3. ASSUME Starts(m) PROVE thread'[Watch(m.run)].pc = "off"
        <5>1. m.run \in Runtimes /\ Tends(u, m.run) /\ thread[Watch(m.run)].pc = "off"
          BY <4>1, <4>3, StarterTends
        <5>2. m.run # r BY <5>1, <3>4, <1>2, Sole
        <5>3. Watch(m.run) # t /\ Watch(m.run) # Watch(r) /\ Watch(m.run) # Beat(r) /\ Watch(m.run) \in Threads
          BY <5>1, <5>2, <1>1, Names
        <5>. QED BY <5>1, <5>3, <1>8
      <4>4. Own(u, m)' BY <4>2, <4>3, <1>11, OwnStays
      <4>. QED BY <4>1, <4>4, <3>4, <1>8 DEF Own
    <3>. QED BY <3>1, <3>2, <3>3, <3>4
  <2>. QED BY <2>1, EachDutyNext
<1>20. Lists'
  <2>1. Lists BY DEF IInv
  <2>2. ASSUME NEW x \in Runtimes
        PROVE  /\ x \in runs' <=> \E u \in Threads : Tends(u, x)' /\ InRuns(thread'[u])
               /\ health'[x].registered <=> \E u \in Threads : Tends(u, x)' /\ Entered(thread'[u])
               /\ health'[x].process => health'[x].registered /\ thread'[Watch(x)].pc \in {"off", "wait"}
    <3>1. CASE x = r
      <4>1. r \in runs /\ health[r].registered BY <2>1, <1>2, <1>9 DEF Lists
      <4>2. Tends(Watch(r), r)' /\ InRuns(thread'[Watch(r)]) /\ Entered(thread'[Watch(r)])
        BY <1>6, <1>8, <1>9, <1>15
      <4>3. thread'[Watch(r)].pc = "wait" BY <1>5, <1>6, <1>8
      <4>. QED BY <3>1, <4>1, <4>2, <4>3, <1>6, <1>11
    <3>2. CASE x # r
      <4>1. \A u \in Threads : Tends(u, x)' <=> Tends(u, x) BY <3>2, <1>15
      <4>2. \A u \in Threads : Tends(u, x) => thread'[u] = thread[u]
        BY <3>2, <1>2, <1>8, <1>9, <1>10 DEF Tends
      <4>3. Watch(x) # Watch(r) /\ Watch(x) # Beat(r) /\ Watch(x) \in Threads BY <3>2, Names
      <4>4. health[x].process => thread'[Watch(x)].pc \in {"off", "wait"}
        BY <4>3, <2>1, <1>1, <1>8 DEF Lists
      <4>. QED BY <4>1, <4>2, <4>4, <2>1, <1>11 DEF Lists
    <3>. QED BY <3>1, <3>2
  <2>. QED BY <2>2 DEF Lists
<1>. QED BY <1>14, <1>17, <1>18, <1>19, <1>20 DEF IInv

\* When a goroutine may launch the plugin p: only it has p in hand, if anyone, p is not
\* left to the boot loop, its processes are gone and their attempts were lower.
MayLaunch(t, p, attempt) ==
    /\ attempt \in Nat /\ attempt <= MaxAttempts[p]
    /\ thread[t].pc # "off" /\ ~InRuns(thread[t]) /\ ~Entered(thread[t])
    /\ \/ t = Boot
       \/ \E q \in Runtimes : t = Watch(q) /\ runtime[q].proc # "unborn"
    /\ \A u \in Threads : Holds(u, p) => u = t
    /\ \A x \in Runtimes : Tends(t, x) => runtime[x].proc \notin Alive
    /\ \A x \in Runtimes : runtime[x].plugin = p =>
         runtime[x].attempt < attempt /\ runtime[x].proc \notin Alive
    /\ BootCalm /\ p \notin boot'.left \cup boot'.next

\* The runtime that is launched next was not started.
LEMMA FreshIsUnborn ==
    ASSUME IInv
    PROVE  /\ Fresh \in Nat /\ Fresh \notin Born /\ Born \cup {Fresh} = 1 .. Fresh
           /\ Cardinality(Born \cup {Fresh}) = Fresh
<1>1. PICK k \in Nat : k = Cardinality(Born) /\ Born = 1 .. k BY DEF IInv, Births
<1>2. Fresh = k + 1 BY <1>1 DEF Fresh
<1>3. \A x : x \in 1 .. (k + 1) <=> x \in 1 .. k \/ x = k + 1 OBVIOUS
<1>4. Born \cup {Fresh} = 1 .. (k + 1) BY <1>1, <1>2, <1>3
<1>5. Cardinality(1 .. (k + 1)) = k + 1
  <2>1. 1 \in Int /\ k + 1 \in Int OBVIOUS
  <2>2. Cardinality(1 .. (k + 1)) = IF 1 > k + 1 THEN 0 ELSE (k + 1) - 1 + 1
    BY <2>1, FS_Interval
  <2>. QED BY <2>2
<1>6. k + 1 \notin 1 .. k /\ k + 1 \in Nat OBVIOUS
<1>. QED BY <1>1, <1>2, <1>4, <1>5, <1>6

\* A launch that finds no process to start.
LEMMA LaunchFails ==
    ASSUME SupervisorAssumption, IInv, NEW t \in Threads, NEW p \in Plugins, NEW attempt,
           MayLaunch(t, p, attempt), NEW n \in Thread,
           n.pc = "startFailed", n.plugin = p, thread' = [thread EXCEPT ![t] = n],
           status' \in [Plugins -> State], UNCHANGED <<runtime, health, runs, hangs>>
    PROVE  IInv'
<1>0. TypeOK BY DEF IInv
<1>1. RuntimeCalm /\ Steady /\ HealthCalm /\ hangs' \in 0 .. MaxHangs /\ BootCalm
  BY <1>0, Still, CalmIsSteady DEF MayLaunch
<1>2. TypeOK'
  BY <1>0, <1>1, Types DEF RuntimeCalm, HealthCalm, BootCalm, TypeOK, Thread, Process, Health, BootState
<1>3. \A u \in Threads : thread'[u] = IF u = t THEN n ELSE thread[u] BY <1>0, Types
<1>4. ~Starts(n) /\ ~Minds(n) /\ ~InRuns(n) /\ ~Entered(n)
  BY DEF Starts, Minds, InRuns, Entered, Walks
<1>5. \A u \in Threads, x \in Runtimes : Tends(u, x)' <=> Tends(u, x) /\ u # t
  BY <1>3, <1>4 DEF Tends
<1>6. \A u \in Threads, q \in Plugins : Holds(u, q)' <=> IF u = t THEN q = p ELSE Holds(u, q)
  BY <1>3, <1>5 DEF Holds
<1>7. Births' /\ OneProcess' BY <1>1, <1>2, <1>5, BirthsKept
<1>8. InHand'
  <2>1. InHand BY DEF IInv
  <2>2. ASSUME NEW u \in Threads, NEW q \in Plugins, Holds(u, q)', NEW v \in Threads, Holds(v, q)'
        PROVE  v = u
    BY <2>1, <2>2, <1>6 DEF InHand, MayLaunch
  <2>3. ASSUME NEW q \in boot'.left \cup boot'.next
        PROVE  (\A u \in Threads : ~Holds(u, q)') /\ \A x \in Runtimes : runtime'[x].plugin # q
    <3>1. q \in Plugins /\ q \in boot.left \cup boot.next /\ q # p
      BY <1>2, Types DEF MayLaunch, BootCalm, BootState
    <3>. QED BY <3>1, <2>1, <1>6 DEF InHand
  <2>4. ASSUME NEW x \in Runtimes, runtime'[x].proc \in Alive
        PROVE  \/ \E u \in Threads : Tends(u, x)'
               \/ /\ runtime'[x].proc = "dying"
                  /\ \A u \in Threads : Holds(u, runtime[x].plugin)' => thread'[u].pc = "startFailed"
    <3>1. runtime' = runtime OBVIOUS
    <3>2. CASE \E u \in Threads : Tends(u, x) BY <3>1, <3>2, <2>4, <1>5 DEF MayLaunch
    <3>3. CASE /\ runtime[x].proc = "dying"
               /\ \A u \in Threads : Holds(u, runtime[x].plugin) => thread[u].pc = "startFailed"
      <4>1. runtime[x].plugin \in Plugins BY <3>3 DEF IInv, Births
      <4>2. PICK q \in Plugins : q = runtime[x].plugin BY <4>1
      <4>3. \A u \in Threads : Holds(u, runtime[x].plugin)' => Holds(u, q)'
        BY <3>1, <4>2 DEF Holds
      <4>. QED BY <3>1, <3>3, <4>2, <4>3, <1>3, <1>6
    <3>. QED BY <2>1, <2>4, <3>1, <3>2, <3>3 DEF InHand
  <2>5. boot'.left \cap boot'.next = {} BY <2>1, <1>1 DEF InHand, BootCalm
  <2>. QED BY <2>2, <2>3, <2>4, <2>5 DEF InHand
<1>9. Duties'
  <2>1. Own(t, n)' BY <1>4, Names DEF Own, MayLaunch
  <2>. QED BY <2>1, <1>1, DutiesMove DEF MayLaunch
<1>10. Lists'
  <2>1. \A x \in Runtimes : health[x].process => thread[Watch(x)].pc \in {"off", "wait"} /\ health[x].registered
    BY DEF IInv, Lists
  <2>2. thread[t].pc # "wait" /\ thread[t].pc # "off" BY DEF MayLaunch, InRuns
  <2>3. \A x \in Runtimes : Watch(x) = t => ~health[x].process BY <2>1, <2>2
  <2>4. ~InRuns(thread[t]) /\ ~Entered(thread[t]) BY DEF MayLaunch
  <2>. QED BY <2>1, <2>3, <2>4, <1>4, <1>5, ListsMove
<1>. QED BY <1>2, <1>7, <1>8, <1>9, <1>10 DEF IInv

\* A launch that starts the next runtime.
LEMMA LaunchStarts ==
    ASSUME SupervisorAssumption, IInv, NEW t \in Threads, NEW p \in Plugins, NEW attempt,
           MayLaunch(t, p, attempt), NEW n \in Thread, NEW r \in Runtimes, r = Fresh,
           n.pc = "handshake", n.plugin = p, n.run = r, thread' = [thread EXCEPT ![t] = n],
           runtime' = [runtime EXCEPT ![r] = [plugin |-> p, proc |-> "running", attempt |-> attempt]],
           status' \in [Plugins -> State], UNCHANGED <<health, runs, hangs>>
    PROVE  IInv'
<1>0. TypeOK BY DEF IInv
<1>1. /\ \A x \in Runtimes : x # r => runtime'[x] = runtime[x]
      /\ runtime'[r].plugin = p /\ runtime'[r].proc = "running" /\ runtime'[r].attempt = attempt
      /\ runtime' \in [Runtimes -> Process]
  BY <1>0, Types DEF Process, Proc, MayLaunch
<1>2. TypeOK'
  BY <1>0, <1>1, Types DEF MayLaunch, BootCalm, TypeOK, Thread, Process, Health, BootState
<1>3. \A u \in Threads : thread'[u] = IF u = t THEN n ELSE thread[u] BY <1>0, Types
<1>4. runtime[r] = Unborn /\ runtime[r].proc = "unborn" /\ runtime[r].plugin = None
  BY FreshIsUnborn DEF Born, Unborn
<1>5. Steady BY <1>1, <1>4 DEF Steady
<1>6. Starts(n) /\ ~Minds(n) /\ ~InRuns(n) /\ ~Entered(n)
  BY DEF Starts, Minds, InRuns, Entered, Walks
<1>7. \A u \in Threads, x \in Runtimes : Tends(u, x)' <=> IF u = t THEN x = r ELSE Tends(u, x)
  BY <1>3, <1>6 DEF Tends
<1>8. \A u \in Threads, x \in Runtimes : Tends(u, x) => x # r
  BY <1>4, TendedIsBorn
<1>9. \A u \in Threads, q \in Plugins : Holds(u, q)' <=> IF u = t THEN q = p ELSE Holds(u, q)
  BY <1>1, <1>3, <1>7, <1>8 DEF Holds
<1>10. thread[Watch(r)].pc = "off" /\ Watch(r) # t /\ Watch(r) \in Threads
  <2>1. Own(Watch(r), thread[Watch(r)]) BY Names, EachDuty DEF IInv
  <2>2. thread[Watch(r)].pc = "off" BY <2>1, <1>4 DEF Own
  <2>. QED BY <2>2, Names DEF MayLaunch
<1>11. Births'
  <2>1. Births BY DEF IInv
  <2>2. Born' = Born \cup {r}
    <3>1. \A x \in Runtimes : x \in Born' <=> x \in Born \/ x = r
      BY <1>1 DEF Born, Unborn
    <3>. QED BY <3>1 DEF Born
  <2>3. Cardinality(Born') \in Nat /\ Born' = 1 .. Cardinality(Born') BY <2>2, FreshIsUnborn
  <2>4. ASSUME NEW x \in Runtimes
        PROVE  IF runtime'[x].proc = "unborn" THEN runtime'[x] = Unborn
          ELSE runtime'[x].plugin \in Plugins /\ runtime'[x].attempt <= MaxAttempts[runtime'[x].plugin]
    <3>1. CASE x = r BY <3>1, <1>1 DEF MayLaunch
    <3>2. CASE x # r BY <3>2, <1>1, <2>1 DEF Births
    <3>. QED BY <3>1, <3>2
  <2>5. \A x \in Runtimes : x # r /\ runtime[x].plugin = p => runtime[x].attempt < attempt /\ runtime[x].attempt \in Nat
    BY <1>0, Types DEF MayLaunch, Process
  <2>6. p # None /\ attempt \in Nat BY SupervisorAssumption DEF MayLaunch
  <2>7. ASSUME NEW x \in Runtimes, NEW y \in Runtimes, runtime'[x].plugin # None,
               runtime'[x].plugin = runtime'[y].plugin, runtime'[x].attempt = runtime'[y].attempt
        PROVE  x = y
    <3>1. CASE x # r /\ y # r BY <3>1, <2>7, <1>1, <2>1 DEF Births
    <3>2. CASE x = r /\ y # r BY <3>2, <2>7, <1>1, <2>5, <2>6
    <3>3. CASE x # r /\ y = r BY <3>3, <2>7, <1>1, <2>5, <2>6
    <3>. QED BY <3>1, <3>2, <3>3
  <2>8. ASSUME NEW u \in Threads, NEW x \in Runtimes, Tends(u, x)', NEW y \in Runtimes,
               runtime'[y].plugin = runtime'[x].plugin
        PROVE  runtime'[y].attempt <= runtime'[x].attempt
    <3>1. CASE u = t
      <4>1. x = r BY <3>1, <2>8, <1>7
      <4>2. CASE y = r BY <4>1, <4>2, <1>1, <2>6
      <4>3. CASE y # r BY <4>1, <4>3, <2>8, <1>1, <2>5, <2>6
      <4>. QED BY <4>2, <4>3
    <3>2. CASE u # t
      <4>1. Tends(u, x) /\ x # r BY <3>2, <2>8, <1>7, <1>8
      <4>2. runtime[x].plugin # p
        <5>1. Holds(u, runtime[x].plugin) BY <4>1, TendedIsBorn
        <5>. QED BY <5>1, <3>2 DEF MayLaunch
      <4>3. y # r BY <4>1, <4>2, <2>8, <1>1
      <4>. QED BY <4>1, <4>3, <2>8, <1>1, <2>1 DEF Births
    <3>. QED BY <3>1, <3>2
  <2>. QED BY <2>3, <2>4, <2>7, <2>8 DEF Births
<1>12. InHand'
  <2>1. InHand BY DEF IInv
  <2>2. ASSUME NEW u \in Threads, NEW q \in Plugins, Holds(u, q)', NEW v \in Threads, Holds(v, q)'
        PROVE  v = u
    BY <2>1, <2>2, <1>9 DEF InHand, MayLaunch
  <2>3. ASSUME NEW q \in boot'.left \cup boot'.next
        PROVE  (\A u \in Threads : ~Holds(u, q)') /\ \A x \in Runtimes : runtime'[x].plugin # q
    <3>1. q \in Plugins /\ q \in boot.left \cup boot.next /\ q # p
      BY <1>2, Types DEF MayLaunch, BootCalm, BootState
    <3>. QED BY <3>1, <2>1, <1>1, <1>9 DEF InHand
  <2>4. ASSUME NEW x \in Runtimes, runtime'[x].proc \in Alive
        PROVE  \/ \E u \in Threads : Tends(u, x)'
               \/ /\ runtime'[x].proc = "dying"
                  /\ \A u \in Threads : Holds(u, runtime[x].plugin)' => thread'[u].pc = "startFailed"
    <3>1. CASE x = r BY <3>1, <1>7
    <3>2. CASE x # r /\ \E u \in Threads : Tends(u, x) BY <3>2, <2>4, <1>1, <1>7 DEF MayLaunch
    <3>3. CASE /\ x # r /\ runtime[x].proc = "dying"
               /\ \A u \in Threads : Holds(u, runtime[x].plugin) => thread[u].pc = "startFailed"
      <4>1. runtime[x].plugin \in Plugins /\ runtime[x].plugin # p BY <3>3 DEF IInv, Births, MayLaunch, Alive
      <4>2. PICK q \in Plugins : q = runtime[x].plugin BY <4>1
      <4>3. \A u \in Threads : Holds(u, runtime[x].plugin)' => Holds(u, q)'
        BY <3>3, <1>1, <4>2 DEF Holds
      <4>. QED BY <3>3, <4>1, <4>2, <4>3, <1>1, <1>3, <1>9
    <3>. QED BY <2>1, <2>4, <1>1, <3>1, <3>2, <3>3 DEF InHand
  <2>5. boot'.left \cap boot'.next = {} BY <2>1 DEF InHand, BootCalm, MayLaunch
  <2>. QED BY <2>2, <2>3, <2>4, <2>5 DEF InHand
<1>13. OneProcess'
  BY <1>1, <1>4 DEF IInv, OneProcess, MayLaunch
<1>14. Duties'
  <2>1. thread'[Watch(r)].pc = "off" BY <1>3, <1>10
  <2>2. Own(t, n)'
    <3>1. \A x \in Runtimes : t # Beat(x) BY Names DEF MayLaunch
    <3>2. \A x \in Runtimes : t = Watch(x) => runtime[x].proc # "unborn" BY Names DEF MayLaunch
    <3>. QED BY <3>1, <3>2, <2>1, <1>1, <1>6, <1>5 DEF Own, Steady
  <2>. QED BY <2>2, <1>5, DutiesMove DEF MayLaunch
<1>15. Lists'
  <2>1. \A x \in Runtimes : health[x].process => thread[Watch(x)].pc \in {"off", "wait"} /\ health[x].registered
    BY DEF IInv, Lists
  <2>2. thread[t].pc # "wait" /\ thread[t].pc # "off" BY DEF MayLaunch, InRuns
  <2>3. \A x \in Runtimes : Watch(x) = t => ~health[x].process BY <2>1, <2>2
  <2>4. ~InRuns(thread[t]) /\ ~Entered(thread[t]) BY DEF MayLaunch
  <2>. QED BY <2>1, <2>3, <2>4, <1>6, <1>7, ListsMove
<1>. QED BY <1>2, <1>11, <1>12, <1>13, <1>14, <1>15 DEF IInv

\* Both outcomes of a launch.
LEMMA LaunchKeeps ==
    ASSUME SupervisorAssumption, IInv, NEW t \in Threads, NEW p \in Plugins, NEW attempt,
           MayLaunch(t, p, attempt), Launch(t, p, attempt)
    PROVE  IInv'
<1>0. TypeOK /\ {"handshake", "startFailed"} \subseteq Pc /\ "STARTING" \in State BY DEF IInv, Pc, State
<1>1. status' \in [Plugins -> State] BY <1>0, Types DEF Launch, SetStatus
<1>2. health' = health /\ runs' = runs /\ hangs' = hangs BY DEF Launch
<1>3. CASE \E r \in Runtimes :
          /\ r = Fresh
          /\ runtime' = [runtime EXCEPT ![r] =
               [plugin |-> p, proc |-> "running", attempt |-> attempt]]
          /\ thread' = [thread EXCEPT ![t] =
               [At("handshake") EXCEPT !.plugin = p, !.run = r]]
  <2>1. PICK r \in Runtimes :
          /\ r = Fresh
          /\ runtime' = [runtime EXCEPT ![r] =
               [plugin |-> p, proc |-> "running", attempt |-> attempt]]
          /\ thread' = [thread EXCEPT ![t] =
               [At("handshake") EXCEPT !.plugin = p, !.run = r]]
    BY <1>3
  <2>2. At("handshake") \in Thread /\ At("handshake").pc = "handshake" BY <1>0, AtTyped
  <2>3. PICK n \in Thread : n = [At("handshake") EXCEPT !.plugin = p, !.run = r]
    BY <2>2 DEF Thread
  <2>4. n.pc = "handshake" /\ n.plugin = p /\ n.run = r BY <2>2, <2>3 DEF Thread
  <2>. QED BY <2>1, <2>3, <2>4, <1>1, <1>2, LaunchStarts
<1>4. CASE /\ thread' = [thread EXCEPT ![t] = [At("startFailed") EXCEPT !.plugin = p]]
           /\ UNCHANGED runtime
  <2>2. At("startFailed") \in Thread /\ At("startFailed").pc = "startFailed" BY <1>0, AtTyped
  <2>3. PICK n \in Thread : n = [At("startFailed") EXCEPT !.plugin = p]
    BY <2>2 DEF Thread
  <2>4. n.pc = "startFailed" /\ n.plugin = p BY <2>2, <2>3 DEF Thread
  <2>. QED BY <2>3, <2>4, <1>1, <1>2, <1>4, LaunchFails
<1>. QED BY <1>3, <1>4 DEF Launch

\* The boot loop may launch a plugin that is left to it.
LEMMA BootStartsKeeps ==
    ASSUME SupervisorAssumption, IInv, NEW p \in Plugins, BootStarts(p)
    PROVE  IInv'
<1>0. TypeOK /\ Boot \in Threads BY Names DEF IInv
<1>1. thread[Boot].pc = "loop" /\ p \in boot.left BY DEF BootStarts
<1>2. ~Starts(thread[Boot]) /\ ~Minds(thread[Boot]) /\ ~InRuns(thread[Boot]) /\ ~Entered(thread[Boot])
  BY <1>1 DEF Starts, Minds, InRuns, Entered, Walks
<1>3. \A x \in Runtimes : ~Tends(Boot, x) BY <1>2 DEF Tends
<1>4. boot'.left = boot.left \ {p} /\ boot'.next = boot.next /\ boot' \in BootState
  BY <1>0, Types DEF BootStarts, BootState
<1>5. p \notin boot.next /\ (\A u \in Threads : ~Holds(u, p)) /\ \A x \in Runtimes : runtime[x].plugin # p
  BY <1>1 DEF IInv, InHand
<1>6. 0 \in Nat /\ 0 <= MaxAttempts[p] BY SupervisorAssumption
<1>7. BootCalm BY <1>4 DEF BootCalm
<1>8. MayLaunch(Boot, p, 0)
  BY <1>1, <1>2, <1>3, <1>4, <1>5, <1>6, <1>7 DEF MayLaunch
<1>. QED BY <1>0, <1>8, LaunchKeeps DEF BootStarts

\* A watcher may launch its plugin again.
LEMMA RestartKeeps ==
    ASSUME SupervisorAssumption, IInv, NEW q \in Runtimes, Restart(q)
    PROVE  IInv'
<1> DEFINE t == Watch(q)
<1>0. TypeOK BY DEF IInv
<1>1. thread[t].pc = "restart" BY DEF Restart
<1>2. Minds(thread[t]) /\ ~InRuns(thread[t]) /\ ~Entered(thread[t])
  BY <1>1 DEF Minds, InRuns, Entered, Walks
<1>3. t \in Threads /\ Tends(t, q) /\ (\A x \in Runtimes : Tends(t, x) => x = q) /\ Exited(q)
  BY <1>1, <1>2, MinderTends
<1>4. PICK p \in Plugins : p = runtime[q].plugin BY <1>3, TendedIsBorn
<1>5. Holds(t, p) /\ runtime[q].proc # "unborn" BY <1>3, <1>4, TendedIsBorn
<1>6. \A u \in Threads : Holds(u, p) => u = t BY <1>3, <1>5 DEF IInv, InHand
<1>7. BootCalm /\ p \notin boot'.left \cup boot'.next
  <2>1. boot' = boot BY DEF Restart
  <2>. QED BY <2>1, <1>0, <1>4, Still DEF IInv, InHand
<1>8. PICK a \in Nat : a = runtime[q].attempt /\ a < MaxAttempts[p]
  <2>1. Own(t, thread[t]) BY <1>3, EachDuty DEF IInv
  <2>2. MayRestart(q) BY <2>1, <1>1 DEF Own
  <2>. QED BY <2>2, <1>0, <1>4, Types DEF MayRestart, Process
<1>9. PICK b \in Nat : b = a + 1 BY <1>8
<1>10. MaxAttempts[p] \in Nat BY SupervisorAssumption
<1>11. b <= MaxAttempts[p] BY <1>8, <1>9, <1>10
<1>12. ASSUME NEW x \in Runtimes, runtime[x].plugin = p
       PROVE  runtime[x].attempt < b /\ runtime[x].proc \notin Alive
  <2>1. runtime[x].attempt \in Nat BY <1>0, Types DEF Process
  <2>2. runtime[x].attempt <= a BY <1>3, <1>4, <1>8, <1>12 DEF IInv, Births
  <2>3. ASSUME runtime[x].proc \in Alive PROVE FALSE
    <3>1. CASE \E u \in Threads : Tends(u, x)
      <4>1. PICK u \in Threads : Tends(u, x) BY <3>1
      <4>2. Holds(u, p) BY <4>1, <1>12, TendedIsBorn
      <4>3. Tends(t, x) BY <4>1, <4>2, <1>6
      <4>. QED BY <4>3, <2>3, <1>3 DEF Exited, Alive
    <3>2. CASE \A u \in Threads : Holds(u, runtime[x].plugin) => thread[u].pc = "startFailed"
      BY <3>2, <1>1, <1>3, <1>5, <1>12
    <3>. QED BY <2>3, <3>1, <3>2 DEF IInv, InHand
  <2>. QED BY <2>1, <2>2, <2>3, <1>8, <1>9
<1>13. \A x \in Runtimes : Tends(t, x) => runtime[x].proc \notin Alive BY <1>3 DEF Exited, Alive
<1>14. MayLaunch(t, p, b)
  BY <1>1, <1>2, <1>5, <1>6, <1>7, <1>9, <1>11, <1>12, <1>13 DEF MayLaunch
<1>15. Launch(t, p, b) BY <1>4, <1>8, <1>9 DEF Restart, NextAttempt
<1>. QED BY <1>3, <1>14, <1>15, LaunchKeeps

\* The invariant holds before anything is started.
LEMMA Initially ==
    ASSUME SupervisorAssumption, Init
    PROVE  IInv
<1>1. TypeOK
  <2>1. Unborn \in Process /\ Unregistered \in Health /\ "INSTALLED" \in State
    BY SupervisorAssumption DEF Unborn, Process, Proc, Unregistered, Health, State
  <2>2. {"loop", "off"} \subseteq Pc BY DEF Pc
  <2>3. \A t \in Threads : At(IF t = Boot THEN "loop" ELSE "off") \in Thread BY <2>2, AtTyped
  <2>4. hangs \in 0 .. MaxHangs BY SupervisorAssumption DEF Init
  <2>. QED BY <2>1, <2>3, <2>4, Types DEF Init, BootState
<1>2. \A t \in Threads : thread[t].pc = IF t = Boot THEN "loop" ELSE "off"
  BY <1>1, AtTyped DEF Init, Pc
<1>3. \A t \in Threads : ~Starts(thread[t]) /\ ~Minds(thread[t]) /\ thread[t].pc # "startFailed"
  BY <1>2 DEF Starts, Minds, Walks
<1>4. \A t \in Threads : (\A r \in Runtimes : ~Tends(t, r)) /\ \A p \in Plugins : ~Holds(t, p)
  BY <1>3 DEF Tends, Holds
<1>5. \A r \in Runtimes : runtime[r] = Unborn /\ runtime[r].proc = "unborn" /\ runtime[r].plugin = None
  BY DEF Init, Unborn
<1>6. Duties
  <2>1. \A t \in Threads : Own(t, thread[t]) BY <1>2, <1>3, Names DEF Own
  <2>. QED BY <2>1, EachDuty
<1>7. Births
  <2>1. Born = {} BY <1>5 DEF Born
  <2>2. Cardinality(Born) = 0 /\ 1 .. 0 = {} BY <2>1, FS_EmptySet
  <2>. QED BY <2>1, <2>2, <1>4, <1>5 DEF Births
<1>8. InHand
  <2>1. None \notin Plugins BY SupervisorAssumption
  <2>. QED BY <2>1, <1>4, <1>5 DEF InHand, Init, Alive
<1>9. Lists BY <1>4 DEF Lists, Init, Unregistered
<1>10. OneProcess BY <1>5 DEF OneProcess, Alive
<1>. QED BY <1>1, <1>6, <1>7, <1>8, <1>9, <1>10 DEF IInv

\* Every step keeps the invariant.
LEMMA StepKeeps ==
    ASSUME SupervisorAssumption, IInv, [Next]_vars
    PROVE  IInv'
<1>1. CASE UNCHANGED vars
  <2>1. thread' = thread /\ RuntimeCalm /\ HealthCalm /\ BootCalm /\ runs' = runs /\ status' \in [Plugins -> State] /\ hangs' \in 0 .. MaxHangs
    BY <1>1, Still DEF vars, IInv
  <2>. QED BY <2>1, NoneMoves
<1>2. CASE Booting BY <1>2, RoundsKeep, BootStartsKeeps DEF Booting
<1>3. ASSUME NEW t \in Threads, Starting(t) PROVE IInv'
  BY <1>3, HandshakeOkKeeps, HandshakeFailsKeeps, EnterRunsKeeps, RegisterRuntimeKeeps,
     ReportReadyKeeps, StartedKeeps, StartFailedKeeps DEF Starting
<1>4. ASSUME NEW t \in Threads, Reconciling(t) PROVE IInv'
  BY <1>4, Walking, Marking, EndPassKeeps DEF Reconciling
<1>5. ASSUME NEW r \in Runtimes, Watching(r) PROVE IInv'
  BY <1>5, WaitReturnsKeeps, DropRunKeeps, ReportFailedKeeps, PruneKeeps, RestartKeeps DEF Watching
<1>6. ASSUME NEW r \in Runtimes, Beating(r) \/ BeatKills(r) PROVE IInv'
  BY <1>6, BeatingKeeps
<1>7. ASSUME NEW r \in Runtimes, Processes(r) PROVE IInv'
  BY <1>7, ProcessesKeep
<1>. QED BY <1>1, <1>2, <1>3, <1>4, <1>5, <1>6, <1>7 DEF Next

\* A plugin's runtimes have different attempts, and none is above the last.
LEMMA AttemptsBound ==
    ASSUME SupervisorAssumption, IInv
    PROVE  RestartsBounded
<1> SUFFICES ASSUME NEW p \in Plugins
             PROVE  Cardinality({r \in Runtimes : runtime[r].plugin = p}) <= MaxAttempts[p] + 1
  BY DEF RestartsBounded
<1> DEFINE S == {r \in Runtimes : runtime[r].plugin = p}
           T == 0 .. MaxAttempts[p]
           f == [r \in S |-> runtime[r].attempt]
<1>1. MaxAttempts[p] \in Nat /\ p # None BY SupervisorAssumption
<1>2. \A r \in S : runtime[r].attempt \in T
  <2>1. \A r \in S : runtime[r].proc # "unborn" BY <1>1 DEF IInv, Births, Unborn
  <2>2. \A r \in S : runtime[r].attempt \in Nat BY Types DEF IInv, Process
  <2>3. \A r \in S : runtime[r].attempt <= MaxAttempts[p] BY <2>1 DEF IInv, Births
  <2>. QED BY <2>2, <2>3, <1>1
<1>3. \A r, x \in S : f[r] = f[x] => r = x BY <1>1 DEF IInv, Births
<1>4. f \in Injection(S, T) BY <1>2, <1>3 DEF Injection, IsInjective
<1>5. IsFiniteSet(T) /\ Cardinality(T) = MaxAttempts[p] + 1
  <2>1. 0 \in Int /\ MaxAttempts[p] \in Int BY <1>1
  <2>2. IsFiniteSet(T) /\ Cardinality(T) = IF 0 > MaxAttempts[p] THEN 0 ELSE MaxAttempts[p] - 0 + 1
    BY <2>1, FS_Interval
  <2>. QED BY <2>2, <1>1
<1>6. Cardinality(S) <= Cardinality(T)
  <2>. HIDE DEF S, T, f
  <2>. QED BY <1>4, <1>5, FS_Injection
<1>. QED BY <1>5, <1>6

\* When nobody moves, a runtime is in someone's hands when its watcher waits for it.
LEMMA NoneIsLost ==
    ASSUME IInv
    PROVE  NoGhosts
<1> SUFFICES ASSUME Settled
             PROVE  /\ runs = {r \in Runtimes : health[r].registered}
                    /\ runs = {r \in Runtimes : runtime[r].proc \in Alive /\ thread[Watch(r)].pc = "wait"}
  BY DEF NoGhosts
<1>1. \A t \in Threads : /\ ~Starts(thread[t])
                         /\ Minds(thread[t]) <=> thread[t].pc = "wait"
                         /\ thread[t].pc = "wait" => InRuns(thread[t]) /\ Entered(thread[t])
  BY DEF Settled, Starts, Minds, InRuns, Entered, Walks
<1>2. ASSUME NEW r \in Runtimes
      PROVE  /\ r \in runs <=> thread[Watch(r)].pc = "wait"
             /\ health[r].registered <=> thread[Watch(r)].pc = "wait"
             /\ thread[Watch(r)].pc = "wait" => runtime[r].proc \in Alive
  <2>1. Watch(r) \in Threads BY Names
  <2>2. \A t \in Threads : Tends(t, r) <=> t = Watch(r) /\ thread[t].pc = "wait" BY <1>1 DEF Tends
  <2>3. r \in runs <=> thread[Watch(r)].pc = "wait" BY <2>1, <2>2, <1>1 DEF IInv, Lists
  <2>4. health[r].registered <=> thread[Watch(r)].pc = "wait" BY <2>1, <2>2, <1>1 DEF IInv, Lists
  <2>5. ASSUME thread[Watch(r)].pc = "wait" PROVE runtime[r].proc \in Alive
    <3>1. runtime[r].proc # "unborn" BY <2>1, <2>2, <2>5, TendedIsBorn
    <3>2. runtime[r].proc # "exited" BY <2>5 DEF Settled, Exited
    <3>. QED BY <3>1, <3>2, Types DEF IInv, Process, Proc, Alive
  <2>. QED BY <2>3, <2>4, <2>5
<1>3. runs \subseteq Runtimes BY Types DEF IInv
<1>. QED BY <1>2, <1>3

\* No step makes a process healthy that was not, but the registration of a runtime.
LEMMA NoneRises ==
    ASSUME SupervisorAssumption, IInv, [Next]_vars, NEW r \in Runtimes, health'[r].process
    PROVE  \/ health[r].process
           \/ thread[Watch(r)].pc = "off" /\ ~health[r].registered
<1>0. TypeOK BY DEF IInv
<1>1. CASE health' = health BY <1>1
<1>2. CASE HealthCalm BY <1>2 DEF HealthCalm
<1>3. CASE \E t \in Threads : RegisterRuntime(t)
  <2>1. PICK t \in Threads : RegisterRuntime(t) BY <1>3
  <2>2. Starts(thread[t]) BY <2>1 DEF RegisterRuntime, Starts
  <2>3. PICK x \in Runtimes : x = thread[t].run /\ Tends(t, x) /\ thread[Watch(x)].pc = "off"
    BY <2>2, StarterTends
  <2>4. CASE r = x
    <3>1. \A u \in Threads : Tends(u, r) => u = t BY <2>3, <2>4, Sole
    <3>2. ~Entered(thread[t]) BY <2>1 DEF RegisterRuntime, Entered, InRuns, Walks
    <3>. QED BY <3>1, <3>2, <2>3, <2>4 DEF IInv, Lists
  <2>5. CASE r # x BY <2>1, <2>3, <2>5, <1>0, Types DEF RegisterRuntime
  <2>. QED BY <2>4, <2>5
<1>4. CASE \E x \in Runtimes : Prune(x)
  <2>1. PICK x \in Runtimes : health' = [health EXCEPT ![x] = Unregistered] BY <1>4 DEF Prune, RemoveRuntime
  <2>2. CASE r = x BY <2>1, <2>2, <1>0, Types DEF Unregistered
  <2>3. CASE r # x BY <2>1, <2>3, <1>0, Types
  <2>. QED BY <2>2, <2>3
<1>5. \/ health' = health \/ HealthCalm
      \/ \E t \in Threads : RegisterRuntime(t)
      \/ \E x \in Runtimes : Prune(x)
  <2>1. CASE UNCHANGED vars BY <2>1 DEF vars
  <2>2. CASE Booting BY <2>2 DEF Booting, NextRound, BootSkips, BootStarts, Launch
  <2>3. ASSUME NEW t \in Threads, Starting(t) PROVE health' = health \/ RegisterRuntime(t)
    BY <2>3 DEF Starting, HandshakeOk, HandshakeFails, EnterRuns, ReportReady, Started, StartFailed
  <2>4. ASSUME NEW t \in Threads, Reconciling(t) PROVE health' = health \/ HealthCalm
    BY <2>4, <1>0, MarkIsCalm DEF Reconciling, Snapshot, LookRequired, LookOptional, ReportDependencies, EndPass
  <2>5. ASSUME NEW x \in Runtimes, Watching(x) PROVE health' = health \/ HealthCalm \/ Prune(x)
    BY <2>5, <1>0, MarkDeadIsCalm DEF Watching, WaitReturns, DropRun, ReportFailed, Restart, Launch
  <2>6. ASSUME NEW x \in Runtimes, Beating(x) \/ BeatKills(x) PROVE health' = health \/ HealthCalm
    BY <2>6, <1>0, MarkDeadIsCalm, RecordIsCalm DEF Beating, BeatEnds, Ping, BeatKills
  <2>7. ASSUME NEW x \in Runtimes, Processes(x) PROVE health' = health
    BY <2>7 DEF Processes, Exit, Stop, Hang, Unhang
  <2>. QED BY <2>1, <2>2, <2>3, <2>4, <2>5, <2>6, <2>7 DEF Next
<1>. QED BY <1>1, <1>2, <1>3, <1>4, <1>5

\* For any plugins, requirements, restarts and limits: the invariant of the supervisor.
THEOREM Invariance == Spec => []Inv
<1>1. Init => IInv BY SupervisorAssumption, Initially
<1>2. IInv /\ [Next]_vars => IInv' BY SupervisorAssumption, StepKeeps
<1>3. IInv => Inv BY SupervisorAssumption, AttemptsBound, NoneIsLost DEF Inv
<1>. QED BY <1>1, <1>2, <1>3, PTL DEF Spec

\* For any plugins and however starts, exits, kills and restarts interleave, a plugin
\* never has two live processes.
THEOREM OneProcessPerPlugin == Spec => []OneProcess
<1>1. Inv => OneProcess BY DEF Inv, IInv
<1>. QED BY <1>1, Invariance, PTL

\* A runtime that is lost never becomes routable again, for any number of them.
THEOREM LostForGood == Spec => DeadStaysDead
<1>1. ASSUME Inv, [Next]_vars, NEW r \in Runtimes,
             \/ thread[Watch(r)].pc \notin {"off", "wait"}
             \/ health[r].registered /\ ~health[r].process
      PROVE  ~Healthy(r)'
  <2>1. ~health[r].process BY <1>1 DEF Inv, IInv, Lists
  <2>2. thread[Watch(r)].pc # "off" \/ health[r].registered BY <1>1
  <2>3. ~health'[r].process BY <2>1, <2>2, <1>1, SupervisorAssumption, NoneRises DEF Inv
  <2>. QED BY <2>3 DEF Healthy
<1>2. Inv /\ [Next]_vars =>
        [\A r \in Runtimes :
           \/ thread[Watch(r)].pc \notin {"off", "wait"}
           \/ health[r].registered /\ ~health[r].process
           => ~Healthy(r)']_vars
  BY <1>1
<1>. QED BY <1>2, Invariance, PTL DEF Spec, DeadStaysDead
=============================================================================
