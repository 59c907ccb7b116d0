---- MODULE PluginProofs ----
(* Workspaces and agent runs, for any number of them, of callers, failures and restarts. *)
EXTENDS Workspace, AgentRun, FiniteSetTheorems, WellFoundedInduction, TLAPS

Core == TypeOK /\ CallInv /\ LogInv

\* A deletion that the memory knows of is on record, and has happened.
LEMMA OnRecord == ASSUME TypeOK, LogInv PROVE DeletedIsGone
BY DEF TypeOK, LogInv, DeletedIsGone

\* A new plugin has nothing (main.go).
LEMMA Initially == ASSUME WorkspaceAssumption, Init PROVE Core
<1>1. \A w \in Workspaces : log[w] = <<>> /\ DOMAIN log[w] = {} BY DEF Init
<1>2. \A c \in Callers : call[c] = Idle /\ At(c, "idle") BY DEF Init, Idle, At
<1>3. DOMAIN refs = {} /\ refs \in [DOMAIN refs -> Refs] BY DEF Init
<1>4. <<>> \in Seq(Records) OBVIOUS
<1>5. TypeOK
  BY <1>1, <1>2, <1>3, <1>4 DEF WorkspaceAssumption, Init, TypeOK, At
<1>6. CallInv BY <1>2 DEF CallInv, Adds, Frees
<1>7. LogInv BY <1>1, <1>3 DEF LogInv, Deleted
<1>. QED BY <1>5, <1>6, <1>7 DEF Core

\* What the calls in progress are.
LEMMA CallFacts ==
  ASSUME TypeOK, NEW c \in Callers
  PROVE  /\ At(c, "idle") => call[c] = Idle
         /\ ~ At(c, "idle") => call[c] \in Calls
         /\ Adds(c) <=> call[c] \in Calls /\ call[c].policy = ""
         /\ Frees(c) <=> call[c] \in Calls /\ call[c].policy # ""
<1>1. call[c] = Idle \/ call[c] \in Calls BY DEF TypeOK
<1>2. Idle.pc = "idle" BY DEF Idle
<1>3. \A k \in Calls : k.pc # "idle" /\ (k.first = "add" <=> k.policy = "") BY DEF Calls
<1>. QED BY <1>1, <1>2, <1>3 DEF At, Adds, Frees

\* A line added to the log of a workspace.
LEMMA Added ==
  ASSUME NEW l \in Seq(Records), NEW r \in Records
  PROVE  /\ Append(l, r) \in Seq(Records) /\ Append(l, r) # <<>>
         /\ Len(l) \in Nat /\ DOMAIN l = 1 .. Len(l)
         /\ Len(Append(l, r)) = Len(l) + 1
         /\ DOMAIN Append(l, r) = 1 .. Len(l) + 1
         /\ \A i \in DOMAIN l : Append(l, r)[i] = l[i]
         /\ Append(l, r)[Len(l) + 1] = r
         /\ l = <<>> <=> Len(l) = 0
<1> SUFFICES ASSUME NEW T, NEW m \in Seq(T), NEW t \in T
             PROVE  /\ Append(m, t) \in Seq(T) /\ Append(m, t) # <<>>
                    /\ Len(m) \in Nat /\ DOMAIN m = 1 .. Len(m)
                    /\ Len(Append(m, t)) = Len(m) + 1
                    /\ DOMAIN Append(m, t) = 1 .. Len(m) + 1
                    /\ \A i \in DOMAIN m : Append(m, t)[i] = m[i]
                    /\ Append(m, t)[Len(m) + 1] = t
                    /\ m = <<>> <=> Len(m) = 0
  OBVIOUS
<1>. QED OBVIOUS

\* What a successful append makes of memory and log.
LEMMA AppendFacts ==
  ASSUME TypeOK, NEW w \in Workspaces, NEW rec \in Records,
         rec.op = "allocated" \/ w \in DOMAIN refs,
         AppendOk(w, rec)
  PROVE  /\ log' = [log EXCEPT ![w] = Append(log[w], rec)] /\ faults' = faults
         /\ DOMAIN refs' = DOMAIN refs \cup {w}
         /\ refs' \in [DOMAIN refs' -> Refs]
         /\ \A x \in DOMAIN refs \ {w} : refs'[x] = refs[x]
         /\ IF rec.op = "allocated" THEN refs'[w].status = "ALLOCATED" /\ refs'[w].policy = ""
            ELSE refs'[w].status = "RELEASED" /\ refs'[w].policy = rec.op
<1> DEFINE old == IF w \in DOMAIN refs THEN refs[w] ELSE <<>>
           new == Apply(rec, old)
<1>1. new \in Refs
  <2>1. CASE rec.op = "allocated" BY <2>1 DEF Apply, Records, Refs
  <2>2. CASE rec.op # "allocated"
    <3>1. refs[w] \in Refs BY <2>2 DEF TypeOK
    <3>2. rec.op \in {"preserve", "delete"} /\ rec.at \in Instants BY <2>2 DEF Records
    <3>3. [refs[w] EXCEPT !.status = "RELEASED", !.policy = rec.op, !.releasedAt = rec.at] \in Refs
      BY <3>1, <3>2 DEF Refs
    <3>. QED BY <2>2, <3>3 DEF Apply
  <2>. QED BY <2>1, <2>2
<1>2. IF rec.op = "allocated" THEN new.status = "ALLOCATED" /\ new.policy = ""
      ELSE new.status = "RELEASED" /\ new.policy = rec.op
  <2>1. CASE rec.op # "allocated"
    <3>1. refs[w] \in Refs BY <2>1 DEF TypeOK
    <3>. QED BY <2>1, <3>1 DEF Apply, Refs
  <2>. QED BY <2>1 DEF Apply
<1>3. refs' = [x \in DOMAIN refs \cup {w} |-> IF x = w THEN new ELSE refs[x]]
  BY DEF AppendOk
<1> HIDE DEF new
<1>4. \A x \in DOMAIN refs : refs[x] \in Refs BY DEF TypeOK
<1>5. DOMAIN refs' = DOMAIN refs \cup {w} /\ refs'[w] = new BY <1>3
<1>6. refs' \in [DOMAIN refs' -> Refs] BY <1>1, <1>3, <1>4
<1>. QED BY <1>2, <1>3, <1>5, <1>6 DEF AppendOk

-----------------------------------------------------------------------------
\* The steps a call can be at, by what it is for.
Steps(k) ==
  IF k.first = "add" THEN {"enter", "add", "allocated", "undo", "unbranch"}
  ELSE IF k.first = "remove" THEN {"enter", "remove", "branch", "released"}
  ELSE {"enter", "released"}

LEMMA CallFields ==
  ASSUME NEW k \in Calls
  PROVE  /\ k.pc \in Steps(k) /\ k.ws \in Workspaces
         /\ k.policy = IF k.first = "add" THEN "" ELSE IF k.first = "remove" THEN "delete"
                       ELSE "preserve"
         /\ k.first \in {"add", "remove", "released"}
         /\ k.first = "add" => k.at \in Instants
BY DEF Calls, Steps

\* A call that goes on: its step changes, and nothing else of it.
LEMMA Gone ==
  ASSUME NEW k \in Calls, NEW pc \in Steps(k)
  PROVE  LET n == [k EXCEPT !.pc = pc] IN
         n \in Calls /\ n.pc = pc /\ n.first = k.first /\ n.ws = k.ws /\ n.policy = k.policy
<1>1. CASE k.first = "add"
  <2>1. k \in [pc : {"enter", "add", "allocated", "undo", "unbranch"}, first : {"add"},
               ws : Workspaces, policy : {""}, at : Instants]
    BY <1>1 DEF Calls
  <2>2. pc \in {"enter", "add", "allocated", "undo", "unbranch"} BY <1>1 DEF Steps
  <2>3. [k EXCEPT !.pc = pc] \in [pc : {"enter", "add", "allocated", "undo", "unbranch"},
               first : {"add"}, ws : Workspaces, policy : {""}, at : Instants]
    BY <2>1, <2>2
  <2>. QED BY <2>1, <2>3 DEF Calls
<1>2. CASE k.first = "remove"
  <2>1. k \in [pc : {"enter", "remove", "branch", "released"}, first : {"remove"},
               ws : Workspaces, policy : {"delete"}, at : {Never}]
    BY <1>2 DEF Calls
  <2>2. pc \in {"enter", "remove", "branch", "released"} BY <1>2 DEF Steps
  <2>3. [k EXCEPT !.pc = pc] \in [pc : {"enter", "remove", "branch", "released"},
               first : {"remove"}, ws : Workspaces, policy : {"delete"}, at : {Never}]
    BY <2>1, <2>2
  <2>. QED BY <2>1, <2>3 DEF Calls
<1>3. CASE k.first = "released"
  <2>1. k \in [pc : {"enter", "released"}, first : {"released"},
               ws : Workspaces, policy : {"preserve"}, at : {Never}]
    BY <1>3 DEF Calls
  <2>2. pc \in {"enter", "released"} BY <1>3 DEF Steps
  <2>3. [k EXCEPT !.pc = pc] \in [pc : {"enter", "released"}, first : {"released"},
               ws : Workspaces, policy : {"preserve"}, at : {Never}]
    BY <2>1, <2>2
  <2>. QED BY <2>1, <2>3 DEF Calls
<1>. QED BY <1>1, <1>2, <1>3, CallFields

\* The types after a step of one caller.
LEMMA Typed ==
  ASSUME TypeOK, NEW c \in Callers, NEW k \in {Idle} \cup Calls,
         call' = [call EXCEPT ![c] = k],
         \/ k.pc \in {"idle", "enter"} /\ fence = c /\ fence' = Nobody
         \/ k.pc \in {"idle", "enter"} /\ fence # c /\ fence' = fence
         \/ k.pc \notin {"idle", "enter"} /\ fence \in {c, Nobody} /\ fence' = c,
         Nobody \notin Callers
  PROVE  /\ fence' \in Callers \cup {Nobody}
         /\ call' \in [Callers -> {Idle} \cup Calls]
         /\ \A d \in Callers : fence' = d <=> ~ At(d, "idle")' /\ ~ At(d, "enter")'
         /\ \A d \in Callers \ {c} : call'[d] = call[d]
         /\ call'[c] = k
<1>1. call \in [Callers -> {Idle} \cup Calls] BY DEF TypeOK
<1>2. /\ call' \in [Callers -> {Idle} \cup Calls] /\ call'[c] = k
      /\ \A d \in Callers \ {c} : call'[d] = call[d]
  BY <1>1
<1>3. \A d \in Callers : fence = d <=> ~ At(d, "idle") /\ ~ At(d, "enter") BY DEF TypeOK
<1>4. ASSUME NEW d \in Callers PROVE fence' = d <=> ~ At(d, "idle")' /\ ~ At(d, "enter")'
  <2>1. CASE d = c BY <1>2, <2>1 DEF At
  <2>2. CASE d # c BY <1>2, <1>3, <2>2 DEF At
  <2>. QED BY <2>1, <2>2
<1>. QED BY <1>2, <1>4 DEF TypeOK

\* What a caller is doing when only the step of its call changes.
LEMMA SameCall ==
  ASSUME TypeOK, NEW c \in Callers, NEW k \in Calls, call[c] \in Calls,
         call' = [call EXCEPT ![c] = k], k.first = call[c].first,
         k.ws = call[c].ws, k.policy = call[c].policy
  PROVE  \A d \in Callers :
           /\ Adds(d)' <=> Adds(d)
           /\ Frees(d)' <=> Frees(d)
           /\ ~ At(d, "idle") => /\ call'[d].ws = call[d].ws
                                 /\ call'[d].policy = call[d].policy
<1>1. \A d \in Callers : call'[d] = IF d = c THEN k ELSE call[d] BY DEF TypeOK
<1>2. k.pc # "idle" /\ call[c].pc # "idle" BY CallFields DEF Steps
<1>. QED BY <1>1, <1>2 DEF Adds, Frees, At

\* WithWriteFence lets a call in.
LEMMA EnterStep ==
  ASSUME WorkspaceAssumption, Core, NEW c \in Callers, Enter(c)
  PROVE  Core'
<1> DEFINE k == [call[c] EXCEPT !.pc = call[c].first]
<1>1. call[c] \in Calls BY DEF Core, TypeOK, Enter, At, Idle
<1>2. k \in Calls /\ k.pc = call[c].first /\ k.first = call[c].first /\ k.ws = call[c].ws
      /\ k.policy = call[c].policy
  <2>1. call[c].first \in Steps(call[c]) BY <1>1, CallFields DEF Steps
  <2>. QED BY <1>1, <2>1, Gone
<1>3. call' = [call EXCEPT ![c] = k] BY DEF Enter, Goes
<1>4. k.pc \notin {"idle", "enter"} BY <1>1, <1>2, CallFields
<1> HIDE DEF k
<1>5. TypeOK'
  BY <1>2, <1>3, <1>4, Typed DEF Core, TypeOK, Enter, Waits, WorkspaceAssumption, store
<1>6. \A d \in Callers :
           /\ Adds(d)' <=> Adds(d)
           /\ Frees(d)' <=> Frees(d)
           /\ ~ At(d, "idle") => /\ call'[d].ws = call[d].ws
                                 /\ call'[d].policy = call[d].policy
  BY <1>1, <1>2, <1>3, SameCall DEF Core
<1>7. \A d \in Callers : /\ Undoes(d)' <=> Undoes(d)
                         /\ At(d, "unbranch")' <=> At(d, "unbranch")
                         /\ At(d, "allocated")' <=> At(d, "allocated")
                         /\ HasRemoved(d)' <=> HasRemoved(d)
  <2>1. \A d \in Callers : call'[d] = IF d = c THEN k ELSE call[d]
    BY <1>3 DEF Core, TypeOK
  <2>2. /\ call[c].pc = "enter" /\ k.pc \in {"add", "remove", "released"}
        /\ k.pc = "released" => k.policy # "delete"
    BY <1>1, <1>2, CallFields DEF Enter, At
  <2>. QED BY <2>1, <2>2 DEF At, HasRemoved, Undoes
<1>8. CallInv'
  BY <1>6, <1>7 DEF Core, CallInv, Enter, store, Adds, Frees
<1>9. LogInv' BY DEF Core, LogInv, Deleted, Enter, store
<1>. QED BY <1>5, <1>8, <1>9 DEF Core

\* The fence refuses a call, which has done nothing.
LEMMA RefusedStep ==
  ASSUME WorkspaceAssumption, Core, NEW c \in Callers, Refused(c)
  PROVE  Core'
<1>1. call' = [call EXCEPT ![c] = Idle] /\ Idle.pc = "idle" BY DEF Refused, Returns, Idle
<1>2. TypeOK'
  <2>1. fence # c BY DEF Core, TypeOK, Refused, At
  <2>. QED BY <1>1, <2>1, Typed DEF Core, TypeOK, Refused, WorkspaceAssumption, store
<1>3. \A d \in Callers : call'[d] = IF d = c THEN Idle ELSE call[d]
  BY <1>1 DEF Core, TypeOK
<1>4. CallInv' BY <1>1, <1>3 DEF Core, CallInv, Refused, store, Adds, Frees, HasRemoved, Undoes, At
<1>5. LogInv' BY DEF Core, LogInv, Deleted, Refused, store
<1>. QED BY <1>2, <1>4, <1>5 DEF Core

\* An allocation has drawn an id that is new.
LEMMA AllocateStep ==
  ASSUME WorkspaceAssumption, Core, NEW c \in Callers, NEW w \in Workspaces, Allocate(c, w)
  PROVE  Core'
<1> DEFINE k == [pc |-> "enter", first |-> "add", ws |-> w, policy |-> "", at |-> now]
<1>1. /\ k \in Calls /\ k.pc = "enter" /\ k.first = "add" /\ k.ws = w
      /\ call' = [call EXCEPT ![c] = k]
  BY DEF Core, TypeOK, Calls, Allocate
<1> HIDE DEF k
<1>2. \A d \in Callers : call'[d] = IF d = c THEN k ELSE call[d]
  BY <1>1 DEF Core, TypeOK
<1>3. w \notin used /\ used' = used \cup {w} /\ w \notin DOMAIN refs /\ log[w] = <<>>
  BY DEF Core, TypeOK, LogInv, Allocate
<1>4. TypeOK'
  <2>1. fence # c BY DEF Core, TypeOK, Allocate, At
  <2>. QED BY <1>1, <2>1, Typed DEF Core, TypeOK, Allocate, WorkspaceAssumption, store
<1>5. CallInv'
  <2>1. git' = git /\ refs' = refs /\ log' = log /\ faults' = faults
    BY DEF Allocate, store
  <2>2. /\ ~ At(c, "idle")' /\ ~ Undoes(c)' /\ ~ At(c, "unbranch")'
        /\ ~ At(c, "allocated")' /\ Adds(c)' /\ call'[c].ws = w
    BY <1>1, <1>2 DEF At, Adds, Undoes
  <2>3. \A d \in Callers \ {c} : Adds(d)' <=> Adds(d) BY <1>2 DEF Adds, At
  <2>4. \A d \in Callers : Frees(d)' => d # c /\ Frees(d) BY <1>2, <2>2 DEF Frees, Adds, At
  <2>5. \A d \in Callers \ {c} : /\ Undoes(d)' <=> Undoes(d)
                                 /\ At(d, "unbranch")' <=> At(d, "unbranch")
                                 /\ At(d, "allocated")' <=> At(d, "allocated")
    BY <1>2 DEF At, Undoes
  <2>6. \A d \in Callers : Adds(d) => call[d].ws \in used \ DOMAIN refs BY DEF Core, CallInv
  <2>7. ASSUME NEW d \in Callers, Adds(d)'
        PROVE  /\ call'[d].ws \in used' \ DOMAIN refs'
               /\ IF Undoes(d)' THEN faults' > 0 ELSE log'[call'[d].ws] = <<>>
               /\ At(d, "unbranch")' /\ git'[call'[d].ws] = "worktree" => faults' > 1
               /\ At(d, "allocated")' => git'[call'[d].ws] = "worktree"
               /\ \A e \in Callers \ {d} : Adds(e)' => call'[e].ws # call'[d].ws
    <3>1. CASE d = c BY <1>2, <1>3, <2>1, <2>2, <2>3, <2>6, <3>1
    <3>2. CASE d # c
      <4>1. Adds(d) /\ call'[d] = call[d] BY <1>2, <2>3, <2>7, <3>2
      <4>2. /\ call[d].ws \in used \ DOMAIN refs
            /\ IF Undoes(d) THEN faults > 0 ELSE log[call[d].ws] = <<>>
            /\ At(d, "unbranch") /\ git[call[d].ws] = "worktree" => faults > 1
            /\ At(d, "allocated") => git[call[d].ws] = "worktree"
            /\ \A e \in Callers \ {d} : Adds(e) => call[e].ws # call[d].ws
        BY <4>1 DEF Core, CallInv
      <4>3. \A e \in Callers \ {d} : Adds(e)' => call'[e].ws # call'[d].ws
        BY <1>2, <1>3, <2>2, <2>3, <4>1, <4>2
      <4>4. call'[d].ws \in used' \ DOMAIN refs' BY <1>3, <2>1, <4>1, <4>2
      <4>5. /\ IF Undoes(d)' THEN faults' > 0 ELSE log'[call'[d].ws] = <<>>
            /\ At(d, "unbranch")' /\ git'[call'[d].ws] = "worktree" => faults' > 1
        BY <2>1, <2>5, <3>2, <4>1, <4>2
      <4>6. At(d, "allocated")' => git'[call'[d].ws] = "worktree"
        BY <2>1, <2>5, <3>2, <4>1, <4>2
      <4>. QED BY <4>3, <4>4, <4>5, <4>6
    <3>. QED BY <3>1, <3>2
  <2>8. ASSUME NEW d \in Callers, Frees(d)'
        PROVE  /\ call'[d].ws \in DOMAIN refs'
               /\ HasRemoved(d)' => git'[call'[d].ws] # "worktree"
    BY <1>2, <2>1, <2>4, <2>8 DEF Core, CallInv, At, HasRemoved
  <2>. QED BY <2>7, <2>8 DEF CallInv
<1>6. LogInv' BY <1>3 DEF Core, LogInv, Deleted, Allocate, store
<1>. QED BY <1>4, <1>5, <1>6 DEF Core

\* A release has found a workspace that is allocated.
LEMMA LookStep ==
  ASSUME WorkspaceAssumption, Core, NEW c \in Callers, NEW w \in Workspaces,
         NEW policy \in {"preserve", "delete"}, Look(c, w, policy)
  PROVE  Core'
<1> DEFINE k == [pc |-> "enter", first |-> IF policy = "delete" THEN "remove" ELSE "released",
                 ws |-> w, policy |-> policy, at |-> Never]
<1>1. /\ k \in Calls /\ k.pc = "enter" /\ k.first # "add" /\ k.ws = w
      /\ call' = [call EXCEPT ![c] = k]
  BY DEF Calls, Look
<1> HIDE DEF k
<1>2. \A d \in Callers : call'[d] = IF d = c THEN k ELSE call[d]
  BY <1>1 DEF Core, TypeOK
<1>3. fence # c BY DEF Core, TypeOK, Look, At
<1>4. TypeOK'
  BY <1>1, <1>3, Typed DEF Core, TypeOK, Look, WorkspaceAssumption, store
<1>5. CallInv'
  BY <1>1, <1>2 DEF Core, CallInv, Look, store, Adds, Frees, HasRemoved, Undoes, At
<1>6. LogInv' BY DEF Core, LogInv, Deleted, Look, store
<1>. QED BY <1>4, <1>5, <1>6 DEF Core

LEMMA TickStep == ASSUME Core, Tick PROVE Core'
<1>1. TypeOK' BY DEF Core, TypeOK, Tick, At
<1>2. CallInv' BY DEF Core, CallInv, Tick, Adds, Frees, HasRemoved, Undoes, At
<1>3. LogInv' BY DEF Core, LogInv, Deleted, Tick
<1>. QED BY <1>1, <1>2, <1>3 DEF Core

\* Inside the fence there is one caller, and the others wait or are idle.
LEMMA Alone ==
  ASSUME Core, NEW c \in Callers, ~ At(c, "idle"), ~ At(c, "enter")
  PROVE  /\ fence = c /\ call[c] \in Calls
         /\ \A d \in Callers \ {c} : At(d, "idle") \/ At(d, "enter")
BY DEF Core, TypeOK, At, Idle

\* A call leaves the fence: what is left to show when log and refs stay or grow as
\* they may, and the trees of other workspaces stay.
LEMMA LeaveCalls ==
  ASSUME WorkspaceAssumption, Core, NEW c \in Callers, fence = c, Leaves(c),
         used' = used,
         DOMAIN refs \subseteq DOMAIN refs',
         faults' >= faults,
         \A d \in Callers \ {c} : Adds(d) =>
           call[d].ws \notin DOMAIN refs' /\ log'[call[d].ws] = log[call[d].ws]
  PROVE  /\ CallInv'
         /\ fence' \in Callers \cup {Nobody}
         /\ call' \in [Callers -> {Idle} \cup Calls]
         /\ \A d \in Callers : fence' = d <=> ~ At(d, "idle")' /\ ~ At(d, "enter")'
<1>1. call' = [call EXCEPT ![c] = Idle] /\ fence' = Nobody /\ Idle.pc = "idle"
  BY DEF Leaves, Returns, Idle
<1>2. \A d \in Callers : call'[d] = IF d = c THEN Idle ELSE call[d]
  BY <1>1 DEF Core, TypeOK
<1>3. \A d \in Callers \ {c} : At(d, "idle") \/ At(d, "enter") BY DEF Core, TypeOK
<1>4. \A d \in Callers : (Adds(d)' => Adds(d) /\ d # c) /\ (Frees(d)' => Frees(d) /\ d # c)
  BY <1>1, <1>2 DEF Adds, Frees, At
<1>5. ASSUME NEW d \in Callers, Adds(d)'
      PROVE  /\ call'[d].ws \in used' \ DOMAIN refs'
             /\ IF Undoes(d)' THEN faults' > 0 ELSE log'[call'[d].ws] = <<>>
             /\ At(d, "unbranch")' /\ git'[call'[d].ws] = "worktree" => faults' > 1
             /\ At(d, "allocated")' => git'[call'[d].ws] = "worktree"
             /\ \A e \in Callers \ {d} : Adds(e)' => call'[e].ws # call'[d].ws
  <2>1. d # c /\ Adds(d) /\ call'[d] = call[d] BY <1>2, <1>4, <1>5
  <2>2. /\ At(d, "enter") /\ ~ Undoes(d) /\ ~ Undoes(d)'
        /\ ~ At(d, "unbranch")' /\ ~ At(d, "allocated")'
    BY <1>3, <2>1 DEF At, Adds, Undoes
  <2>3. /\ call[d].ws \in used \ DOMAIN refs /\ log[call[d].ws] = <<>>
        /\ \A e \in Callers \ {d} : Adds(e) => call[e].ws # call[d].ws
    BY <2>1, <2>2 DEF Core, CallInv
  <2>4. \A e \in Callers \ {d} : Adds(e)' => call'[e].ws # call'[d].ws
    BY <1>2, <1>4, <2>1, <2>3
  <2>. QED BY <2>1, <2>2, <2>3, <2>4
<1>6. ASSUME NEW d \in Callers, Frees(d)'
      PROVE  /\ call'[d].ws \in DOMAIN refs'
             /\ ~ At(d, "branch")' /\ ~ At(d, "released")'
  <2>1. d # c /\ Frees(d) /\ call'[d] = call[d] BY <1>2, <1>4, <1>6
  <2>2. At(d, "enter")' BY <1>3, <2>1 DEF At, Frees
  <2>3. call[d].ws \in DOMAIN refs BY <2>1 DEF Core, CallInv
  <2>. QED BY <2>1, <2>2, <2>3 DEF At
<1>7. CallInv' BY <1>5, <1>6 DEF CallInv, HasRemoved
<1>8. /\ fence' \in Callers \cup {Nobody}
      /\ call' \in [Callers -> {Idle} \cup Calls]
      /\ \A d \in Callers : fence' = d <=> ~ At(d, "idle")' /\ ~ At(d, "enter")'
  BY <1>1, Typed DEF Core, WorkspaceAssumption
<1>. QED BY <1>7, <1>8

\* A call goes on inside the fence, and log and refs stay.
LEMMA GoCalls ==
  ASSUME WorkspaceAssumption, Core, NEW c \in Callers, fence = c,
         NEW pc \in {"allocated", "undo", "unbranch", "branch", "released"}, pc \in Steps(call[c]),
         Goes(c, pc), fence' = fence,
         used' = used, DOMAIN refs' = DOMAIN refs, faults' >= faults,
         Adds(c) => IF pc \in {"undo", "unbranch"} THEN faults' > 0
                    ELSE log'[call[c].ws] = <<>> /\ git'[call[c].ws] = "worktree",
         pc = "unbranch" => git'[call[c].ws] # "worktree" \/ faults' > 1,
         Frees(c) => (call[c].policy = "delete" => git'[call[c].ws] # "worktree"),
         \A d \in Callers \ {c} : Adds(d) => log'[call[d].ws] = log[call[d].ws]
  PROVE  /\ CallInv'
         /\ fence' \in Callers \cup {Nobody}
         /\ call' \in [Callers -> {Idle} \cup Calls]
         /\ \A d \in Callers : fence' = d <=> ~ At(d, "idle")' /\ ~ At(d, "enter")'
         /\ Frees(c)' <=> Frees(c)
         /\ call'[c].ws = call[c].ws /\ call'[c].policy = call[c].policy
<1> DEFINE k == [call[c] EXCEPT !.pc = pc]
<1>0. call[c] \in Calls BY DEF Core, TypeOK, At, Idle
<1>1. k \in Calls /\ k.pc = pc /\ k.first = call[c].first /\ k.ws = call[c].ws
      /\ k.policy = call[c].policy
  BY <1>0, Gone
<1>2. call' = [call EXCEPT ![c] = k] BY DEF Goes
<1> HIDE DEF k
<1>3. \A d \in Callers : call'[d] = IF d = c THEN k ELSE call[d]
  BY <1>2 DEF Core, TypeOK
<1>4. \A d \in Callers \ {c} : At(d, "idle") \/ At(d, "enter") BY DEF Core, TypeOK
<1>5. \A d \in Callers :
           /\ Adds(d)' <=> Adds(d)
           /\ Frees(d)' <=> Frees(d)
           /\ ~ At(d, "idle") => /\ call'[d].ws = call[d].ws
                                 /\ call'[d].policy = call[d].policy
  BY <1>0, <1>1, <1>2, SameCall DEF Core
<1>6. ASSUME NEW d \in Callers, Adds(d)'
      PROVE  /\ call'[d].ws \in used' \ DOMAIN refs'
             /\ IF Undoes(d)' THEN faults' > 0 ELSE log'[call'[d].ws] = <<>>
             /\ At(d, "unbranch")' /\ git'[call'[d].ws] = "worktree" => faults' > 1
             /\ At(d, "allocated")' => git'[call'[d].ws] = "worktree"
             /\ \A e \in Callers \ {d} : Adds(e)' => call'[e].ws # call'[d].ws
  <2>1. Adds(d) /\ call'[d].ws = call[d].ws BY <1>5, <1>6 DEF Adds
  <2>2. /\ call[d].ws \in used \ DOMAIN refs
        /\ \A e \in Callers \ {d} : Adds(e) => call[e].ws # call[d].ws
    BY <2>1 DEF Core, CallInv
  <2>3. \A e \in Callers \ {d} : Adds(e)' => call'[e].ws # call'[d].ws
    BY <1>5, <2>1, <2>2 DEF Adds
  <2>4. /\ IF Undoes(d)' THEN faults' > 0 ELSE log'[call'[d].ws] = <<>>
        /\ At(d, "unbranch")' /\ git'[call'[d].ws] = "worktree" => faults' > 1
        /\ At(d, "allocated")' => git'[call'[d].ws] = "worktree"
    <3>1. CASE d = c BY <1>1, <1>3, <2>1, <3>1 DEF At, Undoes
    <3>2. CASE d # c
      <4>1. /\ At(d, "enter") /\ ~ Undoes(d) /\ ~ Undoes(d)'
            /\ ~ At(d, "unbranch")' /\ ~ At(d, "allocated")'
        BY <1>3, <1>4, <2>1, <3>2 DEF At, Adds, Undoes
      <4>2. log[call[d].ws] = <<>> BY <2>1, <4>1 DEF Core, CallInv
      <4>. QED BY <2>1, <3>2, <4>1, <4>2
    <3>. QED BY <3>1, <3>2
  <2>. QED BY <2>1, <2>2, <2>3, <2>4
<1>7. ASSUME NEW d \in Callers, Frees(d)'
      PROVE  /\ call'[d].ws \in DOMAIN refs'
             /\ HasRemoved(d)' => git'[call'[d].ws] # "worktree"
  <2>1. Frees(d) /\ call'[d].ws = call[d].ws /\ call'[d].policy = call[d].policy
    BY <1>5, <1>7 DEF Frees
  <2>2. call[d].ws \in DOMAIN refs BY <2>1 DEF Core, CallInv
  <2>3. CASE d = c
    <3>1. HasRemoved(c)' => call'[c].policy = "delete"
      BY <1>1, <1>3, CallFields DEF HasRemoved, At, Steps
    <3>. QED BY <2>1, <2>2, <2>3, <3>1
  <2>4. CASE d # c
    <3>1. ~ HasRemoved(d)' BY <1>3, <1>4, <2>1, <2>4 DEF At, Frees, HasRemoved
    <3>. QED BY <2>1, <2>2, <3>1
  <2>. QED BY <2>3, <2>4
<1>8. CallInv' BY <1>6, <1>7 DEF CallInv
<1>9. /\ fence' \in Callers \cup {Nobody}
      /\ call' \in [Callers -> {Idle} \cup Calls]
      /\ \A d \in Callers : fence' = d <=> ~ At(d, "idle")' /\ ~ At(d, "enter")'
  BY <1>1, <1>2, Typed DEF Core, WorkspaceAssumption
<1>. QED BY <1>1, <1>3, <1>5, <1>8, <1>9

\* Until its record is written nothing is known of a new workspace, and nobody else has it.
LEMMA Adding ==
  ASSUME Core, NEW c \in Callers, Adds(c), ~ At(c, "enter")
  PROVE  /\ fence = c /\ call[c] \in Calls /\ call[c].first = "add"
         /\ At(c, "allocated") => git[call[c].ws] = "worktree"
         /\ call[c].ws \in Workspaces /\ call[c].ws \in used \ DOMAIN refs
         /\ \A d \in Callers \ {c} : Adds(d) => call[d].ws # call[c].ws
         /\ Undoes(c) => faults > 0
         /\ At(c, "unbranch") /\ git[call[c].ws] = "worktree" => faults > 1
<1>1. fence = c /\ call[c] \in Calls BY Alone DEF Adds
<1>2. call[c].ws \in Workspaces BY <1>1, CallFields
<1>. QED BY <1>1, <1>2 DEF Core, CallInv, Adds

\* addWorktree.
LEMMA AddStep ==
  ASSUME WorkspaceAssumption, Core, NEW c \in Callers, AddWorktree(c)
  PROVE  Core'
<1> DEFINE w == call[c].ws
<1>1. /\ At(c, "add") /\ log' = log /\ refs' = refs /\ used' = used
      /\ now' = now /\ crashes' = crashes
  BY DEF AddWorktree, store
<1>2. Adds(c) /\ ~ At(c, "enter") /\ ~ Undoes(c)
  <2>1. call[c] \in Calls /\ ~ At(c, "idle") BY <1>1 DEF Core, TypeOK, At, Idle
  <2>. QED BY <1>1, <2>1, CallFields DEF At, Adds, Steps, Undoes
<1>3. /\ fence = c /\ call[c] \in Calls /\ call[c].first = "add"
      /\ w \in Workspaces /\ w \in used \ DOMAIN refs
      /\ \A d \in Callers \ {c} : Adds(d) => call[d].ws # w
  BY <1>2, Adding
<1>4. log[w] = <<>> BY <1>2, <1>3 DEF Core, CallInv
<1>5. faults' \in 0 .. MaxFaults /\ faults' >= faults
  BY DEF AddWorktree, Fault, TwoFaults, Core, TypeOK, WorkspaceAssumption
<1>6. PICK g \in {"nothing", "branch", "worktree"} : git' = [git EXCEPT ![w] = g]
  BY DEF AddWorktree
<1>7. /\ CallInv'
      /\ fence' \in Callers \cup {Nobody}
      /\ call' \in [Callers -> {Idle} \cup Calls]
      /\ \A d \in Callers : fence' = d <=> ~ At(d, "idle")' /\ ~ At(d, "enter")'
  <2>1. CASE Goes(c, "allocated") /\ fence' = fence
    <3>1. ~ Frees(c) BY <1>3 DEF Frees
    <3>2. git'[w] = "worktree"
      BY <1>3, <2>1
         DEF AddWorktree, Leaves, Returns, Goes, Core, TypeOK, Nobody, WorkspaceAssumption
    <3>. QED BY <1>1, <1>3, <1>4, <1>5, <2>1, <3>1, <3>2, GoCalls DEF Steps
  <2>2. CASE Leaves(c)
    BY <1>1, <1>3, <1>5, <2>2, LeaveCalls DEF Core, CallInv
  <2>. QED BY <2>1, <2>2 DEF AddWorktree
<1>8. TypeOK' BY <1>1, <1>3, <1>5, <1>6, <1>7 DEF Core, TypeOK
<1>9. \A x \in Workspaces : Deleted(x)' <=> Deleted(x) BY <1>1 DEF Deleted
<1>10. ~ Deleted(w) BY <1>4 DEF Deleted
<1>11. \A x \in Workspaces \ {w} : git'[x] = git[x] BY <1>6 DEF Core, TypeOK
<1>12. LogInv'
  <2>1. \A x \in Workspaces : Deleted(x)' => git'[x] # "worktree"
    BY <1>9, <1>10, <1>11 DEF Core, LogInv
  <2>. QED BY <1>1, <2>1 DEF Core, LogInv, Deleted
<1>. QED BY <1>7, <1>8, <1>12 DEF Core

\* The repair after a record that could not be written: nothing is known of the workspace.
LEMMA Undoing ==
  ASSUME Core, NEW c \in Callers, Undoes(c)
  PROVE  /\ Adds(c) /\ ~ At(c, "enter") /\ fence = c /\ call[c] \in Calls
         /\ "unbranch" \in Steps(call[c]) /\ ~ Frees(c) /\ faults > 0
         /\ call[c].ws \in Workspaces /\ call[c].ws \notin DOMAIN refs
         /\ \A d \in Callers \ {c} : Adds(d) => call[d].ws # call[c].ws
<1>1. call[c] \in Calls /\ ~ At(c, "idle") BY DEF Core, TypeOK, At, Idle, Undoes
<1>2. Adds(c) /\ ~ At(c, "enter") /\ call[c].first = "add"
  BY <1>1, CallFields DEF At, Adds, Steps, Undoes
<1>3. fence = c BY <1>1, <1>2 DEF Core, TypeOK
<1>. QED BY <1>1, <1>2, <1>3, CallFields DEF Core, CallInv, Frees, Steps

\* A step of the repair leaves no tree where there was none.
LEMMA UndoKeeps ==
  ASSUME WorkspaceAssumption, Core, NEW c \in Callers, Undoes(c),
         log' = log, refs' = refs, used' = used, now' = now, crashes' = crashes,
         \/ faults' = faults
         \/ faults' = faults + 1 /\ faults < MaxFaults,
         git' = git \/ \E g \in {"nothing", "branch"} : git' = [git EXCEPT ![call[c].ws] = g],
         \/ Leaves(c)
         \/ /\ Goes(c, "unbranch") /\ fence' = fence
            /\ faults' = faults => git'[call[c].ws] # "worktree"
  PROVE  Core'
<1> DEFINE w == call[c].ws
<1>1. /\ Adds(c) /\ fence = c /\ call[c] \in Calls /\ w \in Workspaces
      /\ "unbranch" \in Steps(call[c]) /\ ~ Frees(c) /\ faults > 0
  BY Undoing
<1>2. faults' \in 0 .. MaxFaults /\ faults' >= faults
  BY DEF Core, TypeOK, WorkspaceAssumption
<1>3. /\ git' \in [Workspaces -> {"nothing", "branch", "worktree"}]
      /\ \A x \in Workspaces : git'[x] = "worktree" => git[x] = "worktree"
  <2>1. CASE git' = git BY <2>1 DEF Core, TypeOK
  <2>2. CASE \E g \in {"nothing", "branch"} : git' = [git EXCEPT ![w] = g]
    <3>1. PICK g \in {"nothing", "branch"} : git' = [git EXCEPT ![w] = g] BY <2>2
    <3>. QED BY <1>1, <3>1 DEF Core, TypeOK
  <2>. QED BY <2>1, <2>2
<1>4. /\ CallInv'
      /\ fence' \in Callers \cup {Nobody}
      /\ call' \in [Callers -> {Idle} \cup Calls]
      /\ \A d \in Callers : fence' = d <=> ~ At(d, "idle")' /\ ~ At(d, "enter")'
  <2>1. CASE Leaves(c)
    BY <1>1, <1>2, <2>1, LeaveCalls DEF Core, CallInv
  <2>2. CASE /\ Goes(c, "unbranch") /\ fence' = fence
             /\ faults' = faults => git'[w] # "worktree"
    <3>1. faults' > 0 /\ (git'[w] # "worktree" \/ faults' > 1)
      BY <1>1, <2>2 DEF Core, TypeOK, WorkspaceAssumption
    <3>. QED BY <1>1, <1>2, <2>2, <3>1, GoCalls
  <2>. QED BY <2>1, <2>2
<1>5. TypeOK' BY <1>2, <1>3, <1>4 DEF Core, TypeOK
<1>6. LogInv'
  <2>1. \A x \in Workspaces : Deleted(x)' <=> Deleted(x) BY DEF Deleted
  <2>2. \A x \in Workspaces : Deleted(x)' => git'[x] # "worktree"
    BY <1>3, <2>1 DEF Core, LogInv
  <2>3. \A x \in Workspaces : log'[x] # <<>> =>
          x \in used' /\ \A i \in DOMAIN log'[x] : log'[x][i].op = "allocated" <=> i = 1
    BY DEF Core, LogInv
  <2>4. \A x \in DOMAIN refs' : log'[x] # <<>> /\ (refs'[x].policy = "delete" => Deleted(x)')
    BY DEF Core, LogInv, Deleted
  <2>. QED BY <2>2, <2>3, <2>4 DEF LogInv
<1>. QED BY <1>4, <1>5, <1>6 DEF Core

\* Both steps of the repair.
LEMMA UndoStep ==
  ASSUME WorkspaceAssumption, Core, NEW c \in Callers, UndoWorktree(c) \/ UndoBranch(c)
  PROVE  Core'
<1>1. /\ Undoes(c) /\ log' = log /\ refs' = refs /\ used' = used /\ now' = now
      /\ crashes' = crashes
  BY DEF UndoWorktree, UndoBranch, Undoes, store
<1>2. faults' = faults \/ (faults' = faults + 1 /\ faults < MaxFaults)
  BY Zenon DEF UndoWorktree, UndoBranch, Fault
<1>3. CASE UndoWorktree(c)
  <2>1. PICK w : /\ w = call[c].ws /\ Goes(c, "unbranch") /\ fence' = fence
                 /\ \/ git' = [git EXCEPT ![w] = "branch"] /\ faults' = faults
                    \/ git' = git /\ faults' = faults + 1
    BY <1>3 DEF UndoWorktree, TakenBack, Fault
  <2>2. w \in Workspaces /\ faults \in Int
    BY <1>1, <2>1, Undoing DEF Core, TypeOK, WorkspaceAssumption
  <2>3. faults' = faults => git'[w] # "worktree" BY <2>1, <2>2 DEF Core, TypeOK
  <2>. QED BY <1>1, <1>2, <2>1, <2>3, UndoKeeps
<1>4. CASE UndoBranch(c)
  <2>1. PICK w : /\ w = call[c].ws /\ Leaves(c)
                 /\ git' = git \/ git' = [git EXCEPT ![w] = "nothing"]
    BY <1>4 DEF UndoBranch
  <2>. QED BY <1>1, <1>2, <2>1, UndoKeeps
<1>. QED BY <1>3, <1>4

\* A line more in the log of a workspace.
LEMMA Lengthened ==
  ASSUME Core, NEW w \in Workspaces, NEW rec \in Records,
         log' = [log EXCEPT ![w] = Append(log[w], rec)],
         log[w] = <<>> <=> rec.op = "allocated"
  PROVE  /\ log' \in [Workspaces -> Seq(Records)]
         /\ \A x \in Workspaces \ {w} : log'[x] = log[x] /\ (Deleted(x)' <=> Deleted(x))
         /\ Deleted(w)' <=> Deleted(w) \/ rec.op = "delete"
         /\ log'[w] # <<>> /\ Len(log[w]) \in Nat /\ Len(log'[w]) = Len(log[w]) + 1
         /\ log[w] = <<>> <=> Len(log[w]) = 0
         /\ log'[w][Len(log'[w])] = rec
         /\ \A i \in DOMAIN log'[w] : log'[w][i].op = "allocated" <=> i = 1
<1>1. log \in [Workspaces -> Seq(Records)] /\ log[w] \in Seq(Records) BY DEF Core, TypeOK
<1> DEFINE l == log[w]  m == Append(l, rec)
<1>2. /\ m \in Seq(Records) /\ m # <<>> /\ Len(l) \in Nat /\ DOMAIN l = 1 .. Len(l)
      /\ Len(m) = Len(l) + 1 /\ DOMAIN m = 1 .. Len(l) + 1
      /\ \A i \in DOMAIN l : m[i] = l[i]
      /\ m[Len(l) + 1] = rec
      /\ l = <<>> <=> Len(l) = 0
  BY <1>1, Added
<1>3. l # <<>> => \A i \in DOMAIN l : l[i].op = "allocated" <=> i = 1 BY DEF Core, LogInv
<1> HIDE DEF m
<1>4. log' \in [Workspaces -> Seq(Records)] /\ log'[w] = m
      /\ \A x \in Workspaces \ {w} : log'[x] = log[x]
  BY <1>1, <1>2 DEF m
<1>5. \A x \in Workspaces \ {w} : Deleted(x)' <=> Deleted(x) BY <1>4 DEF Deleted
<1>6. Deleted(w)' <=> Deleted(w) \/ rec.op = "delete"
  <2>1. Deleted(w)' <=> \E i \in 1 .. Len(l) + 1 : m[i].op = "delete"
    <3>1. log'[w] = m /\ DOMAIN m = 1 .. Len(l) + 1 BY <1>2, <1>4
    <3>. QED BY <3>1 DEF Deleted
  <2>2. Deleted(w) <=> \E i \in 1 .. Len(l) : m[i].op = "delete" BY <1>2 DEF Deleted
  <2>. QED BY <1>2, <2>1, <2>2
<1>7. \A i \in DOMAIN m : m[i].op = "allocated" <=> i = 1
  <2>1. CASE l = <<>>
    <3>1. Len(l) = 0 /\ rec.op = "allocated" BY <1>2, <2>1
    <3>2. DOMAIN m = 1 .. 1 /\ m[1] = rec BY <1>2, <3>1
    <3>. QED BY <3>1, <3>2
  <2>2. CASE l # <<>>
    <3>1. rec.op # "allocated" /\ Len(l) >= 1 BY <1>2, <2>2
    <3>. QED BY <1>2, <1>3, <2>2, <3>1
  <2>. QED BY <2>1, <2>2
<1>. QED BY <1>2, <1>4, <1>5, <1>6, <1>7

\* RecordAllocated.
LEMMA AllocatedStep ==
  ASSUME WorkspaceAssumption, Core, NEW c \in Callers, RecordAllocated(c)
  PROVE  Core'
<1>0. PICK w, rec : /\ w = call[c].ws /\ rec = [op |-> "allocated", at |-> call[c].at]
                    /\ \/ AppendOk(w, rec) /\ Leaves(c)
                       \/ AppendFails(w, rec) /\ Goes(c, "undo") /\ fence' = fence
  BY DEF RecordAllocated
<1>1. /\ At(c, "allocated") /\ git' = git /\ used' = used
      /\ now' = now /\ crashes' = crashes
  BY DEF RecordAllocated
<1>2. Adds(c) /\ ~ At(c, "enter") /\ ~ Undoes(c)
  <2>1. call[c] \in Calls /\ ~ At(c, "idle") BY <1>1 DEF Core, TypeOK, At, Idle
  <2>. QED BY <1>1, <2>1, CallFields DEF At, Adds, Steps, Undoes
<1>3. /\ fence = c /\ call[c] \in Calls /\ call[c].first = "add"
      /\ w \in Workspaces /\ w \in used \ DOMAIN refs
      /\ git[w] = "worktree"
      /\ \A d \in Callers \ {c} : Adds(d) => call[d].ws # w
  BY <1>0, <1>1, <1>2, Adding
<1>4. log[w] = <<>> BY <1>0, <1>2, <1>3 DEF Core, CallInv
<1>5. rec \in Records /\ rec.op = "allocated" BY <1>0, <1>3, CallFields DEF Records
<1>6. \A d \in Callers \ {c} : Adds(d) => call[d].ws \in Workspaces \ {w}
  <2>1. \A d \in Callers : Adds(d) => call[d] \in Calls BY CallFacts DEF Core
  <2>. QED BY <1>3, <2>1, CallFields
<1>7. DOMAIN refs \subseteq Workspaces \ {w} BY <1>3 DEF Core, TypeOK
<1>8. CASE AppendOk(w, rec) /\ Leaves(c)
  <2>1. /\ log' = [log EXCEPT ![w] = Append(log[w], rec)] /\ faults' = faults
        /\ DOMAIN refs' = DOMAIN refs \cup {w}
        /\ refs' \in [DOMAIN refs' -> Refs]
        /\ \A x \in DOMAIN refs \ {w} : refs'[x] = refs[x]
        /\ refs'[w].status = "ALLOCATED" /\ refs'[w].policy = ""
    BY <1>3, <1>5, <1>8, AppendFacts DEF Core
  <2>2. /\ log' \in [Workspaces -> Seq(Records)]
        /\ \A x \in Workspaces \ {w} : log'[x] = log[x] /\ (Deleted(x)' <=> Deleted(x))
        /\ Deleted(w)' <=> Deleted(w) \/ rec.op = "delete"
        /\ log'[w] # <<>> /\ Len(log[w]) \in Nat /\ Len(log'[w]) = Len(log[w]) + 1
        /\ log[w] = <<>> <=> Len(log[w]) = 0
        /\ \A i \in DOMAIN log'[w] : log'[w][i].op = "allocated" <=> i = 1
    BY <1>3, <1>4, <1>5, <2>1, Lengthened
  <2>4. \A d \in Callers \ {c} : Adds(d) =>
           call[d].ws \notin DOMAIN refs' /\ log'[call[d].ws] = log[call[d].ws]
    BY <1>6, <2>1, <2>2 DEF Core, CallInv
  <2>5. /\ CallInv'
        /\ fence' \in Callers \cup {Nobody}
        /\ call' \in [Callers -> {Idle} \cup Calls]
        /\ \A d \in Callers : fence' = d <=> ~ At(d, "idle")' /\ ~ At(d, "enter")'
    <3>1. faults \in Int BY DEF Core, TypeOK, WorkspaceAssumption
    <3>2. faults' = faults BY <2>1, Zenon
    <3>3. faults' >= faults BY <3>1, <3>2
    <3>. QED BY <1>1, <1>3, <1>8, <2>1, <2>4, <3>3, LeaveCalls
  <2>6. TypeOK'
    BY <1>1, <1>3, <2>1, <2>2, <2>5 DEF Core, TypeOK
  <2>10. ~ Deleted(w) BY <1>4 DEF Deleted
  <2>7. ~ Deleted(w)' BY <1>5, <2>2, <2>10
  <2>8. LogInv'
    <3>1. \A x \in Workspaces : log'[x] # <<>> =>
            x \in used /\ \A i \in DOMAIN log'[x] : log'[x][i].op = "allocated" <=> i = 1
      BY <1>3, <2>2 DEF Core, LogInv
    <3>2. \A x \in Workspaces : Deleted(x)' => git[x] # "worktree"
      BY <2>2, <2>7 DEF Core, LogInv
    <3>3. \A x \in DOMAIN refs' : log'[x] # <<>> /\ (refs'[x].policy = "delete" => Deleted(x)')
      <4>1. SUFFICES ASSUME NEW x \in DOMAIN refs'
            PROVE  log'[x] # <<>> /\ (refs'[x].policy = "delete" => Deleted(x)')
        OBVIOUS
      <4>2. CASE x = w BY <2>1, <2>2, <4>2
      <4>3. CASE x # w
        <5>1. x \in DOMAIN refs /\ x \in Workspaces \ {w} /\ refs'[x] = refs[x]
          BY <1>7, <2>1, <4>3
        <5>2. log'[x] = log[x] /\ (Deleted(x)' <=> Deleted(x)) BY <2>2, <5>1
        <5>. QED BY <5>1, <5>2 DEF Core, LogInv
      <4>. QED BY <4>2, <4>3
    <3>. QED BY <1>1, <3>1, <3>2, <3>3 DEF LogInv
  <2>. QED BY <2>5, <2>6, <2>8 DEF Core
<1>9. CASE AppendFails(w, rec) /\ Goes(c, "undo") /\ fence' = fence
  <2>1. /\ refs' = refs /\ faults' = faults + 1 /\ faults < MaxFaults
        /\ log' = log \/ log' = [log EXCEPT ![w] = Append(log[w], rec)]
    BY <1>9 DEF AppendFails, Fault
  <2>2. /\ log' \in [Workspaces -> Seq(Records)]
        /\ \A x \in Workspaces \ {w} : log'[x] = log[x] /\ (Deleted(x)' <=> Deleted(x))
        /\ Deleted(w)' <=> Deleted(w)
        /\ log'[w] # <<>> => \A i \in DOMAIN log'[w] : log'[w][i].op = "allocated" <=> i = 1
    <3>1. CASE log' = log BY <3>1, <1>3, <1>4 DEF Core, TypeOK, Deleted
    <3>2. CASE log' = [log EXCEPT ![w] = Append(log[w], rec)]
      BY <1>3, <1>4, <1>5, <3>2, Lengthened
    <3>. QED BY <2>1, <3>1, <3>2
  <2>3. faults' \in 0 .. MaxFaults /\ faults' >= faults /\ faults' > 0
    BY <2>1 DEF Core, TypeOK, WorkspaceAssumption
  <2>5. /\ CallInv'
        /\ fence' \in Callers \cup {Nobody}
        /\ call' \in [Callers -> {Idle} \cup Calls]
        /\ \A d \in Callers : fence' = d <=> ~ At(d, "idle")' /\ ~ At(d, "enter")'
    <3>1. ~ Frees(c) /\ "undo" \in Steps(call[c]) BY <1>3 DEF Frees, Steps
    <3>. QED BY <1>1, <1>3, <1>9, <2>1, <2>2, <2>3, <1>0, <1>6, <3>1, GoCalls
  <2>6. TypeOK' BY <1>1, <2>1, <2>2, <2>3, <2>5 DEF Core, TypeOK
  <2>7. LogInv'
    <3>1. \A x \in Workspaces : log'[x] # <<>> =>
            x \in used /\ \A i \in DOMAIN log'[x] : log'[x][i].op = "allocated" <=> i = 1
      BY <1>3, <2>2 DEF Core, LogInv
    <3>2. \A x \in Workspaces : Deleted(x)' => git[x] # "worktree"
      BY <2>2 DEF Core, LogInv
    <3>3. \A x \in DOMAIN refs : log'[x] # <<>> /\ (refs[x].policy = "delete" => Deleted(x)')
      BY <1>7, <2>2 DEF Core, LogInv
    <3>. QED BY <1>1, <2>1, <3>1, <3>2, <3>3 DEF LogInv
  <2>. QED BY <2>5, <2>6, <2>7 DEF Core
<1>. QED BY <1>0, <1>8, <1>9

\* Inside the fence a release goes on with a workspace that is known.
LEMMA Freeing ==
  ASSUME Core, NEW c \in Callers, Frees(c), ~ At(c, "enter")
  PROVE  /\ fence = c /\ call[c] \in Calls /\ ~ Adds(c)
         /\ call[c].ws \in DOMAIN refs /\ call[c].ws \in Workspaces
         /\ log[call[c].ws] # <<>>
         /\ \A d \in Callers : Adds(d) => call[d].ws \in Workspaces \ {call[c].ws}
<1>1. fence = c /\ call[c] \in Calls BY Alone DEF Frees
<1>2. call[c].ws \in DOMAIN refs BY DEF Core, CallInv
<1>3. \A d \in Callers : Adds(d) => call[d] \in Calls BY CallFacts DEF Core
<1>4. \A d \in Callers : Adds(d) => call[d].ws \in Workspaces BY <1>3, CallFields
<1>. QED BY <1>1, <1>2, <1>4 DEF Core, TypeOK, CallInv, LogInv, Adds, Frees

\* removeWorktree.
LEMMA RemoveStep ==
  ASSUME WorkspaceAssumption, Core, NEW c \in Callers, RemoveWorktree(c)
  PROVE  Core'
<1>0. PICK w : /\ w = call[c].ws
               /\ \/ /\ git' = [git EXCEPT ![w] = "branch"]
                     /\ Goes(c, "branch") /\ fence' = fence /\ faults' = faults
                  \/ /\ \/ faults' = faults + 1 /\ faults < MaxFaults
                        \/ faults' = faults /\ git[w] # "worktree"
                     /\ Leaves(c) /\ git' = git
  BY DEF RemoveWorktree, RemovalFails, Fault
<1>1. /\ At(c, "remove") /\ log' = log /\ refs' = refs /\ used' = used
      /\ now' = now /\ crashes' = crashes
  BY DEF RemoveWorktree, store
<1>2. Frees(c) /\ ~ At(c, "enter") /\ "branch" \in Steps(call[c])
  <2>1. call[c] \in Calls /\ ~ At(c, "idle") BY <1>1 DEF Core, TypeOK, At, Idle
  <2>. QED BY <1>1, <2>1, CallFields DEF At, Frees, Steps
<1>3. fence = c /\ call[c] \in Calls /\ ~ Adds(c) /\ w \in DOMAIN refs /\ w \in Workspaces
  BY <1>0, <1>2, Freeing
<1>4. call[c].policy = "delete" BY <1>1, <1>3, CallFields DEF Steps, At
<1>5. \A x \in Workspaces : Deleted(x)' <=> Deleted(x) BY <1>1 DEF Deleted
<1>6. \A x \in Workspaces \ {w} : git'[x] = git[x] BY <1>0 DEF Core, TypeOK
<1>10. \A d \in Callers : ~ HasRemoved(d)
  <2>1. \A d \in Callers \ {c} : ~ HasRemoved(d) BY <1>2, Alone DEF Frees, HasRemoved, At
  <2>2. ~ HasRemoved(c) BY <1>1 DEF HasRemoved, At
  <2>. QED BY <2>1, <2>2
<1>7. faults \in Int /\ faults' \in Int /\ faults' >= faults /\ faults' \in 0 .. MaxFaults
  <2>1. faults \in 0 .. MaxFaults /\ MaxFaults \in Nat BY DEF Core, TypeOK, WorkspaceAssumption
  <2>2. faults' = faults \/ (faults' = faults + 1 /\ faults < MaxFaults)
    BY <1>0, Zenon
  <2>. QED BY <2>1, <2>2
<1>8. CASE /\ git' = [git EXCEPT ![w] = "branch"]
           /\ Goes(c, "branch") /\ fence' = fence /\ faults' = faults
  <2>1. git'[w] = "branch" /\ git' \in [Workspaces -> {"nothing", "branch", "worktree"}]
    BY <1>3, <1>8 DEF Core, TypeOK
  <2>2. /\ CallInv'
        /\ fence' \in Callers \cup {Nobody}
        /\ call' \in [Callers -> {Idle} \cup Calls]
        /\ \A d \in Callers : fence' = d <=> ~ At(d, "idle")' /\ ~ At(d, "enter")'
        /\ Frees(c)' <=> Frees(c)
        /\ call'[c].ws = w /\ call'[c].policy = call[c].policy
    BY <1>0, <1>1, <1>2, <1>3, <1>7, <1>8, <2>1, GoCalls
  <2>3. TypeOK' BY <1>1, <1>7, <2>1, <2>2 DEF Core, TypeOK
  <2>4. LogInv'
    <3>1. \A x \in Workspaces : Deleted(x)' => git'[x] # "worktree"
      BY <1>5, <1>6, <2>1 DEF Core, LogInv
    <3>. QED BY <1>1, <3>1 DEF Core, LogInv, Deleted
  <2>. QED BY <2>2, <2>3, <2>4 DEF Core
<1>9. CASE Leaves(c) /\ git' = git
  <2>1. /\ CallInv'
        /\ fence' \in Callers \cup {Nobody}
        /\ call' \in [Callers -> {Idle} \cup Calls]
        /\ \A d \in Callers : fence' = d <=> ~ At(d, "idle")' /\ ~ At(d, "enter")'
    BY <1>1, <1>3, <1>7, <1>9, LeaveCalls DEF Core, CallInv
  <2>2. TypeOK' BY <1>1, <1>7, <1>9, <2>1 DEF Core, TypeOK
  <2>3. LogInv' BY <1>1, <1>9 DEF Core, LogInv, Deleted
  <2>. QED BY <2>1, <2>2, <2>3 DEF Core
<1>. QED BY <1>0, <1>8, <1>9

\* deleteBranch.
LEMMA BranchStep ==
  ASSUME WorkspaceAssumption, Core, NEW c \in Callers, DeleteBranch(c)
  PROVE  Core'
<1>0. PICK w : w = call[c].ws /\ (git' = [git EXCEPT ![w] = "nothing"] \/ git' = git)
  BY DEF DeleteBranch
<1>1. /\ At(c, "branch") /\ log' = log /\ refs' = refs /\ used' = used /\ fence' = fence
      /\ now' = now /\ crashes' = crashes /\ Goes(c, "released")
  BY DEF DeleteBranch, store
<1>2. Frees(c) /\ ~ At(c, "enter") /\ HasRemoved(c) /\ "released" \in Steps(call[c])
  <2>1. call[c] \in Calls /\ ~ At(c, "idle") BY <1>1 DEF Core, TypeOK, At, Idle
  <2>. QED BY <1>1, <2>1, CallFields DEF At, Frees, Steps, HasRemoved
<1>3. fence = c /\ call[c] \in Calls /\ ~ Adds(c) /\ w \in DOMAIN refs /\ w \in Workspaces
  BY <1>0, <1>2, Freeing
<1>4. call[c].policy = "delete" BY <1>1, <1>3, CallFields DEF Steps, At
<1>5. \A x \in Workspaces : Deleted(x)' <=> Deleted(x) BY <1>1 DEF Deleted
<1>6. git' \in [Workspaces -> {"nothing", "branch", "worktree"}]
      /\ \A x \in Workspaces \ {w} : git'[x] = git[x]
  BY <1>0 DEF Core, TypeOK
<1>7. git[w] # "worktree" /\ git'[w] # "worktree"
  <2>1. git[w] # "worktree" BY <1>0, <1>2 DEF Core, CallInv
  <2>. QED BY <1>0, <1>3, <2>1 DEF Core, TypeOK
<1>8. faults' >= faults /\ faults' \in 0 .. MaxFaults
  <2>1. faults \in 0 .. MaxFaults /\ MaxFaults \in Nat BY DEF Core, TypeOK, WorkspaceAssumption
  <2>2. faults' = faults \/ (faults' = faults + 1 /\ faults < MaxFaults)
    BY Zenon DEF DeleteBranch, Fault
  <2>. QED BY <2>1, <2>2
<1>9. /\ CallInv'
      /\ fence' \in Callers \cup {Nobody}
      /\ call' \in [Callers -> {Idle} \cup Calls]
      /\ \A d \in Callers : fence' = d <=> ~ At(d, "idle")' /\ ~ At(d, "enter")'
      /\ Frees(c)' <=> Frees(c)
      /\ call'[c].ws = w /\ call'[c].policy = call[c].policy
  BY <1>0, <1>1, <1>2, <1>3, <1>7, <1>8, GoCalls
<1>10. TypeOK' BY <1>1, <1>6, <1>8, <1>9 DEF Core, TypeOK
<1>11. LogInv'
  <2>1. \A x \in Workspaces : Deleted(x)' => git'[x] # "worktree"
    BY <1>5, <1>6, <1>7 DEF Core, LogInv
  <2>. QED BY <1>1, <2>1 DEF Core, LogInv, Deleted
<1>. QED BY <1>9, <1>10, <1>11 DEF Core

\* RecordReleased.
LEMMA ReleasedStep ==
  ASSUME WorkspaceAssumption, Core, NEW c \in Callers, RecordReleased(c)
  PROVE  Core'
<1>0. PICK w, rec : /\ w = call[c].ws /\ rec = [op |-> call[c].policy, at |-> now]
                    /\ AppendOk(w, rec) \/ AppendFails(w, rec)
  BY DEF RecordReleased
<1>1. /\ At(c, "released") /\ git' = git /\ used' = used /\ Leaves(c)
      /\ now' = now /\ crashes' = crashes
  BY DEF RecordReleased
<1>2. Frees(c) /\ ~ At(c, "enter") /\ call[c].policy \in {"preserve", "delete"}
  <2>1. call[c] \in Calls /\ ~ At(c, "idle") BY <1>1 DEF Core, TypeOK, At, Idle
  <2>. QED BY <1>1, <2>1, CallFields DEF At, Frees, Steps
<1>3. /\ fence = c /\ w \in DOMAIN refs /\ w \in Workspaces /\ log[w] # <<>>
      /\ \A d \in Callers : Adds(d) => call[d].ws \in Workspaces \ {w}
  BY <1>0, <1>2, Freeing
<1>4. rec \in Records /\ rec.op \in {"preserve", "delete"} /\ rec.op = call[c].policy
  BY <1>0, <1>2 DEF Records, Core, TypeOK
<1>5. rec.op = "delete" => git[w] # "worktree"
  BY <1>0, <1>1, <1>2, <1>4 DEF Core, CallInv, HasRemoved
<1>6. \A d \in Callers : HasRemoved(d) => d = c /\ rec.op = "delete"
  <2>1. \A d \in Callers \ {c} : ~ HasRemoved(d) BY <1>2, Alone DEF Frees, HasRemoved, At
  <2>2. HasRemoved(c) => rec.op = "delete" BY <1>1, <1>4 DEF HasRemoved, At
  <2>. QED BY <2>1, <2>2
<1>7. CASE AppendOk(w, rec)
  <2>1. /\ log' = [log EXCEPT ![w] = Append(log[w], rec)] /\ faults' = faults
        /\ DOMAIN refs' = DOMAIN refs
        /\ refs' \in [DOMAIN refs' -> Refs]
        /\ \A x \in DOMAIN refs \ {w} : refs'[x] = refs[x]
        /\ refs'[w].status = "RELEASED" /\ refs'[w].policy = rec.op
    BY <1>3, <1>4, <1>7, AppendFacts DEF Core
  <2>2. /\ log' \in [Workspaces -> Seq(Records)]
        /\ \A x \in Workspaces \ {w} : log'[x] = log[x] /\ (Deleted(x)' <=> Deleted(x))
        /\ Deleted(w)' <=> Deleted(w) \/ rec.op = "delete"
        /\ log'[w] # <<>> /\ Len(log[w]) \in Nat /\ Len(log'[w]) = Len(log[w]) + 1
        /\ log[w] = <<>> <=> Len(log[w]) = 0
        /\ log'[w][Len(log'[w])] = rec
        /\ \A i \in DOMAIN log'[w] : log'[w][i].op = "allocated" <=> i = 1
    <3>1. log[w] = <<>> <=> rec.op = "allocated" BY <1>3, <1>4
    <3>2. log' = [log EXCEPT ![w] = Append(log[w], rec)] BY <2>1
    <3>. QED BY <1>3, <1>4, <3>1, <3>2, Lengthened
  <2>3. /\ CallInv'
        /\ fence' \in Callers \cup {Nobody}
        /\ call' \in [Callers -> {Idle} \cup Calls]
        /\ \A d \in Callers : fence' = d <=> ~ At(d, "idle")' /\ ~ At(d, "enter")'
    <3>1. \A d \in Callers \ {c} : Adds(d) =>
           call[d].ws \notin DOMAIN refs' /\ log'[call[d].ws] = log[call[d].ws]
      BY <1>3, <2>1, <2>2 DEF Core, CallInv
    <3>2. faults \in Int BY DEF Core, TypeOK, WorkspaceAssumption
    <3>3. faults' = faults BY <2>1, Zenon
    <3>4. faults' >= faults BY <3>2, <3>3
    <3>. QED BY <1>1, <1>3, <2>1, <3>1, <3>4, LeaveCalls
  <2>4. TypeOK' BY <1>1, <2>1, <2>2, <2>3 DEF Core, TypeOK
  <2>5. LogInv'
    <3>1. \A x \in Workspaces : log'[x] # <<>> =>
            x \in used /\ \A i \in DOMAIN log'[x] : log'[x][i].op = "allocated" <=> i = 1
      <4>1. w \in used BY <1>3 DEF Core, TypeOK
      <4>2. \A x \in Workspaces \ {w} : log'[x] = log[x] BY <2>2
      <4>3. \A i \in DOMAIN log'[w] : log'[w][i].op = "allocated" <=> i = 1 BY <2>2
      <4>4. \A x \in Workspaces \ {w} : log[x] # <<>> =>
              x \in used /\ \A i \in DOMAIN log[x] : log[x][i].op = "allocated" <=> i = 1
        BY DEF Core, LogInv
      <4>. QED BY <4>1, <4>2, <4>3, <4>4
    <3>2. \A x \in Workspaces : Deleted(x)' => git[x] # "worktree"
      BY <1>5, <2>2 DEF Core, LogInv
    <3>3. \A x \in DOMAIN refs : log'[x] # <<>> /\ (refs'[x].policy = "delete" => Deleted(x)')
      <4>1. DOMAIN refs \subseteq Workspaces BY DEF Core, TypeOK
      <4>. QED BY <2>1, <2>2, <4>1 DEF Core, LogInv
    <3>. QED BY <1>1, <2>1, <3>1, <3>2, <3>3 DEF LogInv
  <2>. QED BY <2>3, <2>4, <2>5 DEF Core
<1>8. CASE AppendFails(w, rec)
  <2>1. /\ refs' = refs /\ faults' = faults + 1 /\ faults < MaxFaults
        /\ log' = log \/ log' = [log EXCEPT ![w] = Append(log[w], rec)]
    BY <1>8 DEF AppendFails, Fault
  <2>2. /\ log' \in [Workspaces -> Seq(Records)]
        /\ \A x \in Workspaces \ {w} : log'[x] = log[x] /\ (Deleted(x)' <=> Deleted(x))
        /\ Deleted(w) => Deleted(w)'
        /\ Deleted(w)' => Deleted(w) \/ rec.op = "delete"
        /\ log'[w] # <<>>
        /\ \A i \in DOMAIN log'[w] : log'[w][i].op = "allocated" <=> i = 1
    <3>1. CASE log' = log BY <3>1, <1>3 DEF Core, TypeOK, Deleted, LogInv
    <3>2. CASE log' = [log EXCEPT ![w] = Append(log[w], rec)]
      BY <1>3, <1>4, <3>2, Lengthened
    <3>. QED BY <2>1, <3>1, <3>2
  <2>3. faults' \in 0 .. MaxFaults /\ faults' >= faults /\ faults' > 0
    <3>1. faults \in 0 .. MaxFaults /\ MaxFaults \in Nat BY DEF Core, TypeOK, WorkspaceAssumption
    <3>2. faults' = faults + 1 /\ faults < MaxFaults BY <1>8 DEF AppendFails, Fault
    <3>. QED BY <3>1, <3>2
  <2>4. /\ CallInv'
        /\ fence' \in Callers \cup {Nobody}
        /\ call' \in [Callers -> {Idle} \cup Calls]
        /\ \A d \in Callers : fence' = d <=> ~ At(d, "idle")' /\ ~ At(d, "enter")'
    <3>1. \A d \in Callers \ {c} : Adds(d) =>
           call[d].ws \notin DOMAIN refs' /\ log'[call[d].ws] = log[call[d].ws]
      BY <1>3, <2>1, <2>2 DEF Core, CallInv
    <3>. QED BY <1>1, <1>3, <2>1, <2>3, <3>1, LeaveCalls
  <2>5. TypeOK' BY <1>1, <2>1, <2>2, <2>3, <2>4 DEF Core, TypeOK
  <2>6. LogInv'
    <3>1. \A x \in Workspaces : log'[x] # <<>> =>
            x \in used /\ \A i \in DOMAIN log'[x] : log'[x][i].op = "allocated" <=> i = 1
      <4>1. w \in used BY <1>3 DEF Core, TypeOK
      <4>2. \A x \in Workspaces \ {w} : log'[x] = log[x] BY <2>2
      <4>3. \A i \in DOMAIN log'[w] : log'[w][i].op = "allocated" <=> i = 1 BY <2>2
      <4>4. \A x \in Workspaces \ {w} : log[x] # <<>> =>
              x \in used /\ \A i \in DOMAIN log[x] : log[x][i].op = "allocated" <=> i = 1
        BY DEF Core, LogInv
      <4>. QED BY <4>1, <4>2, <4>3, <4>4
    <3>2. \A x \in Workspaces : Deleted(x)' => git[x] # "worktree"
      BY <1>5, <2>2 DEF Core, LogInv
    <3>3. \A x \in DOMAIN refs : log'[x] # <<>> /\ (refs[x].policy = "delete" => Deleted(x)')
      <4>1. DOMAIN refs \subseteq Workspaces BY DEF Core, TypeOK
      <4>. QED BY <2>2, <4>1 DEF Core, LogInv
    <3>. QED BY <1>1, <2>1, <3>1, <3>2, <3>3 DEF LogInv
  <2>. QED BY <2>4, <2>5, <2>6 DEF Core
<1>. QED BY <1>0, <1>7, <1>8

\* A set of natural numbers has a least one.
LEMMA Least ==
  ASSUME NEW T, T \subseteq Nat, T # {}
  PROVE  \E x \in T : \A y \in T : x <= y
<1> DEFINE R == OpToRel(<, Nat)
<1>1. IsWellFoundedOn(R, Nat) BY NatLessThanWellFounded
<1>2. \A a, b \in Nat : <<a, b>> \in R <=> a < b BY DEF OpToRel
<1> HIDE DEF R
<1>3. PICK x \in T : \A y \in T : <<y, x>> \notin R BY <1>1, WFMin
<1>4. \A y \in T : ~(y < x) BY <1>2, <1>3
<1>5. \A y \in T : x <= y BY <1>4
<1>. QED BY <1>5

\* Induction over a set: what holds for 0 and goes from n to n + 1.
LEMMA Induction ==
  ASSUME NEW S, 0 \in S, \A n \in Nat : n \in S => n + 1 \in S
  PROVE  \A n \in Nat : n \in S
<1> SUFFICES ASSUME NEW T, T = Nat \ S, T # {} PROVE FALSE OBVIOUS
<1>1. PICK x \in T : \A y \in T : x <= y BY Least
<1>2. x \in Nat /\ x # 0 OBVIOUS
<1>3. x - 1 \in Nat /\ x - 1 \notin T BY <1>1, <1>2
<1>. QED BY <1>2, <1>3

\* Load goes through the records of a workspace one by one.
Replays(f, l, n) == f[0] = <<>> /\ \A i \in 1 .. n : f[i] = Apply(l[i], f[i - 1])

\* The recursive definition has a solution for every length.
LEMMA ReplayExists ==
  ASSUME NEW l, NEW n \in Nat
  PROVE  \E f : f = [i \in 0 .. n |-> IF i = 0 THEN <<>> ELSE Apply(l[i], f[i - 1])]
<1> DEFINE Solves(f, m) ==
      f = [i \in 0 .. m |-> IF i = 0 THEN <<>> ELSE Apply(l[i], f[i - 1])]
<1> DEFINE S == {m \in Nat : \E f : Solves(f, m)}
<1>1. 0 \in S
  <2> DEFINE f == [i \in 0 .. 0 |-> <<>>]
  <2>1. Solves(f, 0) OBVIOUS
  <2>. QED BY <2>1
<1>2. ASSUME NEW m \in Nat, m \in S PROVE m + 1 \in S
  <2>1. PICK f : Solves(f, m) BY <1>2
  <2> DEFINE last == Apply(l[m + 1], f[m])
  <2> HIDE DEF last
  <2> DEFINE g == [i \in 0 .. m + 1 |-> IF i = m + 1 THEN last ELSE f[i]]
  <2>2. \A i \in 0 .. m : g[i] = f[i] OBVIOUS
  <2>3. \A i \in 0 .. m : f[i] = IF i = 0 THEN <<>> ELSE Apply(l[i], f[i - 1]) BY <2>1
  <2>4. ASSUME NEW i \in 0 .. m + 1
        PROVE  g[i] = IF i = 0 THEN <<>> ELSE Apply(l[i], g[i - 1])
    <3>1. CASE i = m + 1
      <4>1. g[i] = last /\ i # 0 /\ i - 1 = m BY <3>1
      <4>2. g[i - 1] = f[m] BY <2>2, <4>1
      <4>. QED BY <3>1, <4>1, <4>2 DEF last
    <3>2. CASE i \in 0 .. m
      <4>1. g[i] = f[i] BY <2>2, <3>2
      <4>2. CASE i = 0 BY <2>3, <4>1, <4>2
      <4>3. CASE i # 0
        <5>1. g[i - 1] = f[i - 1] BY <2>2, <3>2, <4>3
        <5>. QED BY <2>3, <3>2, <4>1, <4>3, <5>1
      <4>. QED BY <4>2, <4>3
    <3>. QED BY <3>1, <3>2
  <2>5. g = [i \in 0 .. m + 1 |-> g[i]] OBVIOUS
  <2> HIDE DEF g
  <2>6. Solves(g, m + 1) BY <2>4, <2>5
  <2>. QED BY <2>6
<1> HIDE DEF S
<1>3. n \in S BY <1>1, <1>2, Induction
<1>. QED BY <1>3 DEF S

\* What a restarted plugin knows of a workspace is where going through its records ends.
LEMMA ReplaySteps ==
  ASSUME NEW l, Len(l) \in Nat
  PROVE  \E f : Replays(f, l, Len(l)) /\ Replayed(l) = f[Len(l)]
<1> DEFINE ref[n \in 0 .. Len(l)] == IF n = 0 THEN <<>> ELSE Apply(l[n], ref[n - 1])
<1>1. Replayed(l) = ref[Len(l)] BY DEF Replayed
<1>2. \E f : f = [n \in 0 .. Len(l) |-> IF n = 0 THEN <<>> ELSE Apply(l[n], f[n - 1])]
  BY ReplayExists
<1>3. ref = [n \in 0 .. Len(l) |-> IF n = 0 THEN <<>> ELSE Apply(l[n], ref[n - 1])]
  BY <1>2
<1> HIDE DEF ref
<1>4. Replays(ref, l, Len(l)) BY <1>3 DEF Replays
<1>. QED BY <1>1, <1>4

\* One record applied to what the ones before it made.
LEMMA ApplyFacts ==
  ASSUME NEW rec \in Records, NEW old, rec.op = "allocated" \/ old \in Refs
  PROVE  /\ Apply(rec, old) \in Refs
         /\ Apply(rec, old).policy = IF rec.op = "allocated" THEN "" ELSE rec.op
         /\ rec.op # "allocated" => Apply(rec, old).status = "RELEASED"
<1>1. CASE rec.op = "allocated" BY <1>1 DEF Apply, Records, Refs
<1>2. CASE rec.op # "allocated"
  <2>1. rec.op \in {"preserve", "delete"} /\ rec.at \in Instants BY <1>2 DEF Records
  <2> DEFINE new == [old EXCEPT !.status = "RELEASED", !.policy = rec.op, !.releasedAt = rec.at]
  <2>2. new \in Refs /\ new.policy = rec.op /\ new.status = "RELEASED"
    BY <1>2, <2>1 DEF Refs
  <2>. QED BY <1>2, <2>2 DEF Apply
<1>. QED BY <1>1, <1>2

\* A workspace whose records begin with its allocation, and go on with its releases, is
\* known again: as released if there is a release, as deleted only if a record says so.
LEMMA ReplayFacts ==
  ASSUME NEW l \in Seq(Records), l # <<>>,
         \A i \in DOMAIN l : l[i].op = "allocated" <=> i = 1
  PROVE  /\ Replayed(l) \in Refs
         /\ Replayed(l).policy = "delete" => \E i \in DOMAIN l : l[i].op = "delete"
         /\ Len(l) > 1 => Replayed(l).status = "RELEASED"
<1>1. Len(l) \in Nat /\ Len(l) > 0 /\ DOMAIN l = 1 .. Len(l)
      /\ \A i \in 1 .. Len(l) : l[i] \in Records
  OBVIOUS
<1>2. PICK f : Replays(f, l, Len(l)) /\ Replayed(l) = f[Len(l)] BY <1>1, ReplaySteps
<1> DEFINE Good(n) == /\ f[n] \in Refs
                      /\ f[n].policy = "delete" => \E i \in 1 .. n : l[i].op = "delete"
                      /\ n > 1 => f[n].status = "RELEASED"
           S == {n \in Nat : n > 0 /\ n <= Len(l) => Good(n)}
<1>3. 0 \in S OBVIOUS
<1>4. ASSUME NEW n \in Nat, n \in S PROVE n + 1 \in S
  <2>1. SUFFICES ASSUME n + 1 <= Len(l) PROVE Good(n + 1) OBVIOUS
  <2>2. n + 1 \in 1 .. Len(l) /\ n + 1 - 1 = n BY <1>1, <2>1
  <2>3. f[n + 1] = Apply(l[n + 1], f[n]) BY <1>2, <2>2 DEF Replays
  <2>4. l[n + 1].op = "allocated" \/ f[n] \in Refs
    <3>1. CASE n = 0 BY <1>1, <2>2, <3>1
    <3>2. CASE n > 0 BY <1>1, <1>4, <2>1, <3>2
    <3>. QED BY <3>1, <3>2
  <2>5. /\ f[n + 1] \in Refs
        /\ f[n + 1].policy = IF l[n + 1].op = "allocated" THEN "" ELSE l[n + 1].op
        /\ l[n + 1].op # "allocated" => f[n + 1].status = "RELEASED"
    <3>1. PICK rec, old : rec \in Records /\ rec = l[n + 1] /\ old = f[n] BY <1>1, <2>2
    <3>2. /\ Apply(rec, old) \in Refs
          /\ Apply(rec, old).policy = IF rec.op = "allocated" THEN "" ELSE rec.op
          /\ rec.op # "allocated" => Apply(rec, old).status = "RELEASED"
      BY <2>4, <3>1, ApplyFacts
    <3>. QED BY <2>3, <3>1, <3>2
  <2>6. f[n + 1].policy = "delete" => l[n + 1].op = "delete" BY <2>5
  <2>7. n + 1 \in 1 .. n + 1 OBVIOUS
  <2>8. n + 1 > 1 => l[n + 1].op # "allocated" BY <1>1, <2>2
  <2>. QED BY <2>5, <2>6, <2>7, <2>8
<1> HIDE DEF S
<1>5. \A n \in Nat : n \in S BY <1>3, <1>4, Induction
<1>6. Good(Len(l)) BY <1>1, <1>5 DEF S
<1>. QED BY <1>1, <1>2, <1>6

\* The plugin dies and is started again.
LEMMA CrashStep ==
  ASSUME WorkspaceAssumption, Core, Crash
  PROVE  Core'
<1>1. /\ refs' = Load(log) /\ fence' = Nobody /\ now' = now /\ git' = git /\ log' = log
      /\ used' = used /\ faults' = faults
      /\ call' = [c \in Callers |-> Idle]
  BY DEF Crash
<1>2. crashes' \in 0 .. MaxCrashes /\ crashes' > 0
  BY DEF Crash, Core, TypeOK, WorkspaceAssumption
<1>3. \A c \in Callers : call'[c] = Idle /\ Idle.pc = "idle" BY <1>1 DEF Idle
<1>4. DOMAIN refs' = Known(log) /\ \A w \in Known(log) : refs'[w] = Replayed(log[w])
  BY <1>1 DEF Load
<1>5. \A w \in Known(log) :
         w \in used /\ log[w] # <<>> /\ Replayed(log[w]) \in Refs
         /\ (Replayed(log[w]).policy = "delete" => Deleted(w))
  <2>1. SUFFICES ASSUME NEW w \in Known(log)
        PROVE  w \in used /\ log[w] # <<>> /\ Replayed(log[w]) \in Refs
               /\ (Replayed(log[w]).policy = "delete" => Deleted(w))
    OBVIOUS
  <2>2. PICK l : l = log[w] OBVIOUS
  <2>3. /\ l \in Seq(Records) /\ l # <<>> /\ w \in used
        /\ \A i \in DOMAIN l : l[i].op = "allocated" <=> i = 1
    BY <2>1, <2>2 DEF Known, Core, TypeOK, LogInv
  <2>4. /\ Replayed(l) \in Refs
        /\ Replayed(l).policy = "delete" => \E i \in DOMAIN l : l[i].op = "delete"
    BY <2>3, ReplayFacts
  <2>. QED BY <2>2, <2>3, <2>4 DEF Deleted
<1>6. refs' = [w \in Known(log) |-> Replayed(log[w])] BY <1>1 DEF Load
<1>7. refs' \in [DOMAIN refs' -> Refs] BY <1>4, <1>5, <1>6
<1>8. call' \in [Callers -> {Idle} \cup Calls] BY <1>1
<1>9. \A c \in Callers : fence' = c <=> ~ At(c, "idle")' /\ ~ At(c, "enter")'
  BY <1>1, <1>3 DEF At, WorkspaceAssumption
<1>10. TypeOK'
  <2>1. DOMAIN refs' \subseteq used' BY <1>1, <1>4, <1>5
  <2>. QED BY <1>1, <1>2, <1>7, <1>8, <1>9, <2>1 DEF Core, TypeOK
<1>11. CallInv' BY <1>3 DEF CallInv, Adds, Frees, At
<1>12. LogInv' BY <1>1, <1>4, <1>5 DEF Core, LogInv, Deleted
<1>. QED BY <1>10, <1>11, <1>12 DEF Core

\* Every step of the plugin, of its callers and of the clock.
LEMMA EachStep == ASSUME WorkspaceAssumption, Core, [Next]_vars PROVE Core'
<1>1. CASE Tick BY <1>1, TickStep
<1>2. CASE Crash BY <1>2, CrashStep
<1>3. ASSUME NEW c \in Callers,
             \/ Enter(c) \/ Refused(c)
             \/ AddWorktree(c) \/ RecordAllocated(c)
             \/ UndoWorktree(c) \/ UndoBranch(c)
             \/ RemoveWorktree(c) \/ DeleteBranch(c) \/ RecordReleased(c)
             \/ \E w \in Workspaces :
                  \/ Allocate(c, w)
                  \/ \E policy \in {"preserve", "delete"} : Look(c, w, policy)
      PROVE  Core'
  BY <1>3, EnterStep, RefusedStep, AddStep, AllocatedStep, UndoStep, RemoveStep, BranchStep,
     ReleasedStep, AllocateStep, LookStep
<1>4. CASE UNCHANGED vars
  BY <1>4 DEF vars, Core, TypeOK, CallInv, LogInv, At, Adds, Frees, HasRemoved, Undoes,
              Deleted
<1>. QED BY <1>1, <1>2, <1>3, <1>4 DEF Next

-----------------------------------------------------------------------------
\* The count of the lost workspaces: it grows only where a failure or a restart does.
LEMMA FewerLost ==
  ASSUME WorkspaceAssumption, Core, Core', LossInv, Lost' \subseteq Lost,
         faults' >= faults, crashes' >= crashes
  PROVE  LossInv'
<1>1. IsFiniteSet(Lost) BY FS_Subset DEF WorkspaceAssumption, Lost
<1>2. Cardinality(Lost') <= Cardinality(Lost) BY <1>1, FS_Subset
<1>3. Cardinality(Lost) \in Nat /\ Cardinality(Lost') \in Nat
  BY <1>1, FS_Subset, FS_CardinalityType
<1>4. {faults, faults', crashes, crashes'} \subseteq Int
  BY DEF Core, TypeOK, WorkspaceAssumption
<1>. QED BY <1>2, <1>3, <1>4 DEF LossInv

\* One workspace more is lost, and one failure or restart more is counted.
LEMMA OneMoreLost ==
  ASSUME WorkspaceAssumption, Core, Core', LossInv, NEW w, Lost' \subseteq Lost \cup {w},
         faults' + crashes' >= faults + crashes + 1
  PROVE  LossInv'
<1>1. IsFiniteSet(Lost) /\ IsFiniteSet(Lost \cup {w})
  BY FS_Subset, FS_AddElement DEF WorkspaceAssumption, Lost
<1>2. /\ Cardinality(Lost') <= Cardinality(Lost \cup {w})
      /\ Cardinality(Lost \cup {w}) <= Cardinality(Lost) + 1
  BY <1>1, FS_Subset, FS_AddElement, FS_CardinalityType
<1>3. /\ Cardinality(Lost) \in Nat /\ Cardinality(Lost') \in Nat
      /\ Cardinality(Lost \cup {w}) \in Nat
  BY <1>1, FS_Subset, FS_CardinalityType
<1>4. {faults, faults', crashes, crashes'} \subseteq Int
  BY DEF Core, TypeOK, WorkspaceAssumption
<1>. QED BY <1>2, <1>3, <1>4 DEF LossInv

\* A caller that is neither removing nor repairing, before and after its step, loses none.
LEMMA OutsideLoses ==
  ASSUME NEW c \in Callers, \A d \in Callers \ {c} : call'[d] = call[d],
         ~ HasRemoved(c), ~ Undoes(c), ~ HasRemoved(c)', ~ Undoes(c)',
         git' = git, log' = log, refs' = refs
  PROVE  Lost' \subseteq Lost
<1>1. \A d \in Callers : /\ HasRemoved(d)' <=> HasRemoved(d)
                         /\ Undoes(d)' <=> Undoes(d)
                         /\ HasRemoved(d) \/ Undoes(d) => call'[d] = call[d]
  BY DEF HasRemoved, Undoes, At
<1>2. \A w : /\ BeingRemoved(w)' <=> BeingRemoved(w)
             /\ BeingUndone(w)' <=> BeingUndone(w)
             /\ KnownDeleted(w)' <=> KnownDeleted(w)
  BY <1>1 DEF BeingRemoved, BeingUndone, KnownDeleted, Deleted
<1>. QED BY <1>2 DEF Lost

\* The caller inside the fence is the only one that can lose a workspace, and it can
\* lose only its own: the last assumption says that this one was lost before already,
\* or is not now, unless a failure is counted.
LEMMA InsideLoses ==
  ASSUME WorkspaceAssumption, Core, Core', LossInv, NEW c \in Callers, fence = c,
         NEW w \in Workspaces, w = call[c].ws,
         \A d \in Callers \ {c} : call'[d] = call[d],
         HasRemoved(c)' \/ Undoes(c)' => call'[c].ws = w,
         \A x \in Workspaces \ {w} :
           log'[x] = log[x] /\ git'[x] = git[x] /\ (KnownDeleted(x) => KnownDeleted(x)'),
         crashes' = crashes,
         \/ faults' = faults + 1
         \/ faults' = faults + 2
         \/ /\ faults' = faults
            /\ \/ log'[w] = <<>> \/ HasRemoved(c)' \/ KnownDeleted(w)'
               \/ git'[w] = "worktree" /\ ~ Undoes(c)'
               \/ /\ log[w] # <<>> /\ (git[w] # "worktree" \/ Undoes(c))
                  /\ ~ HasRemoved(c) /\ ~ KnownDeleted(w)
  PROVE  LossInv'
<1>1. \A d \in Callers \ {c} : ~ HasRemoved(d) /\ ~ Undoes(d) /\ ~ HasRemoved(d)' /\ ~ Undoes(d)'
  <2>1. \A d \in Callers \ {c} : At(d, "idle") \/ At(d, "enter") BY DEF Core, TypeOK
  <2>. QED BY <2>1 DEF At, HasRemoved, Undoes
<1>2. \A x : /\ BeingRemoved(x) <=> HasRemoved(c) /\ x = w
             /\ BeingUndone(x) <=> Undoes(c) /\ x = w
             /\ BeingRemoved(x)' <=> HasRemoved(c)' /\ x = w
             /\ BeingUndone(x)' <=> Undoes(c)' /\ x = w
  BY <1>1 DEF BeingRemoved, BeingUndone
<1>3. \A x \in Lost' : x = w \/ x \in Lost BY <1>2 DEF Lost
<1>4. faults \in Int /\ crashes \in Int BY DEF Core, TypeOK, WorkspaceAssumption
<1>5. CASE faults' = faults + 1 \/ faults' = faults + 2
  <2>1. faults' + crashes' >= faults + crashes + 1 BY <1>4, <1>5
  <2>. QED BY <1>3, <2>1, OneMoreLost
<1>6. CASE /\ faults' = faults
           /\ \/ log'[w] = <<>> \/ HasRemoved(c)' \/ KnownDeleted(w)'
              \/ git'[w] = "worktree" /\ ~ Undoes(c)'
              \/ /\ log[w] # <<>> /\ (git[w] # "worktree" \/ Undoes(c))
                 /\ ~ HasRemoved(c) /\ ~ KnownDeleted(w)
  <2>1. w \in Lost' => w \in Lost BY <1>2, <1>6 DEF Lost
  <2>2. Lost' \subseteq Lost BY <1>3, <2>1
  <2>. QED BY <1>4, <1>6, <2>2, FewerLost
<1>. QED BY <1>5, <1>6

\* A new plugin has lost nothing.
LEMMA NoneLost == ASSUME WorkspaceAssumption, Init PROVE LossInv
<1>1. Lost = {} BY DEF Lost, Init
<1>. QED BY <1>1, FS_EmptySet DEF LossInv, Init

\* A restart forgets the removal that was going on, of one workspace at most, and no
\* deletion that is on record.
LEMMA CrashLoses ==
  ASSUME WorkspaceAssumption, Core, Core', LossInv, Crash
  PROVE  LossInv'
<1>1. /\ refs' = Load(log) /\ git' = git /\ log' = log /\ faults' = faults
      /\ crashes' = crashes + 1 /\ call' = [c \in Callers |-> Idle]
  BY DEF Crash
<1>2. ASSUME NEW w \in Workspaces, KnownDeleted(w) PROVE KnownDeleted(w)'
  <2>1. PICK l : l = log[w] OBVIOUS
  <2>2. PICK i \in DOMAIN l : l[i].op = "delete" BY <1>2, <2>1 DEF KnownDeleted, Deleted
  <2>3. /\ l \in Seq(Records) /\ l # <<>>
        /\ \A k \in DOMAIN l : l[k].op = "allocated" <=> k = 1
    BY <1>2, <2>1 DEF KnownDeleted, Core, TypeOK, LogInv
  <2>4. Len(l) > 1
    <3>1. Len(l) \in Nat /\ DOMAIN l = 1 .. Len(l) BY <2>3
    <3>2. i # 1 BY <2>2, <2>3
    <3>. QED BY <3>1, <3>2
  <2>5. Replayed(l).status = "RELEASED" BY <2>3, <2>4, ReplayFacts
  <2>6. w \in DOMAIN refs' /\ refs'[w] = Replayed(l)
    BY <1>1, <2>1, <2>3 DEF Load, Known
  <2>. QED BY <1>1, <1>2, <2>5, <2>6 DEF KnownDeleted, Deleted
<1>3. \A w : ~ BeingUndone(w)'
  BY <1>1 DEF BeingUndone, Undoes, At, Idle
<1>4. ASSUME NEW w \in Lost', w \notin Lost
      PROVE  \E c \in Callers : fence = c /\ call[c].ws = w
  <2>1. BeingRemoved(w) BY <1>1, <1>2, <1>3, <1>4 DEF Lost
  <2>2. PICK c \in Callers : HasRemoved(c) /\ call[c].ws = w BY <2>1 DEF BeingRemoved
  <2>3. fence = c BY <2>2 DEF HasRemoved, At, Core, TypeOK
  <2>. QED BY <2>2, <2>3
<1>5. \E w : Lost' \subseteq Lost \cup {w}
  <2>1. Lost' \subseteq Lost \cup {call[fence].ws} BY <1>4
  <2>. QED BY <2>1
<1>6. faults' + crashes' >= faults + crashes + 1
  BY <1>1 DEF Core, TypeOK, WorkspaceAssumption
<1>. QED BY <1>5, <1>6, OneMoreLost

\* Allocations: nothing is on record before the log has it, and what its failed append
\* left there is counted until the repair is over, and after it.
LEMMA AllocationLoses ==
  ASSUME WorkspaceAssumption, Core, Core', LossInv, NEW c \in Callers,
         AddWorktree(c) \/ RecordAllocated(c) \/ UndoWorktree(c) \/ UndoBranch(c)
  PROVE  LossInv'
<1>0. PICK w : w = call[c].ws OBVIOUS
<1>1. /\ w = call[c].ws /\ w \in Workspaces /\ w \notin DOMAIN refs
      /\ call[c] \in Calls /\ fence = c /\ Adds(c) /\ ~ HasRemoved(c)
  <2>1. /\ ~ At(c, "idle") /\ ~ At(c, "enter") /\ ~ HasRemoved(c)
        /\ At(c, "add") \/ At(c, "allocated") \/ Undoes(c)
    BY DEF AddWorktree, RecordAllocated, UndoWorktree, UndoBranch, At, Undoes, HasRemoved
  <2>2. call[c] \in Calls /\ fence = c BY <2>1 DEF Core, TypeOK, At, Idle
  <2>3. Adds(c) BY <2>1, <2>2, CallFields DEF Adds, At, Undoes, Steps
  <2>. QED BY <1>0, <2>1, <2>2, <2>3, CallFields DEF Core, CallInv
<1>2. /\ crashes' = crashes
      /\ \A d \in Callers \ {c} : call'[d] = call[d]
      /\ HasRemoved(c)' \/ Undoes(c)' => call'[c].ws = w
  <2>1. crashes' = crashes BY DEF AddWorktree, RecordAllocated, UndoWorktree, UndoBranch
  <2>2. Leaves(c) \/ \E pc : Goes(c, pc)
    BY DEF AddWorktree, RecordAllocated, UndoWorktree, UndoBranch
  <2>3. CASE Leaves(c)
    BY <2>1, <2>3 DEF Leaves, Returns, Core, TypeOK, HasRemoved, Undoes, At, Idle
  <2>4. CASE \E pc : Goes(c, pc)
    <3>1. PICK pc : call' = [call EXCEPT ![c].pc = pc] BY <2>4 DEF Goes
    <3>2. call'[c] = [call[c] EXCEPT !.pc = pc] BY <3>1 DEF Core, TypeOK
    <3>3. call'[c].ws = w BY <1>1, <3>2 DEF Calls
    <3>. QED BY <2>1, <3>1, <3>3 DEF Core, TypeOK
  <2>. QED BY <2>2, <2>3, <2>4
<1>3. CASE AddWorktree(c)
  <2>1. log' = log /\ refs' = refs /\ At(c, "add") BY <1>3 DEF AddWorktree, store
  <2>2. log[w] = <<>> BY <1>1, <2>1 DEF Core, CallInv, Undoes, At
  <2>3. \A x \in Workspaces \ {w} : git'[x] = git[x]
    BY <1>1, <1>3 DEF AddWorktree, Core, TypeOK
  <2>4. \A x : KnownDeleted(x) => KnownDeleted(x)' BY <2>1 DEF KnownDeleted, Deleted
  <2>5. faults' = faults \/ faults' = faults + 1 \/ faults' = faults + 2
    BY <1>3, Zenon DEF AddWorktree, Fault, TwoFaults
  <2>. QED BY <1>1, <1>2, <2>1, <2>2, <2>3, <2>4, <2>5, InsideLoses
<1>4. CASE RecordAllocated(c)
  <2>1. PICK rec : \/ AppendOk(w, rec) /\ Leaves(c)
                   \/ AppendFails(w, rec) /\ Goes(c, "undo") /\ fence' = fence
    BY <1>1, <1>4 DEF RecordAllocated
  <2>2. git' = git /\ At(c, "allocated") BY <1>4 DEF RecordAllocated
  <2>3. \A x \in Workspaces \ {w} : log'[x] = log[x]
    BY <2>1 DEF AppendOk, AppendFails, Core, TypeOK
  <2>4. \A x \in DOMAIN refs \ {w} : x \in DOMAIN refs' /\ refs'[x] = refs[x]
    BY <2>1 DEF AppendOk, AppendFails
  <2>5. \A x \in Workspaces \ {w} : KnownDeleted(x) => KnownDeleted(x)'
    BY <2>3, <2>4 DEF KnownDeleted, Deleted
  <2>6. CASE AppendOk(w, rec) /\ Leaves(c)
    <3>1. faults' = faults BY <2>6 DEF AppendOk
    <3>2. git'[w] = "worktree" BY <1>1, <2>2 DEF Core, CallInv
    <3>3. ~ Undoes(c)' BY <2>6 DEF Leaves, Returns, Core, TypeOK, Undoes, At, Idle
    <3>. QED BY <1>1, <1>2, <2>2, <2>3, <2>5, <3>1, <3>2, <3>3, InsideLoses
  <2>7. CASE AppendFails(w, rec)
    <3>1. faults' = faults + 1 BY <2>7 DEF AppendFails, Fault
    <3>. QED BY <1>1, <1>2, <2>2, <2>3, <2>5, <3>1, InsideLoses
  <2>. QED BY <2>1, <2>6, <2>7
<1>5. CASE UndoWorktree(c) \/ UndoBranch(c)
  <2>1. log' = log /\ refs' = refs /\ Undoes(c)
    BY <1>5 DEF UndoWorktree, UndoBranch, store, Undoes
  <2>2. \A x \in Workspaces \ {w} : git'[x] = git[x]
    BY <1>1, <1>5 DEF UndoWorktree, UndoBranch, TakenBack, Core, TypeOK
  <2>3. \A x : KnownDeleted(x) => KnownDeleted(x)' BY <2>1 DEF KnownDeleted, Deleted
  <2>4. faults' = faults \/ faults' = faults + 1
    BY <1>5, Zenon DEF UndoWorktree, UndoBranch, Fault
  <2>5. ~ KnownDeleted(w) BY <1>1 DEF KnownDeleted
  <2>. QED BY <1>1, <1>2, <2>1, <2>2, <2>3, <2>4, <2>5, InsideLoses
<1>. QED BY <1>3, <1>4, <1>5

\* Releases: between the removal and its record a workspace counts as being removed, and
\* after the record as deleted, unless the record failed.
LEMMA ReleaseLoses ==
  ASSUME WorkspaceAssumption, Core, Core', LossInv, NEW c \in Callers,
         RemoveWorktree(c) \/ DeleteBranch(c) \/ RecordReleased(c)
  PROVE  LossInv'
<1>0. PICK w : w = call[c].ws OBVIOUS
<1>1. /\ w = call[c].ws /\ w \in DOMAIN refs /\ w \in Workspaces
      /\ call[c] \in Calls /\ fence = c /\ Frees(c)
      /\ log[w] # <<>> /\ ~ Undoes(c)
  <2>1. /\ ~ At(c, "idle") /\ ~ At(c, "enter") /\ ~ Undoes(c)
        /\ At(c, "remove") \/ At(c, "branch") \/ At(c, "released")
    BY DEF RemoveWorktree, DeleteBranch, RecordReleased, At, Undoes
  <2>2. call[c] \in Calls BY <2>1 DEF Core, TypeOK, At, Idle
  <2>3. Frees(c) BY <2>1, <2>2, CallFields DEF Frees, At, Steps
  <2>. QED BY <1>0, <2>1, <2>3, Freeing
<1>2. /\ crashes' = crashes
      /\ \A d \in Callers \ {c} : call'[d] = call[d]
      /\ HasRemoved(c)' \/ Undoes(c)' => call'[c].ws = w
  <2>1. crashes' = crashes BY DEF RemoveWorktree, DeleteBranch, RecordReleased
  <2>2. Leaves(c) \/ \E pc : Goes(c, pc)
    BY DEF RemoveWorktree, DeleteBranch, RecordReleased, RemovalFails
  <2>3. CASE Leaves(c)
    BY <2>1, <2>3 DEF Leaves, Returns, Core, TypeOK, HasRemoved, Undoes, At, Idle
  <2>4. CASE \E pc : Goes(c, pc)
    <3>1. PICK pc : call' = [call EXCEPT ![c].pc = pc] BY <2>4 DEF Goes
    <3>2. call'[c] = [call[c] EXCEPT !.pc = pc] BY <3>1 DEF Core, TypeOK
    <3>3. call'[c].ws = w BY <1>1, <3>2 DEF Calls
    <3>. QED BY <2>1, <3>1, <3>3 DEF Core, TypeOK
  <2>. QED BY <2>2, <2>3, <2>4
<1>3. CASE RemoveWorktree(c)
  <2>1. log' = log /\ refs' = refs /\ At(c, "remove") BY <1>3 DEF RemoveWorktree, store
  <2>2. \A x \in Workspaces \ {w} : git'[x] = git[x]
    BY <1>1, <1>3 DEF RemoveWorktree, Core, TypeOK
  <2>3. \A x : KnownDeleted(x)' <=> KnownDeleted(x) BY <2>1 DEF KnownDeleted, Deleted
  <2>4. CASE Goes(c, "branch") /\ faults' = faults
    <3>1. HasRemoved(c)' BY <1>1, <2>4 DEF Goes, Core, TypeOK, HasRemoved, At, Calls
    <3>. QED BY <1>1, <1>2, <2>1, <2>2, <2>3, <2>4, <3>1, InsideLoses
  <2>5. CASE faults' = faults + 1
    BY <1>1, <1>2, <2>1, <2>2, <2>3, <2>5, InsideLoses
  <2>6. CASE faults' = faults /\ git[w] # "worktree"
    <3>1. ~ HasRemoved(c) BY <2>1 DEF HasRemoved, At
    <3>2. CASE KnownDeleted(w)
      <4>1. KnownDeleted(w)' BY <2>3, <3>2
      <4>. QED BY <1>1, <1>2, <2>1, <2>2, <2>3, <2>6, <4>1, InsideLoses
    <3>3. CASE ~ KnownDeleted(w)
      <4>1. /\ log[w] # <<>> /\ (git[w] # "worktree" \/ Undoes(c))
            /\ ~ HasRemoved(c) /\ ~ KnownDeleted(w)
        BY <1>1, <2>6, <3>1, <3>3
      <4>2. \A x \in Workspaces \ {w} :
              log'[x] = log[x] /\ git'[x] = git[x] /\ (KnownDeleted(x) => KnownDeleted(x)')
        BY <2>1, <2>2, <2>3
      <4>. QED BY <1>1, <1>2, <2>6, <4>1, <4>2, InsideLoses
    <3>. QED BY <3>2, <3>3
  <2>7. \/ Goes(c, "branch") /\ faults' = faults
        \/ faults' = faults + 1
        \/ faults' = faults /\ git[w] # "worktree"
    BY <1>1, <1>3, Zenon DEF RemoveWorktree, Fault
  <2>. QED BY <2>4, <2>5, <2>6, <2>7
<1>4. CASE DeleteBranch(c)
  <2>1. log' = log /\ refs' = refs /\ At(c, "branch") /\ Goes(c, "released")
    BY <1>4 DEF DeleteBranch, store
  <2>2. \A x \in Workspaces \ {w} : git'[x] = git[x]
    BY <1>1, <1>4 DEF DeleteBranch, Core, TypeOK
  <2>3. \A x : KnownDeleted(x)' <=> KnownDeleted(x) BY <2>1 DEF KnownDeleted, Deleted
  <2>4. faults' = faults \/ faults' = faults + 1 BY <1>4, Zenon DEF DeleteBranch, Fault
  <2>5. HasRemoved(c)'
    <3>1. call[c].policy = "delete" BY <1>1, <2>1, CallFields DEF At, Steps
    <3>. QED BY <1>1, <2>1, <3>1 DEF Goes, Core, TypeOK, HasRemoved, At, Calls
  <2>. QED BY <1>1, <1>2, <2>1, <2>2, <2>3, <2>4, <2>5, InsideLoses
<1>5. CASE RecordReleased(c)
  <2>1. PICK rec : /\ rec = [op |-> call[c].policy, at |-> now]
                   /\ AppendOk(w, rec) \/ AppendFails(w, rec)
    BY <1>1, <1>5 DEF RecordReleased
  <2>2. git' = git /\ At(c, "released") /\ Leaves(c) BY <1>5 DEF RecordReleased
  <2>3. rec \in Records /\ rec.op = call[c].policy /\ rec.op \in {"preserve", "delete"}
    <3>1. call[c].policy \in {"preserve", "delete"} BY <1>1, CallFields DEF Frees
    <3>. QED BY <2>1, <3>1 DEF Records, Core, TypeOK
  <2>4. \A x \in Workspaces \ {w} : log'[x] = log[x]
    BY <2>1 DEF AppendOk, AppendFails, Core, TypeOK
  <2>5. \A x \in DOMAIN refs \ {w} : x \in DOMAIN refs' /\ refs'[x] = refs[x]
    BY <2>1 DEF AppendOk, AppendFails
  <2>6. \A x \in Workspaces \ {w} : KnownDeleted(x) => KnownDeleted(x)'
    BY <2>4, <2>5 DEF KnownDeleted, Deleted
  <2>7. CASE AppendOk(w, rec)
    <3>1. /\ log' = [log EXCEPT ![w] = Append(log[w], rec)] /\ faults' = faults
          /\ w \in DOMAIN refs' /\ refs'[w].status = "RELEASED"
      BY <1>1, <2>3, <2>7, AppendFacts DEF Core
    <3>2. Deleted(w)' <=> Deleted(w) \/ rec.op = "delete"
      <4>1. log[w] = <<>> <=> rec.op = "allocated" BY <1>1, <2>3
      <4>2. log' = [log EXCEPT ![w] = Append(log[w], rec)] BY <3>1
      <4>3. rec \in Records /\ w \in Workspaces BY <1>1, <2>3
      <4>. QED BY <4>1, <4>2, <4>3, Lengthened
    <3>3. ~ Undoes(c)' BY <2>2 DEF Leaves, Returns, Core, TypeOK, Undoes, At, Idle
    <3>4. CASE rec.op = "delete" \/ Deleted(w)
      <4>1. KnownDeleted(w)' BY <3>1, <3>2, <3>4 DEF KnownDeleted
      <4>. QED BY <1>1, <1>2, <2>2, <2>4, <2>6, <3>1, <4>1, InsideLoses
    <3>5. CASE rec.op # "delete" /\ ~ Deleted(w)
      <4>1. ~ HasRemoved(c) BY <2>2, <2>3, <3>5 DEF HasRemoved, At
      <4>2. ~ KnownDeleted(w) BY <3>5 DEF KnownDeleted
      <4>. QED BY <1>1, <1>2, <2>2, <2>4, <2>6, <3>1, <3>3, <4>1, <4>2, InsideLoses
    <3>. QED BY <3>4, <3>5
  <2>8. CASE AppendFails(w, rec)
    <3>1. faults' = faults + 1 BY <2>8 DEF AppendFails, Fault
    <3>. QED BY <1>1, <1>2, <2>2, <2>4, <2>6, <3>1, InsideLoses
  <2>. QED BY <2>1, <2>7, <2>8
<1>. QED BY <1>3, <1>4, <1>5

\* Every step: only those inside the fence and a restart change what is lost.
LEMMA LossStep == ASSUME WorkspaceAssumption, Core, LossInv, [Next]_vars PROVE LossInv'
<1>1. Core' BY EachStep
<1>2. {faults, crashes} \subseteq Int BY DEF Core, TypeOK, WorkspaceAssumption
<1>3. CASE Tick \/ UNCHANGED vars
  BY <1>3 DEF Tick, vars, LossInv, Lost, BeingRemoved, BeingUndone, KnownDeleted, Deleted,
              HasRemoved, Undoes, At
<1>4. CASE Crash BY <1>1, <1>4, CrashLoses
<1>5. ASSUME NEW c \in Callers, NEW w \in Workspaces, NEW policy,
             Enter(c) \/ Refused(c) \/ Allocate(c, w) \/ Look(c, w, policy)
      PROVE  LossInv'
  <2>1. /\ git' = git /\ log' = log /\ refs' = refs /\ faults' = faults /\ crashes' = crashes
        /\ At(c, "enter") \/ At(c, "idle")
    BY <1>5 DEF Enter, Refused, Allocate, Look, store
  <2>2. \E k : call' = [call EXCEPT ![c] = k]
    BY <1>5 DEF Enter, Refused, Allocate, Look, Goes, Returns
  <2>3. \A d \in Callers \ {c} : call'[d] = call[d] BY <2>2 DEF Core, TypeOK
  <2>4. ~ HasRemoved(c) /\ ~ Undoes(c) BY <2>1 DEF HasRemoved, Undoes, At
  <2>5. ~ HasRemoved(c)' /\ ~ Undoes(c)'
    <3>1. CASE Enter(c)
      <4>1. call[c] \in Calls /\ At(c, "enter") BY <3>1 DEF Enter, Core, TypeOK, At, Idle
      <4>2. /\ call'[c].pc = call[c].first /\ call'[c].policy = call[c].policy
        BY <3>1, <4>1 DEF Enter, Goes, Core, TypeOK, Calls
      <4>. QED BY <4>1, <4>2, CallFields DEF HasRemoved, Undoes, At
    <3>2. CASE Refused(c) \/ Allocate(c, w) \/ Look(c, w, policy)
      <4>1. ASSUME NEW k, call' = [call EXCEPT ![c] = k] PROVE call'[c] = k
        BY <4>1 DEF Core, TypeOK
      <4>2. call'[c].pc \in {"idle", "enter"}
        <5>1. CASE Refused(c)
          <6>1. call'[c] = Idle BY <4>1, <5>1 DEF Refused, Returns
          <6>. QED BY <6>1 DEF Idle
        <5>2. CASE Allocate(c, w) BY <4>1, <5>2 DEF Allocate
        <5>3. CASE Look(c, w, policy)
          <6> DEFINE k == [pc |-> "enter",
                           first |-> IF policy = "delete" THEN "remove" ELSE "released",
                           ws |-> w, policy |-> policy, at |-> Never]
          <6>1. call' = [call EXCEPT ![c] = k] /\ k.pc = "enter" BY <5>3 DEF Look
          <6> HIDE DEF k
          <6>. QED BY <4>1, <6>1
        <5>. QED BY <3>2, <5>1, <5>2, <5>3
      <4>. QED BY <4>2 DEF HasRemoved, Undoes, At
    <3>. QED BY <1>5, <3>1, <3>2
  <2>6. Lost' \subseteq Lost BY <2>1, <2>3, <2>4, <2>5, OutsideLoses
  <2>. QED BY <1>1, <1>2, <2>1, <2>6, FewerLost
<1>6. ASSUME NEW c \in Callers,
             \/ Enter(c) \/ Refused(c)
             \/ AddWorktree(c) \/ RecordAllocated(c)
             \/ UndoWorktree(c) \/ UndoBranch(c)
             \/ RemoveWorktree(c) \/ DeleteBranch(c) \/ RecordReleased(c)
             \/ \E w \in Workspaces :
                  \/ Allocate(c, w)
                  \/ \E policy \in {"preserve", "delete"} : Look(c, w, policy)
      PROVE  LossInv'
  <2>1. CASE Enter(c) \/ Refused(c)
    <3>1. call[c] \in Calls
      BY <2>1 DEF Enter, Refused, Core, TypeOK, At, Idle
    <3>2. call[c].ws \in Workspaces BY <3>1, CallFields
    <3>. QED BY <1>5, <2>1, <3>2
  <2>. QED BY <1>1, <1>5, <1>6, <2>1, AllocationLoses, ReleaseLoses
<1>. QED BY <1>3, <1>4, <1>6 DEF Next

\* A workspace on record as deleted has no tree, a call inside the fence is the only one,
\* and every workspace that is lost is paid for by a failure or a restart.
THEOREM Invariance == Spec => []Inv
<1>1. Init => Core BY WorkspaceAssumption, Initially
<1>2. Core /\ [Next]_vars => Core' BY WorkspaceAssumption, EachStep
<1>3. Init => LossInv BY WorkspaceAssumption, NoneLost
<1>4. Core /\ LossInv /\ [Next]_vars => LossInv' BY WorkspaceAssumption, LossStep
<1>5. Core /\ LossInv => Inv BY OnRecord DEF Core, Inv
<1>. QED BY <1>1, <1>2, <1>3, <1>4, <1>5, PTL DEF Spec

-----------------------------------------------------------------------------
\* A tree that a record or the call in the fence names goes on being named.
LEMMA StillNamed ==
  ASSUME WorkspaceAssumption, Core, NoSpareTrees,
         crashes' = crashes, faults' \in Int, faults' >= faults, DOMAIN refs \subseteq DOMAIN refs',
         \A x \in Workspaces : git'[x] = "worktree" =>
           \/ x \in DOMAIN refs'
           \/ \E c \in Callers : fence' = c /\ call'[c].ws = x
           \/ /\ git[x] = "worktree"
              /\ \A c \in Callers : fence = c /\ call[c].ws = x => fence' = c /\ call'[c].ws = x
  PROVE  NoSpareTrees'
<1>1. SUFFICES ASSUME crashes' = 0, faults' < 2, NEW x \in Workspaces, git'[x] = "worktree"
      PROVE  x \in DOMAIN refs' \/ \E c \in Callers : fence' = c /\ call'[c].ws = x
  BY DEF NoSpareTrees
<1>2. crashes = 0 /\ faults < 2
  <2>1. faults \in Int BY DEF Core, TypeOK, WorkspaceAssumption
  <2>. QED BY <1>1, <2>1
<1>3. git[x] = "worktree" => x \in DOMAIN refs \/ \E c \in Callers : fence = c /\ call[c].ws = x
  BY <1>2 DEF NoSpareTrees
<1>. QED BY <1>1, <1>3

\* The same step by step, up to the second failure and the first crash.
LEMMA NamedStep ==
  ASSUME WorkspaceAssumption, Core, NoSpareTrees, [Next]_vars
  PROVE  NoSpareTrees'
<1>1. Core' BY EachStep
<1>2. /\ faults \in 0 .. MaxFaults /\ faults' \in Int /\ MaxFaults \in Nat /\ crashes \in Int
      /\ crashes >= 0
  BY <1>1 DEF Core, TypeOK, WorkspaceAssumption
<1>3. ASSUME NEW c \in Callers, ~ At(c, "idle"), ~ At(c, "enter")
      PROVE  /\ fence = c /\ call[c] \in Calls /\ call[c].ws \in Workspaces
             /\ Frees(c) => call[c].ws \in DOMAIN refs
  <2>1. call[c] \in Calls /\ fence = c BY <1>3 DEF Core, TypeOK, At, Idle
  <2>. QED BY <2>1, CallFields DEF Core, CallInv
<1>4. CASE Tick
  BY <1>2, <1>4, StillNamed DEF Tick
<1>5. ASSUME NEW c \in Callers, Enter(c) PROVE NoSpareTrees'
  <2>1. crashes' = crashes /\ faults' = faults /\ refs' = refs /\ git' = git /\ fence = Nobody
    BY <1>5 DEF Enter, Waits, store
  <2>2. \A d \in Callers : fence # d BY <2>1 DEF WorkspaceAssumption
  <2>. QED BY <1>2, <2>1, <2>2, StillNamed
<1>6. ASSUME NEW c \in Callers, Refused(c) PROVE NoSpareTrees'
  <2>1. /\ crashes' = crashes /\ faults' = faults /\ refs' = refs /\ git' = git /\ fence' = fence
        /\ At(c, "enter") /\ call' = [call EXCEPT ![c] = Idle]
    BY <1>6 DEF Refused, Returns, store
  <2>2. fence # c BY <2>1 DEF Core, TypeOK
  <2>3. \A d \in Callers \ {c} : call'[d] = call[d] BY <2>1 DEF Core, TypeOK
  <2>. QED BY <1>2, <2>1, <2>2, <2>3, StillNamed
<1>7. ASSUME NEW c \in Callers, NEW w \in Workspaces, Allocate(c, w) PROVE NoSpareTrees'
  <2>1. /\ crashes' = crashes /\ faults' = faults /\ refs' = refs /\ git' = git /\ fence' = fence
        /\ At(c, "idle") /\ \E k : call' = [call EXCEPT ![c] = k]
    BY <1>7 DEF Allocate, store
  <2>2. fence # c BY <2>1 DEF Core, TypeOK
  <2>3. \A d \in Callers \ {c} : call'[d] = call[d] BY <2>1 DEF Core, TypeOK
  <2>. QED BY <1>2, <2>1, <2>2, <2>3, StillNamed
<1>8. ASSUME NEW c \in Callers, NEW w \in Workspaces, NEW policy, Look(c, w, policy)
      PROVE  NoSpareTrees'
  <2>1. /\ crashes' = crashes /\ faults' = faults /\ refs' = refs /\ git' = git /\ fence' = fence
        /\ At(c, "idle") /\ \E k : call' = [call EXCEPT ![c] = k]
    BY <1>8 DEF Look, store
  <2>2. fence # c BY <2>1 DEF Core, TypeOK
  <2>3. \A d \in Callers \ {c} : call'[d] = call[d] BY <2>1 DEF Core, TypeOK
  <2>. QED BY <1>2, <2>1, <2>2, <2>3, StillNamed
<1>9. ASSUME NEW c \in Callers, AddWorktree(c) PROVE NoSpareTrees'
  <2>1. PICK w : /\ w = call[c].ws
                 /\ \/ /\ git' = [git EXCEPT ![w] = "worktree"] /\ Goes(c, "allocated")
                       /\ fence' = fence /\ faults' = faults
                    \/ /\ faults' = faults + 1
                       /\ \E left \in {"nothing", "branch"} : git' = [git EXCEPT ![w] = left]
                    \/ faults' = faults + 2 /\ git' = [git EXCEPT ![w] = "worktree"]
    BY <1>9 DEF AddWorktree, Fault, TwoFaults
  <2>2. crashes' = crashes /\ refs' = refs /\ At(c, "add") BY <1>9 DEF AddWorktree, store
  <2>3. fence = c /\ call[c] \in Calls /\ w \in Workspaces BY <1>3, <2>1, <2>2 DEF At
  <2>4. \A x \in Workspaces \ {w} : git'[x] = git[x] BY <2>1 DEF Core, TypeOK
  <2>5. CASE /\ git' = [git EXCEPT ![w] = "worktree"] /\ Goes(c, "allocated")
             /\ fence' = fence /\ faults' = faults
    <3>1. call'[c].ws = w BY <2>1, <2>3, <2>5 DEF Goes, Core, TypeOK, Calls
    <3>. QED BY <1>2, <2>1, <2>2, <2>3, <2>4, <2>5, <3>1, StillNamed
  <2>6. CASE /\ faults' = faults + 1
             /\ \E left \in {"nothing", "branch"} : git' = [git EXCEPT ![w] = left]
    <3>1. git'[w] # "worktree" BY <2>3, <2>6 DEF Core, TypeOK
    <3>. QED BY <1>2, <2>1, <2>2, <2>3, <2>4, <2>6, <3>1, StillNamed
  <2>7. CASE faults' = faults + 2
    <3>1. ~ (faults' < 2) BY <1>2, <2>7
    <3>. QED BY <3>1 DEF NoSpareTrees
  <2>. QED BY <2>1, <2>5, <2>6, <2>7
<1>10. ASSUME NEW c \in Callers, RecordAllocated(c) PROVE NoSpareTrees'
  <2>1. PICK w, rec : /\ w = call[c].ws /\ rec = [op |-> "allocated", at |-> call[c].at]
                      /\ \/ AppendOk(w, rec)
                         \/ AppendFails(w, rec) /\ Goes(c, "undo") /\ fence' = fence
    BY <1>10 DEF RecordAllocated
  <2>2. crashes' = crashes /\ git' = git /\ At(c, "allocated") BY <1>10 DEF RecordAllocated
  <2>3. fence = c /\ call[c] \in Calls BY <1>3, <2>2 DEF At
  <2>4. CASE AppendOk(w, rec)
    <3>1. DOMAIN refs' = DOMAIN refs \cup {w} /\ faults' = faults BY <2>4 DEF AppendOk
    <3>. QED BY <1>2, <2>1, <2>2, <2>3, <3>1, StillNamed
  <2>5. CASE AppendFails(w, rec) /\ Goes(c, "undo") /\ fence' = fence
    <3>1. refs' = refs /\ faults' = faults + 1 BY <2>5 DEF AppendFails, Fault
    <3>2. call'[c].ws = w BY <2>1, <2>3, <2>5 DEF Goes, Core, TypeOK, Calls
    <3>. QED BY <1>2, <2>1, <2>2, <2>3, <2>5, <3>1, <3>2, StillNamed
  <2>. QED BY <2>1, <2>4, <2>5
<1>11. ASSUME NEW c \in Callers, UndoWorktree(c) \/ UndoBranch(c) PROVE NoSpareTrees'
  <2>1. /\ Undoes(c) /\ crashes' = crashes /\ refs' = refs
        /\ faults' = faults \/ faults' = faults + 1
    BY <1>11, Zenon DEF UndoWorktree, UndoBranch, Undoes, store, Fault
  <2>2. PICK w : w = call[c].ws OBVIOUS
  <2>3. fence = c /\ w \in Workspaces /\ faults > 0 BY <2>1, <2>2, Undoing
  <2>4. CASE faults' = faults + 1
    <3>1. ~ (faults' < 2) BY <1>2, <2>3, <2>4
    <3>. QED BY <3>1 DEF NoSpareTrees
  <2>5. CASE faults' = faults
    <3>1. faults' # faults + 1 BY <1>2, <2>5
    <3>2. /\ \A x \in Workspaces \ {w} : git'[x] = git[x]
          /\ git'[w] = "worktree" => git[w] = "worktree" /\ UndoBranch(c)
      BY <1>11, <2>2, <2>3, <3>1 DEF UndoWorktree, UndoBranch, TakenBack, Fault, Core, TypeOK
    <3>3. git'[w] = "worktree" => faults > 1
      <4>1. UndoBranch(c) => At(c, "unbranch") /\ Adds(c) BY <2>1, Undoing DEF UndoBranch
      <4>. QED BY <2>2, <3>2, <4>1 DEF Core, CallInv
    <3>4. CASE git'[w] = "worktree"
      <4>1. ~ (faults' < 2) BY <1>2, <2>5, <3>3, <3>4
      <4>. QED BY <4>1 DEF NoSpareTrees
    <3>5. CASE git'[w] # "worktree"
      BY <1>2, <2>1, <2>2, <2>3, <2>5, <3>2, <3>5, StillNamed
    <3>. QED BY <3>4, <3>5
  <2>. QED BY <2>1, <2>4, <2>5
\* A release has the workspace on record.
<1>12. ASSUME NEW c \in Callers, NEW w, w = call[c].ws, w \in Workspaces, fence = c,
              w \in DOMAIN refs, DOMAIN refs \subseteq DOMAIN refs', crashes' = crashes,
              faults' >= faults, \A x \in Workspaces \ {w} : git'[x] = git[x]
       PROVE  NoSpareTrees'
  BY <1>2, <1>12, StillNamed
<1>13. ASSUME NEW c \in Callers, At(c, "remove") \/ At(c, "branch") \/ At(c, "released")
       PROVE  fence = c /\ call[c].ws \in DOMAIN refs /\ call[c].ws \in Workspaces
  <2>1. ~ At(c, "idle") /\ ~ At(c, "enter") BY <1>13 DEF At
  <2>2. Frees(c) BY <1>3, <1>13, <2>1, CallFields DEF Frees, At, Steps
  <2>. QED BY <1>3, <2>1, <2>2
<1>14. ASSUME NEW c \in Callers, RemoveWorktree(c) PROVE NoSpareTrees'
  <2>1. PICK w : /\ w = call[c].ws
                 /\ git' = git \/ git' = [git EXCEPT ![w] = "branch"]
                 /\ faults' = faults \/ faults' = faults + 1
    BY <1>14, Zenon DEF RemoveWorktree, Fault
  <2>2. crashes' = crashes /\ refs' = refs /\ At(c, "remove")
    BY <1>14 DEF RemoveWorktree, store
  <2>3. \A x \in Workspaces \ {w} : git'[x] = git[x] BY <2>1 DEF Core, TypeOK
  <2>4. faults' >= faults BY <1>2, <2>1
  <2>. QED BY <1>12, <1>13, <2>1, <2>2, <2>3, <2>4
<1>15. ASSUME NEW c \in Callers, DeleteBranch(c) PROVE NoSpareTrees'
  <2>1. PICK w : /\ w = call[c].ws
                 /\ git' = git \/ git' = [git EXCEPT ![w] = "nothing"]
                 /\ faults' = faults \/ faults' = faults + 1
    BY <1>15, Zenon DEF DeleteBranch, Fault
  <2>2. crashes' = crashes /\ refs' = refs /\ At(c, "branch")
    BY <1>15 DEF DeleteBranch, store
  <2>3. \A x \in Workspaces \ {w} : git'[x] = git[x] BY <2>1 DEF Core, TypeOK
  <2>4. faults' >= faults BY <1>2, <2>1
  <2>. QED BY <1>12, <1>13, <2>1, <2>2, <2>3, <2>4
<1>16. ASSUME NEW c \in Callers, RecordReleased(c) PROVE NoSpareTrees'
  <2>1. PICK w, rec : w = call[c].ws /\ (AppendOk(w, rec) \/ AppendFails(w, rec))
    BY <1>16 DEF RecordReleased
  <2>2. crashes' = crashes /\ git' = git /\ At(c, "released") BY <1>16 DEF RecordReleased
  <2>3. faults' = faults \/ faults' = faults + 1
    BY <2>1, Zenon DEF AppendOk, AppendFails, Fault
  <2>4. DOMAIN refs \subseteq DOMAIN refs' BY <2>1 DEF AppendOk, AppendFails
  <2>5. faults' >= faults BY <1>2, <2>3
  <2>. QED BY <1>12, <1>13, <2>1, <2>2, <2>4, <2>5
<1>17. CASE Crash
  <2>1. crashes' = crashes + 1 BY <1>17 DEF Crash
  <2>2. crashes' # 0 BY <1>2, <2>1
  <2>. QED BY <2>2 DEF NoSpareTrees
<1>18. CASE UNCHANGED vars BY <1>18 DEF vars, NoSpareTrees
<1>. QED BY <1>4, <1>5, <1>6, <1>7, <1>8, <1>9, <1>10, <1>11, <1>14, <1>15, <1>16, <1>17, <1>18
         DEF Next

\* A worktree is never left without a record that names it by one failure alone.
THEOREM TreesAreNamed == Spec => []NoSpareTrees
<1>1. Init => Core BY WorkspaceAssumption, Initially
<1>2. Init => NoSpareTrees BY DEF Init, NoSpareTrees
<1>3. Core /\ [Next]_vars => Core' BY WorkspaceAssumption, EachStep
<1>4. Core /\ NoSpareTrees /\ [Next]_vars => NoSpareTrees' BY WorkspaceAssumption, NamedStep
<1>. QED BY <1>1, <1>2, <1>3, <1>4, PTL DEF Spec

-----------------------------------------------------------------------------
\* The order of texts is the strict total order of a dictionary.
LEMMA SmallerStrict == ASSUME NEW a \in Seq(Int) PROVE ~ Smaller(a, a)
BY DEF Smaller

LEMMA SmallerTransitive ==
  ASSUME NEW a \in Seq(Int), NEW b \in Seq(Int), NEW c \in Seq(Int),
         Smaller(a, b), Smaller(b, c)
  PROVE  Smaller(a, c)
<1>1. PICK i \in 1 .. Len(b) : /\ i > Len(a) \/ a[i] < b[i]
                               /\ \A j \in 1 .. i - 1 : j <= Len(a) /\ a[j] = b[j]
  BY DEF Smaller
<1>2. PICK k \in 1 .. Len(c) : /\ k > Len(b) \/ b[k] < c[k]
                               /\ \A j \in 1 .. k - 1 : j <= Len(b) /\ b[j] = c[j]
  BY DEF Smaller
<1>3. Len(a) \in Nat /\ Len(b) \in Nat /\ Len(c) \in Nat OBVIOUS
<1>4. CASE i <= k
  <2>1. i \in 1 .. Len(c) BY <1>1, <1>2, <1>3, <1>4
  <2>2. \A j \in 1 .. i - 1 : j <= Len(a) /\ a[j] = c[j] BY <1>1, <1>2, <1>3, <1>4
  <2>3. i > Len(a) \/ a[i] < c[i]
    <3>1. SUFFICES ASSUME i <= Len(a) PROVE a[i] < c[i] BY <1>3
    <3>2. a[i] < b[i] /\ a[i] \in Int /\ b[i] \in Int /\ c[i] \in Int
      <4>1. a[i] < b[i] BY <1>1, <1>3, <3>1
      <4>2. i \in 1 .. Len(a) /\ i \in 1 .. Len(b) BY <1>1, <1>3, <3>1
      <4>. QED BY <2>1, <4>1, <4>2
    <3>3. b[i] = c[i] \/ b[i] < c[i]
      <4>1. CASE i = k BY <1>2, <1>1, <1>3, <4>1
      <4>2. CASE i < k
        <5>1. i \in 1 .. k - 1 BY <1>1, <1>2, <4>2
        <5>. QED BY <1>2, <5>1
      <4>. QED BY <1>4, <4>1, <4>2
    <3>. QED BY <3>2, <3>3
  <2>. QED BY <2>1, <2>2, <2>3 DEF Smaller
<1>5. CASE k < i
  <2>1. k <= Len(a) /\ a[k] = b[k] /\ k <= Len(b) BY <1>1, <1>2, <1>3, <1>5
  <2>2. b[k] < c[k] BY <1>2, <1>3, <2>1
  <2>3. \A j \in 1 .. k - 1 : j <= Len(a) /\ a[j] = c[j] BY <1>1, <1>2, <1>3, <1>5
  <2>. QED BY <2>1, <2>2, <2>3 DEF Smaller
<1>. QED BY <1>4, <1>5

\* The first place where they differ decides.
LEMMA SmallerTotal ==
  ASSUME NEW a \in Seq(Int), NEW b \in Seq(Int), a # b
  PROVE  Smaller(a, b) \/ Smaller(b, a)
<1>1. Len(a) \in Nat /\ Len(b) \in Nat OBVIOUS
<1> DEFINE Same(i) == i <= Len(a) /\ i <= Len(b) /\ a[i] = b[i]
           D == {i \in Nat : i > 0 /\ (i <= Len(a) \/ i <= Len(b)) /\ ~ Same(i)}
<1>2. D # {}
  <2>1. SUFFICES ASSUME D = {} PROVE FALSE OBVIOUS
  <2>2. \A i \in Nat : i > 0 /\ (i <= Len(a) \/ i <= Len(b)) => Same(i) BY <2>1
  <2>3. ~ (Len(a) < Len(b)) /\ ~ (Len(b) < Len(a)) BY <1>1, <2>2
  <2>4. Len(a) = Len(b) BY <1>1, <2>3
  <2>5. \A i \in 1 .. Len(a) : a[i] = b[i] BY <1>1, <2>2
  <2>. QED BY <2>4, <2>5
<1>3. PICK i \in D : \A j \in D : i <= j BY <1>2, Least
<1>4. \A j \in 1 .. i - 1 : Same(j)
  <2>1. SUFFICES ASSUME NEW j \in 1 .. i - 1, ~ Same(j) PROVE FALSE OBVIOUS
  <2>2. i \in Nat /\ (i <= Len(a) \/ i <= Len(b)) OBVIOUS
  <2>3. j \in D BY <1>1, <2>1, <2>2
  <2>. QED BY <1>3, <2>1, <2>2, <2>3
<1>5. CASE i > Len(a)
  <2>1. i \in 1 .. Len(b) BY <1>1, <1>5
  <2>2. \A j \in 1 .. i - 1 : j <= Len(a) /\ a[j] = b[j] BY <1>4
  <2>. QED BY <1>5, <2>1, <2>2 DEF Smaller
<1>6. CASE i > Len(b)
  <2>1. i \in 1 .. Len(a) BY <1>1, <1>6
  <2>2. \A j \in 1 .. i - 1 : j <= Len(b) /\ b[j] = a[j] BY <1>4
  <2>. QED BY <1>6, <2>1, <2>2 DEF Smaller
<1>7. CASE i <= Len(a) /\ i <= Len(b)
  <2>1. i \in 1 .. Len(a) /\ i \in 1 .. Len(b) BY <1>1, <1>7
  <2>2. a[i] \in Int /\ b[i] \in Int /\ a[i] # b[i] BY <1>7, <2>1
  <2>3. a[i] < b[i] \/ b[i] < a[i] BY <2>2
  <2>. QED BY <1>4, <2>1, <2>3 DEF Smaller
<1>. QED BY <1>1, <1>5, <1>6, <1>7

\* The fraction of a text: what is left when the zeros at the end are dropped.
LEMMA TrimmedType == ASSUME NEW ds \in Seq(Int) PROVE Trimmed(ds) \in Seq(Int)
<1>1. Len(ds) \in Nat OBVIOUS
<1> DEFINE Zeros(n) == \A i \in n + 1 .. Len(ds) : ds[i] = 0
           N == {n \in 0 .. Len(ds) : Zeros(n)}
<1>2. Len(ds) \in N BY <1>1
<1>3. N \subseteq Nat /\ N # {}
  <2>1. 0 .. Len(ds) \subseteq Nat BY <1>1
  <2>. QED BY <1>2, <2>1
<1> HIDE DEF N
<1>4. PICK n \in N : \A m \in N : n <= m BY <1>3, Least
<1>5. n \in 0 .. Len(ds) /\ Zeros(n) BY DEF N
<1>6. n = 0 \/ ds[n] # 0
  <2>1. SUFFICES ASSUME n # 0, ds[n] = 0 PROVE FALSE OBVIOUS
  <2>2. n - 1 \in 0 .. Len(ds) /\ n \in Int BY <1>1, <1>5, <2>1
  <2>3. ASSUME NEW i \in (n - 1) + 1 .. Len(ds) PROVE ds[i] = 0
    <3>1. i = n \/ i \in n + 1 .. Len(ds) BY <1>1, <2>2
    <3>. QED BY <1>5, <2>1, <3>1
  <2>4. n - 1 \in N BY <2>2, <2>3 DEF N
  <2>5. n <= n - 1 BY <1>4, <2>4
  <2>. QED BY <2>2, <2>5
<1>7. PICK k \in 0 .. Len(ds) : Trimmed(ds) = SubSeq(ds, 1, k) BY <1>5, <1>6 DEF Trimmed
<1>. QED BY <1>1, <1>7

\* The text of an instant begins with its second.
LEMMA TextType ==
  ASSUME WorkspaceAssumption, NEW t \in Instants \cup {Never}
  PROVE  /\ Text(t) \in Seq(Int)
         /\ t # Never => Len(Text(t)) > 0 /\ Text(t)[1] = t.second
<1>1. CASE t = Never
  <2>1. Text(t) = <<>> BY <1>1 DEF Text
  <2>. QED BY <1>1, <2>1
<1>2. CASE t # Never
  <2>1. /\ t.second \in Int /\ Digits \in Nat /\ Base \in Int
        /\ t.fraction \in [1 .. Digits -> 0 .. Base - 1]
    BY <1>2 DEF WorkspaceAssumption
  <2>2. t.fraction \in Seq(Int) BY <2>1
  <2>3. PICK ds \in Seq(Int) : ds = Trimmed(t.fraction) BY <2>2, TrimmedType
  <2>4. <<-1>> \in Seq(Int) OBVIOUS
  <2>5. <<-1>> \o ds \in Seq(Int) BY <2>4
  <2>6. PICK s \in Seq(Int) : s = IF ds = <<>> THEN ds ELSE <<-1>> \o ds BY <2>5
  <2>7. Text(t) = <<t.second>> \o s \o <<Base>> BY <1>2, <2>3, <2>6 DEF Text
  <2>8. <<t.second>> \in Seq(Int) /\ <<Base>> \in Seq(Int) BY <2>1
  <2>. QED BY <2>6, <2>7, <2>8
<1>. QED BY <1>1, <1>2

\* What GetByContext chooses among, and the texts it compares.
LEMMA CandidateFacts ==
  ASSUME WorkspaceAssumption, TypeOK
  PROVE  /\ IsFiniteSet(Candidates) /\ Candidates \subseteq DOMAIN refs
         /\ \A w \in Candidates :
              /\ w \in Int
              /\ Text(refs[w].allocatedAt) \in Seq(Int)
              /\ Len(Text(refs[w].allocatedAt)) > 0
              /\ Text(refs[w].allocatedAt)[1] = refs[w].allocatedAt.second
              /\ refs[w].allocatedAt.second \in Int
              /\ Text(refs[w].releasedAt) \in Seq(Int)
<1>1. Candidates \subseteq DOMAIN refs /\ DOMAIN refs \subseteq Workspaces
  BY DEF Candidates, TypeOK
<1>2. IsFiniteSet(Candidates) BY <1>1, FS_Subset DEF WorkspaceAssumption
<1>3. ASSUME NEW w \in Candidates
      PROVE  /\ w \in Int
             /\ Text(refs[w].allocatedAt) \in Seq(Int)
             /\ Len(Text(refs[w].allocatedAt)) > 0
             /\ Text(refs[w].allocatedAt)[1] = refs[w].allocatedAt.second
             /\ refs[w].allocatedAt.second \in Int
             /\ Text(refs[w].releasedAt) \in Seq(Int)
  <2>1. refs[w] \in Refs BY <1>1 DEF TypeOK
  <2>2. PICK t, u : t = refs[w].allocatedAt /\ u = refs[w].releasedAt OBVIOUS
  <2>3. t \in Instants /\ u \in Instants \cup {Never} BY <2>1, <2>2 DEF Refs
  <2>4. t.second \in Nat BY <2>3 DEF WorkspaceAssumption
  <2>5. t # Never BY <2>4 DEF Never
  <2>6. /\ Text(t) \in Seq(Int) /\ Len(Text(t)) > 0 /\ Text(t)[1] = t.second
        /\ Text(u) \in Seq(Int)
    BY <2>3, <2>5, TextType
  <2>7. w \in Int
    <3>1. w \in Workspaces /\ Workspaces \subseteq Nat BY <1>1 DEF WorkspaceAssumption
    <3>. QED BY <3>1
  <2>. QED BY <2>2, <2>4, <2>6, <2>7
<1>. QED BY <1>1, <1>2, <1>3

\* refLess orders the candidates strictly and totally: the ids decide between equal texts.
LEMMA refLessOrder ==
  ASSUME WorkspaceAssumption, TypeOK
  PROVE  /\ \A a \in Candidates : ~ refLess(a, a)
         /\ \A a, b \in Candidates : a # b => refLess(a, b) \/ refLess(b, a)
         /\ \A a, b, c \in Candidates : refLess(a, b) /\ refLess(b, c) => refLess(a, c)
<1> DEFINE alloc(w) == Text(refs[w].allocatedAt)
           rel(w) == Text(refs[w].releasedAt)
<1>1. \A a, b \in Candidates :
         refLess(a, b) <=> \/ Smaller(alloc(a), alloc(b)) /\ alloc(a) # alloc(b)
                           \/ /\ alloc(a) = alloc(b) /\ rel(a) # rel(b)
                              /\ Smaller(rel(a), rel(b))
                           \/ alloc(a) = alloc(b) /\ rel(a) = rel(b) /\ b < a
  BY DEF refLess
<1>2. \A w \in Candidates : w \in Int /\ alloc(w) \in Seq(Int) /\ rel(w) \in Seq(Int)
  BY CandidateFacts
<1> HIDE DEF alloc, rel
<1>3. \A s \in Seq(Int) : ~ Smaller(s, s) BY SmallerStrict
<1>4. \A s, t \in Seq(Int) : s # t => Smaller(s, t) \/ Smaller(t, s) BY SmallerTotal
<1>5. \A s, t, u \in Seq(Int) : Smaller(s, t) /\ Smaller(t, u) => Smaller(s, u)
  BY SmallerTransitive
<1>6. ASSUME NEW a \in Candidates PROVE ~ refLess(a, a)
  BY <1>1, <1>2
<1>7. ASSUME NEW a \in Candidates, NEW b \in Candidates, a # b
      PROVE  refLess(a, b) \/ refLess(b, a)
  <2>1. a < b \/ b < a BY <1>2, <1>7
  <2>. QED BY <1>1, <1>2, <1>4, <2>1
<1>8. ASSUME NEW a \in Candidates, NEW b \in Candidates, NEW c \in Candidates,
             refLess(a, b), refLess(b, c)
      PROVE  refLess(a, c)
  <2>1. CASE alloc(a) # alloc(b) \/ alloc(b) # alloc(c)
    <3>1. Smaller(alloc(a), alloc(c)) BY <1>1, <1>2, <1>5, <1>8, <2>1
    <3>2. alloc(a) # alloc(c) BY <1>2, <1>3, <3>1
    <3>. QED BY <1>1, <3>1, <3>2
  <2>2. CASE /\ alloc(a) = alloc(b) /\ alloc(b) = alloc(c)
             /\ rel(a) # rel(b) \/ rel(b) # rel(c)
    <3>1. Smaller(rel(a), rel(c)) BY <1>1, <1>2, <1>5, <1>8, <2>2
    <3>2. rel(a) # rel(c) BY <1>2, <1>3, <3>1
    <3>. QED BY <1>1, <2>2, <3>1, <3>2
  <2>3. CASE /\ alloc(a) = alloc(b) /\ alloc(b) = alloc(c)
             /\ rel(a) = rel(b) /\ rel(b) = rel(c)
    <3>1. b < a /\ c < b BY <1>1, <1>8, <2>3
    <3>2. c < a BY <1>2, <3>1
    <3>. QED BY <1>1, <2>3, <3>2
  <2>. QED BY <2>1, <2>2, <2>3
<1>. QED BY <1>6, <1>7, <1>8

\* The choice after n of the candidates.
Best(f, o, n) ==
  /\ f[1] = o[1]
  /\ \A i \in 2 .. n : f[i] = IF refLess(f[i - 1], o[i]) THEN o[i] ELSE f[i - 1]

LEMMA BestExists ==
  ASSUME NEW o, NEW n \in Nat
  PROVE  \E f : f = [i \in 1 .. n + 1 |->
                      IF i = 1 THEN o[1]
                      ELSE IF refLess(f[i - 1], o[i]) THEN o[i] ELSE f[i - 1]]
<1> DEFINE Solves(f, m) ==
      f = [i \in 1 .. m + 1 |->
             IF i = 1 THEN o[1] ELSE IF refLess(f[i - 1], o[i]) THEN o[i] ELSE f[i - 1]]
<1> DEFINE S == {m \in Nat : \E f : Solves(f, m)}
<1>1. 0 \in S
  <2> DEFINE f == [i \in 1 .. 1 |-> o[1]]
  <2>1. Solves(f, 0) OBVIOUS
  <2>. QED BY <2>1
<1>2. ASSUME NEW m \in Nat, m \in S PROVE m + 1 \in S
  <2>1. PICK f : Solves(f, m) BY <1>2
  <2> DEFINE last == IF refLess(f[m + 1], o[m + 2]) THEN o[m + 2] ELSE f[m + 1]
  <2> HIDE DEF last
  <2> DEFINE g == [i \in 1 .. m + 2 |-> IF i = m + 2 THEN last ELSE f[i]]
  <2>2. \A i \in 1 .. m + 1 : g[i] = f[i] OBVIOUS
  <2>3. \A i \in 1 .. m + 1 :
          f[i] = IF i = 1 THEN o[1] ELSE IF refLess(f[i - 1], o[i]) THEN o[i] ELSE f[i - 1]
    BY <2>1
  <2>4. ASSUME NEW i \in 1 .. m + 2
        PROVE  g[i] = IF i = 1 THEN o[1]
                      ELSE IF refLess(g[i - 1], o[i]) THEN o[i] ELSE g[i - 1]
    <3>1. CASE i = m + 2
      <4>1. g[i] = last /\ i # 1 /\ i - 1 = m + 1 BY <3>1
      <4>2. g[i - 1] = f[m + 1] BY <2>2, <4>1
      <4>. QED BY <3>1, <4>1, <4>2 DEF last
    <3>2. CASE i \in 1 .. m + 1
      <4>1. g[i] = f[i] BY <2>2, <3>2
      <4>2. CASE i = 1 BY <2>3, <4>1, <4>2
      <4>3. CASE i # 1
        <5>1. g[i - 1] = f[i - 1] BY <2>2, <3>2, <4>3
        <5>. QED BY <2>3, <3>2, <4>1, <4>3, <5>1
      <4>. QED BY <4>2, <4>3
    <3>. QED BY <3>1, <3>2
  <2>5. g = [i \in 1 .. m + 2 |-> g[i]] OBVIOUS
  <2> HIDE DEF g
  <2>6. m + 2 = m + 1 + 1 OBVIOUS
  <2>7. Solves(g, m + 1) BY <2>4, <2>5, <2>6
  <2>. QED BY <2>7
<1> HIDE DEF S
<1>3. n \in S BY <1>1, <1>2, Induction
<1>. QED BY <1>3 DEF S

\* What GetByContext returns is where going through the candidates ends.
LEMMA BestSteps ==
  ASSUME NEW o, Len(o) \in Nat, Len(o) > 0
  PROVE  \E f : Best(f, o, Len(o)) /\ GetByContext(o) = f[Len(o)]
<1> DEFINE best[n \in 1 .. Len(o)] ==
             IF n = 1 THEN o[1] ELSE IF refLess(best[n - 1], o[n]) THEN o[n] ELSE best[n - 1]
<1>1. GetByContext(o) = best[Len(o)] BY DEF GetByContext
<1>2. \E f : f = [n \in 1 .. Len(o) |->
                    IF n = 1 THEN o[1] ELSE IF refLess(f[n - 1], o[n]) THEN o[n] ELSE f[n - 1]]
  <2>1. PICK m \in Nat : Len(o) = m + 1
    <3>1. Len(o) - 1 \in Nat /\ Len(o) = (Len(o) - 1) + 1 OBVIOUS
    <3>. QED BY <3>1
  <2>. QED BY <2>1, BestExists
<1>3. best = [n \in 1 .. Len(o) |->
                IF n = 1 THEN o[1] ELSE IF refLess(best[n - 1], o[n]) THEN o[n] ELSE best[n - 1]]
  BY <1>2
<1> HIDE DEF best
<1>4. Best(best, o, Len(o)) BY <1>3 DEF Best
<1>. QED BY <1>1, <1>4

\* The choice is a candidate, and no candidate comes after it.
LEMMA ChoiceFacts ==
  ASSUME WorkspaceAssumption, TypeOK, NEW o \in Orders, o # <<>>
  PROVE  /\ GetByContext(o) \in Candidates
         /\ \A w \in Candidates : ~ refLess(GetByContext(o), w)
<1>1. Cardinality(Candidates) \in Nat BY CandidateFacts, FS_CardinalityType
<1> DEFINE k == Cardinality(Candidates)
<1>2. /\ o \in [1 .. k -> Candidates]
      /\ \A w \in Candidates : \E i \in 1 .. k : o[i] = w
  BY DEF Orders, Bijection, Surjection, Injection
<1> HIDE DEF k
<1>3. k \in Nat BY <1>1 DEF k
<1>4. Len(o) = k /\ o \in Seq(Candidates) BY <1>2, <1>3
<1>5. Len(o) > 0 BY <1>3, <1>4
<1>6. PICK f : Best(f, o, k) /\ GetByContext(o) = f[k] BY <1>3, <1>4, <1>5, BestSteps
<1> DEFINE Good(n) == f[n] \in Candidates /\ \A i \in 1 .. n : ~ refLess(f[n], o[i])
           S == {n \in Nat : n > 0 /\ n <= k => Good(n)}
<1>7. 0 \in S OBVIOUS
<1>8. ASSUME NEW n \in Nat, n \in S PROVE n + 1 \in S
  <2>1. SUFFICES ASSUME n + 1 <= k PROVE Good(n + 1) OBVIOUS
  <2>2. n + 1 \in 1 .. k /\ o[n + 1] \in Candidates BY <1>2, <1>3, <2>1
  <2>3. CASE n = 0
    <3>1. f[1] = o[1] /\ o[1] \in Candidates BY <1>6, <2>2, <2>3 DEF Best
    <3>2. \A i \in 1 .. 1 : ~ refLess(f[1], o[i]) BY <3>1, refLessOrder
    <3>. QED BY <2>3, <3>1, <3>2
  <2>4. CASE n > 0
    <3>1. Good(n) BY <1>3, <1>8, <2>1, <2>4
    <3>2. f[n + 1] = IF refLess(f[n], o[n + 1]) THEN o[n + 1] ELSE f[n]
      <4>1. n + 1 \in 2 .. k /\ n + 1 - 1 = n BY <2>2, <2>4
      <4>. QED BY <1>6, <4>1 DEF Best
    <3>3. ASSUME NEW i \in 1 .. n + 1 PROVE ~ refLess(f[n + 1], o[i])
      <4>1. i \in 1 .. k /\ (i = n + 1 \/ i \in 1 .. n) BY <1>3, <2>1
      <4>2. o[i] \in Candidates BY <1>2, <4>1
      <4>3. CASE i = n + 1 BY <2>2, <3>1, <3>2, <4>3, refLessOrder
      <4>4. CASE i \in 1 .. n
        <5>1. ~ refLess(f[n], o[i]) BY <3>1, <4>4
        <5>. QED BY <2>2, <3>1, <3>2, <4>2, <5>1, refLessOrder
      <4>. QED BY <4>1, <4>3, <4>4
    <3>. QED BY <2>2, <3>1, <3>2, <3>3
  <2>. QED BY <2>3, <2>4
<1> HIDE DEF S
<1>9. \A n \in Nat : n \in S BY <1>7, <1>8, Induction
<1>10. Good(k) BY <1>3, <1>4, <1>5, <1>9 DEF S
<1>. QED BY <1>2, <1>6, <1>10

\* Among what the memory holds, the choice is the last one of the order, however the map
\* is ranged over.
LEMMA ChoiceIsRecent == ASSUME WorkspaceAssumption, TypeOK PROVE MostRecentIsChosen
<1>1. SUFFICES ASSUME NEW o \in Orders, NEW p \in Orders, o # <<>>
      PROVE  /\ GetByContext(o) = GetByContext(p)
             /\ \A w \in Candidates :
                  refs[w].allocatedAt.second <= refs[GetByContext(o)].allocatedAt.second
  BY DEF MostRecentIsChosen
<1>2. p # <<>>
  <2>1. o \in [1 .. Cardinality(Candidates) -> Candidates]
        /\ p \in [1 .. Cardinality(Candidates) -> Candidates]
    BY DEF Orders, Bijection, Surjection
  <2>2. Cardinality(Candidates) \in Nat BY CandidateFacts, FS_CardinalityType
  <2>. QED BY <1>1, <2>1, <2>2
<1>3. PICK g \in Candidates : g = GetByContext(o) /\ \A w \in Candidates : ~ refLess(g, w)
  BY <1>1, ChoiceFacts
<1>4. PICK h \in Candidates : h = GetByContext(p) /\ \A w \in Candidates : ~ refLess(h, w)
  BY <1>2, ChoiceFacts
<1>5. g = h BY <1>3, <1>4, refLessOrder
<1>6. ASSUME NEW w \in Candidates
      PROVE  refs[w].allocatedAt.second <= refs[g].allocatedAt.second
  <2>1. PICK s, t : s = Text(refs[g].allocatedAt) /\ t = Text(refs[w].allocatedAt) OBVIOUS
  <2>2. s = t \/ ~ Smaller(s, t) BY <1>3, <2>1 DEF refLess
  <2>3. /\ s \in Seq(Int) /\ Len(s) > 0 /\ s[1] = refs[g].allocatedAt.second
        /\ t \in Seq(Int) /\ Len(t) > 0 /\ t[1] = refs[w].allocatedAt.second
        /\ refs[g].allocatedAt.second \in Int /\ refs[w].allocatedAt.second \in Int
    BY <2>1, CandidateFacts
  <2>4. s[1] < t[1] => Smaller(s, t)
    <3>1. SUFFICES ASSUME s[1] < t[1] PROVE Smaller(s, t) OBVIOUS
    <3>2. 1 \in 1 .. Len(t) /\ \A j \in 1 .. 1 - 1 : FALSE BY <2>3
    <3>. QED BY <3>1, <3>2 DEF Smaller
  <2>5. ~ (s[1] < t[1]) BY <2>2, <2>3, <2>4
  <2>. QED BY <2>3, <2>5
<1>. QED BY <1>3, <1>4, <1>5, <1>6

\* A choice is of the last second in which a workspace was allocated, and does not depend
\* on the order in which the map is ranged over (GetByContext).
THEOREM ChoiceIsTheMostRecent == Spec => []MostRecentIsChosen
<1>1. TypeOK => MostRecentIsChosen BY WorkspaceAssumption, ChoiceIsRecent
<1>2. Inv => TypeOK BY DEF Inv
<1>. QED BY <1>1, <1>2, Invariance, PTL

\* A candidate without a tree is lost, unless a release is at work on it or has overtaken
\* another.
LEMMA TreesOfCandidates == ASSUME WorkspaceAssumption, Inv PROVE CandidatesHaveTrees
<1> DEFINE missing == {w \in Candidates :
                         git[w] # "worktree" /\ ~ BeingRemoved(w) /\ ~ Overtaken(w)}
<1>1. ASSUME NEW w \in missing PROVE w \in Lost
  <2>1. w \in DOMAIN refs /\ w \in Workspaces BY DEF Candidates, Inv, TypeOK
  <2>2. refs[w].status = "ALLOCATED" \/ Offered(w) BY DEF Candidates
  <2>3. ~ KnownDeleted(w) BY <2>2 DEF KnownDeleted, Overtaken, Offered
  <2>4. log[w] # <<>> BY <2>1 DEF Inv, LogInv
  <2>. QED BY <2>1, <2>3, <2>4 DEF Lost
<1>2. IsFiniteSet(Lost) BY FS_Subset DEF WorkspaceAssumption, Lost
<1>3. missing \subseteq Lost BY <1>1
<1> HIDE DEF missing
<1>4. /\ Cardinality(missing) <= Cardinality(Lost)
      /\ Cardinality(missing) \in Nat /\ Cardinality(Lost) \in Nat
  BY <1>2, <1>3, FS_Subset, FS_CardinalityType
<1>5. faults \in Int /\ crashes \in Int BY DEF Inv, TypeOK, WorkspaceAssumption
<1>6. Cardinality(missing) <= faults + crashes BY <1>4, <1>5 DEF Inv, LossInv
<1>. QED BY <1>6 DEF missing, CandidatesHaveTrees

\* The workspaces among which a caller's is chosen have their worktrees, but for the one
\* that is just being removed, those that were deleted and then preserved by two releases
\* at once, and one for each failure and each restart.
THEOREM ChosenWorkspaceIsThere == Spec => []CandidatesHaveTrees
<1>1. Inv => CandidatesHaveTrees BY WorkspaceAssumption, TreesOfCandidates
<1>. QED BY <1>1, Invariance, PTL

-----------------------------------------------------------------------------
(* Agent runs. *)

Lines == Seq(Statuses \ {"none"})
Statused == status \in [Runs -> Statuses]
Logs == records \in [Runs -> Lines]

\* A line added to the log of a run is its last.
LEMMA LastAdded ==
  ASSUME NEW l \in Lines, NEW s \in Statuses \ {"none"}
  PROVE  Append(l, s) \in Lines /\ EndsWith(Append(l, s), s)
<1> DEFINE T == Statuses \ {"none"}
<1> SUFFICES ASSUME NEW m \in Seq(T), NEW t \in T
             PROVE  Append(m, t) \in Seq(T) /\ EndsWith(Append(m, t), t)
  BY DEF Lines
<1> HIDE DEF T
<1>1. Append(m, t) \in Seq(T) /\ Len(Append(m, t)) = Len(m) + 1 /\ Len(m) \in Nat
  OBVIOUS
<1>2. Append(m, t)[Len(m) + 1] = t OBVIOUS
<1>3. Append(m, t) # <<>> BY <1>1
<1>. QED BY <1>1, <1>2, <1>3 DEF EndsWith

\* An append, whether it succeeds or fails, touches the record of one run; if it
\* changes the status in memory, the log ends with the new one.
LEMMA RecordingFacts ==
  ASSUME AgentRunAssumption, NEW r \in Runs, NEW s \in Statuses \ {"none"},
         Statused, Logs, failures \in 0 .. MaxFailures,
         Recording(r, s) \/ RecordingFails(r, s)
  PROVE  /\ failures' \in 0 .. MaxFailures
         /\ \E l \in Lines, v \in {s, status[r]} :
              /\ records' = [records EXCEPT ![r] = l]
              /\ status' = [status EXCEPT ![r] = v]
              /\ v = status[r] \/ EndsWith(l, v)
<1> DEFINE grown == Append(records[r], s)
<1>1. records[r] \in Lines BY DEF Logs
<1>2. grown \in Lines /\ EndsWith(grown, s) BY <1>1, LastAdded
<1>3. records = [records EXCEPT ![r] = records[r]] /\ status = [status EXCEPT ![r] = status[r]]
  BY DEF Logs, Statused
<1>4. CASE Recording(r, s)
  <2>1. records' = [records EXCEPT ![r] = grown] /\ status' = [status EXCEPT ![r] = s]
        /\ failures' = failures
    BY <1>4 DEF Recording
  <2> HIDE DEF grown
  <2>. QED BY <2>1, <1>2
<1>5. CASE RecordingFails(r, s)
  <2>1. /\ records' = records \/ records' = [records EXCEPT ![r] = grown]
        /\ status' = status /\ failures < MaxFailures /\ failures' = failures + 1
    BY <1>5 DEF RecordingFails
  <2>2. failures' \in 0 .. MaxFailures BY <2>1 DEF AgentRunAssumption
  <2> HIDE DEF grown
  <2>3. CASE records' = records BY <2>1, <2>2, <2>3, <1>1, <1>3
  <2>4. CASE records' = [records EXCEPT ![r] = grown] BY <2>1, <2>2, <2>4, <1>2, <1>3
  <2>. QED BY <2>1, <2>3, <2>4
<1>. QED BY <1>4, <1>5

\* A new harness has no run on record, none registered and none cancelled (main.go).
LEMMA RunStarts == ASSUME AgentRunAssumption, RunInit PROVE IInv
BY DEF AgentRunAssumption, RunInit, IInv, RunTypeOK, Registered, Recorded, CancelTellsTruth,
       Statuses, Terminal

\* The parts of the invariant, each about the variables that some actions change.
RunTypes ==
  /\ driver \in [Runs -> {"no", "recorded", "driving", "running", "returned", "persisted",
                          "unregistered", "over"}]
  /\ ctx \in [Runs -> {"open", "expired", "cancelled"}]
  /\ process \in [Runs -> {"no", "running", "stopped", "orphan"}]
  /\ result \in [Runs -> Terminal \cup {"none"}]

CancelTypes ==
  cancel \in [Cancels -> [pc : {"no", "stop", "wait", "recheck", "record", "over"},
                          answer : Terminal \cup {"none", "refused", "retry", "lost"}]]

Counts == failures \in 0 .. MaxFailures /\ restarts \in 0 .. MaxRestarts

RunParts == Statused /\ Logs /\ RunTypes /\ CancelTypes /\ Counts /\ Registered

\* The inductive invariant, taken apart into the facts that the steps below keep.
LEMMA RunUnfolds ==
  IInv <=> RunParts /\ Recorded /\ CancelTellsTruth
BY DEF IInv, RunTypeOK, Statused, Logs, Lines, RunTypes, CancelTypes, Counts, Registered, RunParts

\* ... and put together again from the facts about the state after a step.
LEMMA RunFolds ==
  ASSUME RunParts', Recorded', CancelTellsTruth' PROVE IInv'
BY DEF IInv, RunTypeOK, Statused, Logs, Lines, RunTypes, CancelTypes, Counts, Registered, RunParts

\* A step that records s for a run that has not ended keeps the records of all runs.
LEMMA RecordKeeps ==
  ASSUME AgentRunAssumption, IInv, NEW r \in Runs, NEW s \in Statuses \ {"none"},
         status[r] \notin Terminal, driver'[r] # "no",
         \A x \in Runs \ {r} : driver'[x] = driver[x],
         Recording(r, s) \/ RecordingFails(r, s)
  PROVE  /\ Statused' /\ Logs' /\ failures' \in 0 .. MaxFailures /\ Recorded'
         /\ \A x \in Runs : status[x] \in Terminal => status'[x] = status[x]
<1>1. Statused /\ Logs /\ failures \in 0 .. MaxFailures BY RunUnfolds DEF RunParts, Counts
<1>2. PICK l \in Lines, v \in {s, status[r]} :
        /\ records' = [records EXCEPT ![r] = l]
        /\ status' = [status EXCEPT ![r] = v]
        /\ v = status[r] \/ EndsWith(l, v)
  BY <1>1, RecordingFacts
<1>3. failures' \in 0 .. MaxFailures BY <1>1, RecordingFacts
<1>4. Statused' /\ Logs' BY <1>1, <1>2 DEF Statused, Logs
<1>5. Recorded BY DEF IInv
<1>6. Recorded'
  <2> SUFFICES ASSUME NEW x \in Runs
               PROVE  /\ status'[x] # "none" \/ records'[x] # <<>> => driver'[x] # "no"
                      /\ status'[x] \in Terminal => EndsWith(records'[x], status'[x])
    BY DEF Recorded
  <2>1. CASE x = r
    <3>1. records'[r] = l /\ status'[r] = v BY <1>1, <1>2 DEF Statused, Logs
    <3>. QED BY <2>1, <3>1, <1>2
  <2>2. CASE x # r
    <3>1. records'[x] = records[x] /\ status'[x] = status[x] BY <2>2, <1>1, <1>2 DEF Statused, Logs
    <3>. QED BY <2>2, <3>1, <1>5 DEF Recorded
  <2>. QED BY <2>1, <2>2
<1>7. \A x \in Runs : status[x] \in Terminal => status'[x] = status[x]
  BY <1>1, <1>2 DEF Statused
<1>. QED BY <1>3, <1>4, <1>6, <1>7

Stays == \A x \in Runs : status[x] \in Terminal => status'[x] = status[x]

\* The answers given stay true when no cancel moves and no end changes.
LEMMA AnswersStay ==
  ASSUME AgentRunAssumption, IInv, Stays, UNCHANGED cancel
  PROVE  CancelTellsTruth'
<1>1. \A c \in Cancels : Target[c] \in Runs BY DEF AgentRunAssumption
<1>. QED BY <1>1 DEF IInv, CancelTellsTruth, Stays

\* The steps of the goroutine that record nothing.
LEMMA DrivingKeeps ==
  ASSUME AgentRunAssumption, IInv, NEW r \in Runs,
         Register(r) \/ Launch(r) \/ ProviderReturns(r) \/ Unregister(r) \/ CloseDone(r)
           \/ ContextEnds(r)
  PROVE  IInv' /\ Stays
<1>1. UNCHANGED <<status, records, failures, cancel, restarts>>
  BY DEF Register, Launch, ProviderReturns, Unregister, CloseDone, ContextEnds, recordVars
<1>2. Stays BY <1>1 DEF Stays
<1>3. CancelTellsTruth' BY <1>1, <1>2, AnswersStay
<1>4. Statused' /\ Logs' /\ CancelTypes' /\ Counts'
  BY <1>1, RunUnfolds DEF RunParts, Statused, Logs, CancelTypes, Counts
<1>5. RunTypes /\ Registered /\ Recorded BY RunUnfolds DEF RunParts
<1>6. RunTypes' /\ Registered' /\ \A x \in Runs : driver[x] # "no" => driver'[x] # "no"
  <2>1. CASE Register(r)
    BY <1>5, <2>1 DEF RunTypes, Registered, Register
  <2>2. CASE Launch(r)
    BY <1>5, <2>2 DEF RunTypes, Registered, Launch, StatusFromCtx, Terminal
  <2>3. CASE ProviderReturns(r)
    BY <1>5, <2>3 DEF RunTypes, Registered, ProviderReturns, Outcomes, StatusFromCtx, Terminal
  <2>4. CASE Unregister(r)
    BY <1>5, <2>4 DEF RunTypes, Registered, Unregister, Deregistered
  <2>5. CASE CloseDone(r)
    BY <1>5, <2>5 DEF RunTypes, Registered, CloseDone
  <2>6. CASE ContextEnds(r)
    BY <1>5, <2>6 DEF RunTypes, Registered, ContextEnds
  <2>. QED BY <2>1, <2>2, <2>3, <2>4, <2>5, <2>6
<1>7. Recorded' BY <1>1, <1>5, <1>6 DEF Recorded
<1>8. RunParts' BY <1>4, <1>6 DEF RunParts
<1>. QED BY <1>2, <1>3, <1>7, <1>8, RunFolds

\* The steps that write a status, but for the cancel's.
LEMMA RecordingKeeps ==
  ASSUME AgentRunAssumption, IInv, NEW r \in Runs, Start(r) \/ Persist(r)
  PROVE  IInv' /\ Stays
<1>1. UNCHANGED <<ctx, process, result, entries, cancel, restarts>>
  BY DEF Start, Persist
<1>2. RunParts /\ Recorded BY RunUnfolds
<1>3. /\ driver[r] \in {"no", "returned"}
      /\ \E d \in {"recorded", "over", "persisted"} :
           /\ driver' = [driver EXCEPT ![r] = d]
           /\ driver[r] = "returned" => d = "persisted"
  BY DEF Start, Persist
<1>4. RunTypes' /\ Registered' /\ driver'[r] # "no"
      /\ \A x \in Runs \ {r} : driver'[x] = driver[x]
  BY <1>1, <1>2, <1>3 DEF RunParts, RunTypes, Registered
<1>5. Statused' /\ Logs' /\ failures' \in 0 .. MaxFailures /\ Recorded' /\ Stays
  <2>1. CASE Start(r)
    <3>1. status[r] \notin Terminal
      BY <1>2, <2>1 DEF Start, RunParts, Statused, Statuses, Recorded, Terminal
    <3>2. Recording(r, "RUNNING") \/ RecordingFails(r, "RUNNING") BY <2>1 DEF Start
    <3>. QED BY <1>4, <3>1, <3>2, RecordKeeps DEF Statuses, Terminal, Stays
  <2>2. CASE Persist(r) /\ Completes(r)
    <3>1. status[r] \notin Terminal
      BY <2>2 DEF Completes, StillRunning, Terminal
    <3>2. Recording(r, result[r]) \/ RecordingFails(r, result[r]) BY <2>2 DEF Persist
    <3>3. result[r] \in Statuses \ {"none"}
      BY <1>2, <2>2 DEF Persist, RunParts, Registered, Statuses, Terminal
    <3>. QED BY <1>4, <3>1, <3>2, <3>3, RecordKeeps DEF Stays
  <2>3. CASE Persist(r) /\ ~ Completes(r)
    <3>1. UNCHANGED <<status, records, failures>> BY <2>3 DEF Persist, recordVars
    <3>2. Recorded' BY <1>2, <1>4, <3>1 DEF Recorded
    <3>. QED BY <1>2, <3>1, <3>2 DEF RunParts, Statused, Logs, Counts, Stays
  <2>. QED BY <2>1, <2>2, <2>3
<1>6. CancelTypes' /\ Counts' BY <1>1, <1>2, <1>5 DEF RunParts, CancelTypes, Counts
<1>7. CancelTellsTruth' BY <1>1, <1>5, AnswersStay
<1>. QED BY <1>4, <1>5, <1>6, <1>7, RunFolds DEF RunParts

\* The steps of a cancel: an outcome that it answers is the recorded one.
LEMMA CancelKeeps ==
  ASSUME AgentRunAssumption, IInv, NEW c \in Cancels, CancelLooks(c) \/ Cancelling(c)
  PROVE  IInv' /\ Stays
<1> DEFINE r == Target[c]
<1>1. r \in Runs BY DEF AgentRunAssumption
<1>2. RunParts /\ Recorded /\ CancelTellsTruth BY RunUnfolds
<1>3. UNCHANGED <<driver, process, result, entries, restarts>>
  BY DEF Cancelling, CancelLooks, CancelStops, CancelSeesDone, CancelGivesUp, CancelRechecks,
         RecordCancelled
<1>4. ctx' \in [Runs -> {"open", "expired", "cancelled"}]
  BY <1>2 DEF RunParts, RunTypes, Cancelling, CancelLooks, CancelStops, CancelSeesDone,
              CancelGivesUp, CancelRechecks, RecordCancelled
<1>5. RunTypes' /\ Registered' BY <1>2, <1>3, <1>4 DEF RunParts, RunTypes, Registered
<1>6. Statused' /\ Logs' /\ failures' \in 0 .. MaxFailures /\ Recorded' /\ Stays
  <2>1. CASE RecordCancelled(c) /\ StillRunning(r)
    <3>1. status[r] \notin Terminal /\ driver'[r] # "no"
      BY <1>1, <1>2, <1>3, <2>1 DEF StillRunning, Terminal, Recorded
    <3>2. Recording(r, "CANCELLED") \/ RecordingFails(r, "CANCELLED")
      BY <2>1 DEF RecordCancelled
    <3>. QED BY <1>1, <1>3, <3>1, <3>2, RecordKeeps DEF Statuses, Terminal, Stays
  <2>2. CASE ~ (RecordCancelled(c) /\ StillRunning(r))
    <3>1. UNCHANGED <<status, records, failures>>
      BY <2>2 DEF Cancelling, CancelLooks, CancelStops, CancelSeesDone, CancelGivesUp,
                  CancelRechecks, RecordCancelled, recordVars
    <3>. QED BY <1>2, <1>3, <3>1 DEF RunParts, Statused, Logs, Counts, Recorded, Stays
  <2>. QED BY <2>1, <2>2
<1>7. \/ \E pc \in {"stop", "wait", "recheck", "record"} : GoesOn(c, pc)
      \/ \E a \in Terminal \cup {"none", "refused", "retry"} :
           Answers(c, a) /\ (a \in Terminal => status'[r] = a)
  <2> DEFINE Says(a) == Answers(c, a) /\ (a \in Terminal => status'[r] = a)
  <2>1. CASE CancelLooks(c) \/ CancelRechecks(c)
    <3>1. "refused" \notin Terminal BY DEF Terminal
    <3>. QED BY <2>1, <3>1 DEF CancelLooks, CancelRechecks, LookAt
  <2>2. CASE CancelStops(c) BY <2>2 DEF CancelStops
  <2>3. CASE CancelSeesDone(c)
    <3>1. status' = status BY <2>3 DEF CancelSeesDone, recordVars
    <3>2. status[r] \in Statuses BY <1>1, <1>2 DEF RunParts, Statused
    <3>3. CASE status[r] = "RUNNING"
      BY <2>3, <3>3 DEF CancelSeesDone, Terminal
    <3>4. CASE status[r] # "RUNNING"
      <4>1. Says(status[r]) BY <2>3, <3>1, <3>4 DEF CancelSeesDone
      <4>2. status[r] \in Terminal \cup {"none"} BY <3>2, <3>4 DEF Statuses
      <4>. QED BY <4>1, <4>2
    <3>. QED BY <3>3, <3>4
  <2>4. CASE CancelGivesUp(c)
    <3>1. "retry" \notin Terminal BY DEF Terminal
    <3>. QED BY <2>4, <3>1 DEF CancelGivesUp
  <2>5. CASE RecordCancelled(c)
    <3>1. "retry" \notin Terminal /\ "refused" \notin Terminal /\ "CANCELLED" \in Terminal
      BY DEF Terminal
    <3>2. CASE Recording(r, "CANCELLED") /\ Answers(c, "CANCELLED")
      <4>1. status'[r] = "CANCELLED" BY <1>1, <1>2, <3>2 DEF Recording, RunParts, Statused
      <4>. QED BY <3>1, <3>2, <4>1
    <3>3. CASE SaysRetry(c) BY <3>1, <3>3 DEF SaysRetry
    <3>4. CASE Answers(c, "refused") BY <3>1, <3>4
    <3>. QED BY <2>5, <3>2, <3>3, <3>4 DEF RecordCancelled
  <2>. QED BY <2>1, <2>2, <2>3, <2>4, <2>5 DEF Cancelling
<1>8. CancelTypes' BY <1>2, <1>7 DEF RunParts, CancelTypes, GoesOn, Answers
<1>9. CancelTellsTruth'
  <2> SUFFICES ASSUME NEW d \in Cancels, cancel'[d].answer \in Terminal
               PROVE  status'[Target[d]] = cancel'[d].answer
    BY DEF CancelTellsTruth
  <2>1. Target[d] \in Runs BY DEF AgentRunAssumption
  <2>2. CASE cancel'[d].answer = cancel[d].answer
    BY <1>2, <1>6, <2>1, <2>2 DEF CancelTellsTruth, Stays
  <2>3. CASE cancel'[d].answer # cancel[d].answer
    <3>1. d = c /\ \E a \in Terminal \cup {"none", "refused", "retry"} :
            cancel'[c].answer = a /\ (a \in Terminal => status'[r] = a)
      BY <1>2, <1>7, <2>3 DEF RunParts, CancelTypes, GoesOn, Answers
    <3>. QED BY <3>1
  <2>. QED BY <2>2, <2>3
<1>10. Counts' BY <1>2, <1>3, <1>6 DEF RunParts, Counts
<1>. QED BY <1>5, <1>6, <1>8, <1>9, <1>10, RunFolds DEF RunParts

\* A restart reads back the end of every run that had one.
LEMMA RestartKeeps ==
  ASSUME AgentRunAssumption, IInv, Restart PROVE IInv' /\ Stays
<1>1. RunParts /\ Recorded /\ CancelTellsTruth BY RunUnfolds
<1>2. UNCHANGED <<records, ctx, result, failures>> /\ entries' = {}
      /\ restarts' \in 0 .. MaxRestarts
  BY <1>1 DEF Restart, RunParts, Counts, AgentRunAssumption
<1>3. status' = [r \in Runs |-> LastRecorded(r)]
      /\ driver' = [r \in Runs |-> IF driver[r] = "no" THEN "no" ELSE "over"]
  BY DEF Restart
<1>4. \A r \in Runs : LastRecorded(r) \in Statuses
  <2> SUFFICES ASSUME NEW r \in Runs, records[r] # <<>>
               PROVE  records[r][Len(records[r])] \in Statuses
    BY DEF LastRecorded, Statuses
  <2>1. records[r] \in Seq(Statuses) BY <1>1 DEF RunParts, Logs, Lines
  <2>. QED BY <2>1
<1>5. \A r \in Runs : status[r] \in Terminal => LastRecorded(r) = status[r]
  BY <1>1 DEF Recorded, LastRecorded, EndsWith
<1>6. Stays BY <1>3, <1>5 DEF Stays
<1>7. Statused' /\ Logs' BY <1>1, <1>2, <1>3, <1>4 DEF RunParts, Statused, Logs
<1>8. Recorded'
  <2> SUFFICES ASSUME NEW r \in Runs
               PROVE  /\ status'[r] # "none" \/ records'[r] # <<>> => driver'[r] # "no"
                      /\ status'[r] \in Terminal => EndsWith(records'[r], status'[r])
    BY DEF Recorded
  <2>1. status'[r] = LastRecorded(r) /\ records'[r] = records[r] BY <1>2, <1>3
  <2>2. status'[r] # "none" \/ records'[r] # <<>> => driver'[r] # "no"
    BY <1>1, <1>3, <2>1 DEF Recorded, LastRecorded
  <2>3. status'[r] \in Terminal => EndsWith(records'[r], status'[r])
    BY <2>1 DEF LastRecorded, EndsWith, Terminal
  <2>. QED BY <2>2, <2>3
<1>9. RunTypes' /\ Registered'
  <2>1. driver' \in [Runs -> {"no", "over"}] BY <1>3
  <2>2. process' \in [Runs -> {"no", "running", "stopped", "orphan"}]
    BY <1>1 DEF Restart, RunParts, RunTypes
  <2>. QED BY <1>1, <1>2, <2>1, <2>2 DEF RunParts, RunTypes, Registered
<1>10. cancel' = [c \in Cancels |->
         IF cancel[c].pc \in {"no", "over"} THEN cancel[c] ELSE [pc |-> "over", answer |-> "lost"]]
  BY DEF Restart
<1>11. CancelTypes' BY <1>1, <1>10 DEF RunParts, CancelTypes
<1>12. CancelTellsTruth'
  <2>1. \A c \in Cancels : Target[c] \in Runs BY DEF AgentRunAssumption
  <2>2. \A c \in Cancels : cancel'[c].answer \in Terminal => cancel'[c] = cancel[c]
    BY <1>10 DEF Terminal
  <2>. QED BY <1>1, <1>6, <2>1, <2>2 DEF CancelTellsTruth, Stays
<1>13. Counts' BY <1>1, <1>2 DEF RunParts, Counts
<1>. QED BY <1>6, <1>7, <1>8, <1>9, <1>11, <1>12, <1>13, RunFolds DEF RunParts

\* A step of something else leaves every run and cancel as they are.
LEMMA RunStutters ==
  ASSUME IInv, UNCHANGED runVars PROVE IInv' /\ Stays
<1>1. RunParts /\ Recorded /\ CancelTellsTruth BY RunUnfolds
<1>2. RunParts' /\ Recorded' /\ CancelTellsTruth'
  BY <1>1 DEF runVars, RunParts, Statused, Logs, RunTypes, CancelTypes, Counts, Registered,
              Recorded, CancelTellsTruth
<1>. QED BY <1>2, RunFolds DEF runVars, Stays

\* Every step keeps the inductive invariant and the recorded ends.
LEMMA RunSteps ==
  ASSUME AgentRunAssumption, IInv, [RunNext]_runVars PROVE IInv' /\ Stays
<1>1. CASE \E r \in Runs : Start(r) \/ Driving(r) \/ ContextEnds(r)
  BY <1>1, DrivingKeeps, RecordingKeeps DEF Driving
<1>2. CASE \E c \in Cancels : CancelLooks(c) \/ Cancelling(c)
  BY <1>2, CancelKeeps
<1>3. CASE Restart BY <1>3, RestartKeeps
<1>4. CASE UNCHANGED runVars BY <1>4, RunStutters
<1>. QED BY <1>1, <1>2, <1>3, <1>4 DEF RunNext

\* The inductive invariant of the run's record, registry and cancels.
THEOREM RunInvariance == RunSpec => []IInv
<1>1. RunInit => IInv BY AgentRunAssumption, RunStarts
<1>2. IInv /\ [RunNext]_runVars => IInv' BY AgentRunAssumption, RunSteps
<1>. QED BY <1>1, <1>2, PTL DEF RunSpec

\* A cancel that names an outcome names the one on record, for any number of
\* cancels, failed appends and restarts (cancelHandler).
THEOREM CancelsAreTruthful == RunSpec => []CancelTellsTruth
<1>1. IInv => CancelTellsTruth BY DEF IInv
<1>. QED BY <1>1, RunInvariance, PTL

\* A run ends once (RecordCompleted and RecordCancelled refuse a run that has ended,
\* and a restart reads the same end back).
THEOREM RunsEndOnce == RunSpec => EndsOnce
<1>1. IInv /\ [RunNext]_runVars
        => [\A r \in Runs : status[r] \in Terminal => status'[r] = status[r]]_runVars
  BY AgentRunAssumption, RunSteps DEF Stays
<1>. QED BY <1>1, RunInvariance, PTL DEF RunSpec, EndsOnce
=============================================================================
