------------------------------ MODULE Workspace ------------------------------
(***************************************************************************)
(* org.vibe.workspace: a workspace is a git worktree on a branch of its own *)
(* and a record of who has it.  Allocating adds the worktree and records    *)
(* it, releasing removes it (or leaves it) and records that, both under the *)
(* writer's fence; whether a release may go on is decided before the fence. *)
(* A failed append and a restart can come between git and the log.          *)
(*                                                                          *)
(* The record holds the RFC3339Nano text of an instant, whose order         *)
(* GetByContext relies on.  All workspaces are of one work context.         *)
(***************************************************************************)
EXTENDS Integers, Sequences, FiniteSets, Functions

CONSTANTS
  Workspaces,  \* their ids, drawn at random: a set of numbers, for their order
  Callers,
  Base, Digits, \* of the fraction of a second (10 and 9)
  Instants,     \* bound: the readings of the clock
  MaxFaults, MaxCrashes   \* bounds

Nobody == 0

ASSUME WorkspaceAssumption ==
  /\ Workspaces \subseteq Nat /\ IsFiniteSet(Workspaces)
  /\ Nobody \notin Callers
  /\ {Base, Digits} \subseteq Nat \ {0}
  /\ Instants \subseteq [second : Nat, fraction : [1 .. Digits -> 0 .. Base - 1]]
  /\ {MaxFaults, MaxCrashes} \subseteq Nat

VARIABLES
  now,
  git,    \* what the repository has of a workspace
  refs,   \* Store.byID
  log,    \* the records of each workspace in workspace-log.jsonl
  used,   \* the ids drawn
  fence,  \* who is inside WithWriteFence
  call,   \* the call that each caller has under way
  faults, crashes

vars == <<now, git, refs, log, used, fence, call, faults, crashes>>
store == <<refs, log>>

Idle == [pc |-> "idle"]
Never == [second |-> -1, fraction |-> [i \in 1 .. Digits |-> 0]]

Smaller(a, b) ==
  \E i \in 1 .. Len(b) :
    /\ i > Len(a) \/ a[i] < b[i]
    /\ \A j \in 1 .. i - 1 : j <= Len(a) /\ a[j] = b[j]

Init ==
  /\ now \in Instants
  /\ git = [w \in Workspaces |-> "nothing"]
  /\ refs = <<>>
  /\ log = [w \in Workspaces |-> <<>>]
  /\ used = {}
  /\ fence = Nobody
  /\ call = [c \in Callers |-> Idle]
  /\ faults = 0 /\ crashes = 0

After(t, u) ==
  \/ t.second > u.second
  \/ t.second = u.second /\ Smaller(u.fraction, t.fraction)

Tick == \E t \in Instants : After(t, now) /\ now' = t
        /\ UNCHANGED <<git, refs, log, used, fence, call, faults, crashes>>

(***************************************************************************)
(* The store: Load applies the records in order, append applies a record    *)
(* once it is in the log; a failed append leaves the line or not.  Part of  *)
(* a line, and the line glued to it, are the subject of RecordLog.          *)
(***************************************************************************)
Apply(rec, old) ==
  IF rec.op = "allocated"
    THEN [status |-> "ALLOCATED", policy |-> "", allocatedAt |-> rec.at, releasedAt |-> Never]
    ELSE [old EXCEPT !.status = "RELEASED", !.policy = rec.op, !.releasedAt = rec.at]

Replayed(lines) ==
  LET ref[n \in 0 .. Len(lines)] == IF n = 0 THEN <<>> ELSE Apply(lines[n], ref[n - 1])
  IN ref[Len(lines)]

Known(l) == {w \in Workspaces : l[w] # <<>>}
Load(l) == [w \in Known(l) |-> Replayed(l[w])]

AppendOk(w, rec) ==
  /\ log' = [log EXCEPT ![w] = Append(@, rec)]
  /\ refs' = [x \in DOMAIN refs \cup {w} |->
       IF x = w THEN Apply(rec, IF w \in DOMAIN refs THEN refs[w] ELSE <<>>) ELSE refs[x]]
  /\ UNCHANGED faults

Fault == faults < MaxFaults /\ faults' = faults + 1
TwoFaults == faults + 1 < MaxFaults /\ faults' = faults + 2

AppendFails(w, rec) ==
  /\ Fault
  /\ log' \in {log, [log EXCEPT ![w] = Append(@, rec)]}
  /\ UNCHANGED refs

(***************************************************************************)
(* The fence.  A writer that is refused has done nothing.                   *)
(***************************************************************************)
Goes(c, pc) == call' = [call EXCEPT ![c].pc = pc]
Returns(c) == call' = [call EXCEPT ![c] = Idle]
Leaves(c) == Returns(c) /\ fence' = Nobody
At(c, pc) == call[c].pc = pc

Waits(c) == fence = Nobody

Enter(c) ==
  /\ At(c, "enter") /\ Waits(c)
  /\ fence' = c
  /\ Goes(c, call[c].first)
  /\ UNCHANGED <<now, git, store, used, faults, crashes>>

Refused(c) ==
  /\ At(c, "enter")
  /\ Returns(c)
  /\ UNCHANGED <<now, git, store, used, fence, faults, crashes>>

(***************************************************************************)
(* allocateHandler.                                                         *)
(***************************************************************************)
Allocate(c, w) ==
  /\ At(c, "idle") /\ w \notin used
  /\ used' = used \cup {w}
  /\ call' = [call EXCEPT ![c] =
       [pc |-> "enter", first |-> "add", ws |-> w, policy |-> "", at |-> now]]
  /\ UNCHANGED <<now, git, store, fence, faults, crashes>>

\* A failed add takes its worktree back, or fails in that too and is not told; the
\* branch it may have made stays.
AddWorktree(c) ==
  LET w == call[c].ws IN
  /\ At(c, "add")
  /\ \/ /\ git' = [git EXCEPT ![w] = "worktree"]
        /\ Goes(c, "allocated") /\ UNCHANGED <<fence, faults>>
     \/ /\ Fault /\ Leaves(c)
        /\ \E left \in {"nothing", "branch"} : git' = [git EXCEPT ![w] = left]
     \/ TwoFaults /\ Leaves(c) /\ git' = [git EXCEPT ![w] = "worktree"]
  /\ UNCHANGED <<now, store, used, crashes>>

RecordAllocated(c) ==
  LET w == call[c].ws
      rec == [op |-> "allocated", at |-> call[c].at]
  IN
  /\ At(c, "allocated")
  /\ \/ AppendOk(w, rec) /\ Leaves(c)
     \/ AppendFails(w, rec) /\ Goes(c, "undo") /\ UNCHANGED fence
  /\ UNCHANGED <<now, git, used, crashes>>

LeftThere(w) == git
TakenBack(w) == [git EXCEPT ![w] = "branch"]

\* Neither outcome is looked at.  A branch that is checked out cannot be deleted.
UndoWorktree(c) ==
  /\ At(c, "undo")
  /\ Goes(c, "unbranch")
  /\ \/ git' = TakenBack(call[c].ws) /\ UNCHANGED faults
     \/ Fault /\ UNCHANGED git
  /\ UNCHANGED <<now, store, used, fence, crashes>>

UndoBranch(c) ==
  LET w == call[c].ws IN
  /\ At(c, "unbranch")
  /\ Leaves(c)
  /\ \/ git[w] = "branch" /\ git' = [git EXCEPT ![w] = "nothing"] /\ UNCHANGED faults
     \/ (IF git[w] = "branch" THEN Fault ELSE UNCHANGED faults) /\ UNCHANGED git
  /\ UNCHANGED <<now, store, used, crashes>>

(***************************************************************************)
(* releaseHandler.  A released workspace is answered from the record, or    *)
(* refused as a CONFLICT, without a change.                                 *)
(***************************************************************************)
Look(c, w, policy) ==
  /\ At(c, "idle") /\ w \in DOMAIN refs /\ refs[w].status = "ALLOCATED"
  /\ call' = [call EXCEPT ![c] =
       [pc |-> "enter", first |-> IF policy = "delete" THEN "remove" ELSE "released",
        ws |-> w, policy |-> policy, at |-> Never]]
  /\ UNCHANGED <<now, git, store, used, fence, faults, crashes>>

RemovalIgnored(c) == Goes(c, "released") /\ UNCHANGED fence
RemovalFails(c) == Leaves(c)

RemoveWorktree(c) ==
  LET w == call[c].ws IN
  /\ At(c, "remove")
  /\ \/ /\ git[w] = "worktree"
        /\ git' = [git EXCEPT ![w] = "branch"]
        /\ Goes(c, "branch") /\ UNCHANGED <<fence, faults>>
     \/ /\ IF git[w] = "worktree" THEN Fault ELSE UNCHANGED faults
        /\ RemovalFails(c) /\ UNCHANGED git
  /\ UNCHANGED <<now, store, used, crashes>>

DeleteBranch(c) ==
  /\ At(c, "branch")
  /\ Goes(c, "released")
  /\ \/ git' = [git EXCEPT ![call[c].ws] = "nothing"] /\ UNCHANGED faults
     \/ Fault /\ UNCHANGED git
  /\ UNCHANGED <<now, store, used, fence, crashes>>

RecordReleased(c) ==
  LET rec == [op |-> call[c].policy, at |-> now] IN
  /\ At(c, "released")
  /\ Leaves(c)
  /\ AppendOk(call[c].ws, rec) \/ AppendFails(call[c].ws, rec)
  /\ UNCHANGED <<now, git, used, crashes>>

Crash ==
  /\ crashes < MaxCrashes /\ crashes' = crashes + 1
  /\ refs' = Load(log)
  /\ fence' = Nobody
  /\ call' = [c \in Callers |-> Idle]
  /\ UNCHANGED <<now, git, log, used, faults>>

Next ==
  \/ Tick
  \/ \E c \in Callers :
       \/ Enter(c) \/ Refused(c)
       \/ AddWorktree(c) \/ RecordAllocated(c)
       \/ UndoWorktree(c) \/ UndoBranch(c)
       \/ RemoveWorktree(c) \/ DeleteBranch(c) \/ RecordReleased(c)
       \/ \E w \in Workspaces :
            \/ Allocate(c, w)
            \/ \E policy \in {"preserve", "delete"} : Look(c, w, policy)
  \/ Crash

Spec == Init /\ [][Next]_vars

(***************************************************************************)
(* GetByContext.  RFC3339Nano drops the zeros that end the fraction, and    *)
(* the point with it when nothing is left; in the order of strings the      *)
(* point comes before the digits and the final Z after them.                *)
(***************************************************************************)
Trimmed(ds) ==
  SubSeq(ds, 1, CHOOSE n \in 0 .. Len(ds) :
                  (n = 0 \/ ds[n] # 0) /\ \A i \in n + 1 .. Len(ds) : ds[i] = 0)

Text(t) ==
  LET point == -1
      z == Base
      ds == Trimmed(t.fraction)
  IN IF t = Never THEN <<>>
     ELSE <<t.second>> \o (IF ds = <<>> THEN ds ELSE <<point>> \o ds) \o <<z>>

OldestFirst(a, b) ==
  LET old == Text(refs[a].allocatedAt)  new == Text(refs[b].allocatedAt)
  IN Smaller(new, old) \/ (new = old /\ b < a)

refLess(a, b) ==
  LET Alloc(w) == Text(refs[w].allocatedAt)
      Rel(w) == Text(refs[w].releasedAt)
  IN IF Alloc(a) # Alloc(b) THEN Smaller(Alloc(a), Alloc(b))
     ELSE IF Rel(a) # Rel(b) THEN Smaller(Rel(a), Rel(b))
     ELSE b < a

AnyReleased(w) == refs[w].status = "RELEASED"
Offered(w) == refs[w].status = "RELEASED" /\ refs[w].policy = "preserve"

Candidates ==
  LET allocated == {w \in DOMAIN refs : refs[w].status = "ALLOCATED"}
  IN IF allocated # {} THEN allocated ELSE {w \in DOMAIN refs : Offered(w)}

\* The choice when the map is ranged over in the given order.
GetByContext(order) ==
  LET best[n \in 1 .. Len(order)] ==
        IF n = 1 THEN order[1]
        ELSE IF refLess(best[n - 1], order[n]) THEN order[n] ELSE best[n - 1]
  IN best[Len(order)]

Orders == Bijection(1 .. Cardinality(Candidates), Candidates)

(***************************************************************************)
(* Properties.                                                              *)
(***************************************************************************)
Records == [op : {"allocated", "preserve", "delete"}, at : Instants]
Refs == [status : {"ALLOCATED", "RELEASED"}, policy : {"", "preserve", "delete"},
         allocatedAt : Instants, releasedAt : Instants \cup {Never}]
Calls ==
  [pc : {"enter", "add", "allocated", "undo", "unbranch"}, first : {"add"},
   ws : Workspaces, policy : {""}, at : Instants]
  \cup [pc : {"enter", "remove", "branch", "released"}, first : {"remove"},
        ws : Workspaces, policy : {"delete"}, at : {Never}]
  \cup [pc : {"enter", "released"}, first : {"released"},
        ws : Workspaces, policy : {"preserve"}, at : {Never}]

\* The variables have the values the code can store in them, and a caller is at a
\* step of the fenced part exactly while it holds the fence.
TypeOK ==
  /\ now \in Instants
  /\ git \in [Workspaces -> {"nothing", "branch", "worktree"}]
  /\ DOMAIN refs \subseteq used /\ used \subseteq Workspaces
  /\ refs \in [DOMAIN refs -> Refs]
  /\ log \in [Workspaces -> Seq(Records)]
  /\ fence \in Callers \cup {Nobody}
  /\ call \in [Callers -> {Idle} \cup Calls]
  /\ \A c \in Callers : fence = c <=> ~ At(c, "idle") /\ ~ At(c, "enter")
  /\ faults \in 0 .. MaxFaults /\ crashes \in 0 .. MaxCrashes

\* A workspace that is on record as deleted has no worktree left behind, whatever
\* failed on the way and however often the plugin restarted.
DeletedIsGone ==
  \A w \in DOMAIN refs :
    refs[w].status = "RELEASED" /\ refs[w].policy = "delete" => git[w] # "worktree"

\* One failure leaves no worktree that no record names: it takes a second one while
\* the first is undone, or a crash.
NoSpareTrees ==
  crashes = 0 /\ faults < 2 =>
    \A w \in Workspaces :
      git[w] = "worktree" => w \in DOMAIN refs \/ \E c \in Callers : fence = c /\ call[c].ws = w

\* What makes the above inductive.  A call that allocates is the only one with its
\* id, and nothing is known of it; one that releases has found the workspace, and
\* has removed its tree when it goes on to the branch and the record.
Adds(c) == ~ At(c, "idle") /\ call[c].first = "add"
Frees(c) == ~ At(c, "idle") /\ call[c].first # "add"
Undoes(c) == At(c, "undo") \/ At(c, "unbranch")
HasRemoved(c) == At(c, "branch") \/ (At(c, "released") /\ call[c].policy = "delete")

CallInv ==
  /\ \A c \in Callers : Adds(c) =>
       /\ call[c].ws \in used \ DOMAIN refs
       /\ IF Undoes(c) THEN faults > 0 ELSE log[call[c].ws] = <<>>
       /\ At(c, "unbranch") /\ git[call[c].ws] = "worktree" => faults > 1
       /\ At(c, "allocated") => git[call[c].ws] = "worktree"
       /\ \A d \in Callers \ {c} : Adds(d) => call[d].ws # call[c].ws
  /\ \A c \in Callers : Frees(c) =>
       /\ call[c].ws \in DOMAIN refs
       /\ HasRemoved(c) => git[call[c].ws] # "worktree"

\* The log of a workspace begins with its allocation and goes on with releases; a
\* deletion in it has happened, and the memory knows of no other.
Deleted(w) == \E i \in DOMAIN log[w] : log[w][i].op = "delete"

LogInv ==
  /\ \A w \in Workspaces : log[w] # <<>> =>
       w \in used /\ \A i \in DOMAIN log[w] : log[w][i].op = "allocated" <=> i = 1
  /\ \A w \in Workspaces : Deleted(w) => git[w] # "worktree"
  /\ \A w \in DOMAIN refs : log[w] # <<>> /\ (refs[w].policy = "delete" => Deleted(w))

\* A workspace on record is lost when its tree is gone, or is being taken back, although
\* no release is between its removal and the record of it, nor is the deletion known.
\* Each one lost costs a failure or a restart of its own.
BeingRemoved(w) == \E c \in Callers : HasRemoved(c) /\ call[c].ws = w
BeingUndone(w) == \E c \in Callers : Undoes(c) /\ call[c].ws = w
KnownDeleted(w) == Deleted(w) /\ w \in DOMAIN refs /\ refs[w].status = "RELEASED"

Lost ==
  {w \in Workspaces :
     /\ log[w] # <<>>
     /\ git[w] # "worktree" \/ BeingUndone(w)
     /\ ~ BeingRemoved(w) /\ ~ KnownDeleted(w)}

LossInv == Cardinality(Lost) <= faults + crashes

\* The state invariant: the types, and that a deletion on record has happened.
Inv == TypeOK /\ CallInv /\ LogInv /\ LossInv /\ DeletedIsGone

\* GetByContext: a workspace among which a cold-start caller's is chosen has a worktree.
\* Two kinds of exception need no failure, and they are named.  The lookup takes no
\* fence, so it may come between the removal of a tree and the record of it.  And two
\* releases that both looked before either recorded may delete and then preserve, which
\* leaves the preserved one without its tree.  Any other exception costs a failure or a
\* restart of its own.
Overtaken(w) == Deleted(w) /\ refs[w].status = "RELEASED" /\ refs[w].policy = "preserve"

CandidatesHaveTrees ==
  Cardinality({w \in Candidates :
                 git[w] # "worktree" /\ ~ BeingRemoved(w) /\ ~ Overtaken(w)})
    <= faults + crashes

\* The comment on GetByContext: it returns the most recently allocated candidate, and
\* the same one whatever order the map is ranged over.  The order of the texts keeps
\* the first promise to the second, and not within one.
MostRecentIsChosen ==
  \A o, p \in Orders : o # <<>> =>
    /\ GetByContext(o) = GetByContext(p)
    /\ \A w \in Candidates :
         refs[w].allocatedAt.second <= refs[GetByContext(o)].allocatedAt.second
=============================================================================
