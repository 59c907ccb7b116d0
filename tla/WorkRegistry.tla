----------------------------- MODULE WorkRegistry -----------------------------
(***************************************************************************)
(* The work registry: tasks with a status machine, a list of evidence and  *)
(* version numbers, kept in a RecordLog.  Clients read a task and write    *)
(* with the version they read; creation is idempotent by key.  Mutations   *)
(* run one at a time (mutex of the store, write fence), so a request is    *)
(* one action; refused requests change nothing and are left out.           *)
(*                                                                         *)
(* A task and its work context are created together and are one id here.   *)
(***************************************************************************)
EXTENDS TaskStatus, LogBounds, Sequences

CONSTANTS
    Task,      \* ids of tasks
    Key,       \* idempotency keys
    Evidence,  \* pieces of evidence
    Client,    \* callers of the registry
    NoTask     \* no task id

ASSUME WorkRegistryAssumption == NoTask \notin Task

VARIABLES
    file, ended, synced, state, mem, seq, acked, tears, deaths, \* the log
    seen       \* seen[c]: the last answer client c got about a task

logVars == <<file, ended, synced, state, mem, seq, acked, tears, deaths>>
vars == <<file, ended, synced, state, mem, seq, acked, tears, deaths, seen>>

Record ==
    [op : {"created"}, task : Task, key : Key]
    \cup [op : {"transitioned"}, task : Task, to : Status, after : Nat]
    \cup [op : {"attached"}, task : Task, evidence : Evidence]

Log == INSTANCE RecordLog

-----------------------------------------------------------------------------
(* The projection *)

TaskState == [status : Status, version : Nat, evidence : Seq(Evidence), wcVersion : Nat]

Absent == [status |-> "PLANNED", version |-> 0, evidence |-> <<>>, wcVersion |-> 0]
Planned == [status |-> "PLANNED", version |-> 1, evidence |-> <<>>, wcVersion |-> 1]

Empty == [tasks |-> [t \in Task |-> Absent], idem |-> [k \in Key |-> NoTask]]

\* The reducer, the same for a mutation and for a replay.
Apply(p, entry) ==
    LET r == entry.rec
    IN  CASE r.op = "created" ->
               [tasks |-> [p.tasks EXCEPT ![r.task] = Planned],
                idem  |-> [p.idem EXCEPT ![r.key] = r.task]]
          [] r.op = "transitioned" ->
               [p EXCEPT !.tasks[r.task].status = r.to, !.tasks[r.task].version = r.after]
          [] r.op = "attached" ->
               [p EXCEPT !.tasks[r.task].evidence = Append(@, r.evidence),
                         !.tasks[r.task].wcVersion = @ + 1]

\* The records of a sequence, applied one by one.
Projection(entries) ==
    LET after[n \in 0..Len(entries)] ==
          IF n = 0 THEN Empty ELSE Apply(after[n - 1], entries[n])
    IN  after[Len(entries)]

Current == Projection(mem)
Exists(t) == Current.tasks[t].version > 0

-----------------------------------------------------------------------------
(* Requests *)

\* How far an answer can be trusted: the records behind it are synced, some of
\* them only reached the cache of the machine, or such a record may be lost, by a
\* failure of the machine or a write that went on in its line.
Trust == {"synced", "cached", "lost"}

NothingSeen == [task |-> NoTask, view |-> Absent, trust |-> "synced"]

\* A replay takes the lines into memory one by one and syncs none of them, an
\* append syncs the whole file.
TrustNow ==
    IF Len(mem) <= synced THEN "synced"
    ELSE IF \A i \in 1..Len(file) : i <= Len(mem) => file[i].ok THEN "cached"
    ELSE "lost"

Retrusted(from, to) ==
    [c \in Client |-> [seen[c] EXCEPT !.trust = IF @ = from THEN to ELSE @]]

Answer(c, t) ==
    seen' = [seen EXCEPT ![c] = [task |-> t, view |-> Current.tasks[t], trust |-> TrustNow]]

\* A mutation with record r for client c: acknowledged, with the new state as
\* the answer, or failed, with the old knowledge.
Write(c, r) ==
    \/ /\ Log!AppendRecord(r)
       /\ seen' = [Retrusted("cached", "synced") EXCEPT ![c] =
                     [task |-> r.task, view |-> Projection(mem').tasks[r.task],
                      trust |-> "synced"]]
    \/ /\ Log!AppendUnsynced(r) \/ \E whole \in BOOLEAN : Log!AppendTorn(r, whole)
       /\ seen' = IF ended THEN seen ELSE Retrusted("cached", "lost")

\* NewID gives ids no record has, whether its append succeeded or not.
FreshTask(t) ==
    \A i \in 1..Len(file) : file[i].rec.task # t
FreshEvidence(ev) ==
    /\ \A i \in 1..Len(file) : file[i].rec.op = "attached" => file[i].rec.evidence # ev
    /\ \A i \in 1..Len(mem) : mem[i].rec.op = "attached" => mem[i].rec.evidence # ev

KeyForgotten(k) == FALSE
KeyKnown(k) == Current.idem[k] # NoTask

CreateTask(c, k, t) ==
    /\ state = "up"
    /\ ~KeyKnown(k)
    /\ FreshTask(t)
    /\ ~Exists(t)
    /\ Write(c, [op |-> "created", task |-> t, key |-> k])

\* A known key: the task of the first creation is the answer.
CreateReplay(c, k) ==
    /\ state = "up"
    /\ KeyKnown(k)
    /\ Answer(c, Current.idem[k])
    /\ UNCHANGED logVars

\* GetByTask and GetByContext.
Get(c, t) ==
    /\ state = "up"
    /\ Exists(t)
    /\ Answer(c, t)
    /\ UNCHANGED logVars

AnyVersion(version, expected) == TRUE
VersionMatches(version, expected) == version = expected

SameVersion(version) == version
NextVersion(version) == version + 1

\* The client expects the task version it saw last.
Transition(c, to) ==
    LET t == seen[c].task
    IN  /\ state = "up"
        /\ t # NoTask
        /\ Exists(t)
        /\ VersionMatches(Current.tasks[t].version, seen[c].view.version)
        /\ LegalTransition(Current.tasks[t].status, to)
        /\ Write(c, [op |-> "transitioned", task |-> t, to |-> to,
                     after |-> NextVersion(Current.tasks[t].version)])

\* The client expects the version of the work context it saw last.
AttachEvidence(c, ev) ==
    LET t == seen[c].task
    IN  /\ state = "up"
        /\ t # NoTask
        /\ Exists(t)
        /\ VersionMatches(Current.tasks[t].wcVersion, seen[c].view.wcVersion)
        /\ FreshEvidence(ev)
        /\ Write(c, [op |-> "attached", task |-> t, evidence |-> ev])

-----------------------------------------------------------------------------
Init == Log!Init /\ seen = [c \in Client |-> NothingSeen]

Request(c) ==
    \/ \E k \in Key, t \in Task : CreateTask(c, k, t)
    \/ \E k \in Key : CreateReplay(c, k)
    \/ \E t \in Task : Get(c, t)
    \/ \E to \in Status : Transition(c, to)
    \/ \E ev \in Evidence : AttachEvidence(c, ev)

Restart == (Log!Exit \/ Log!Load \/ Log!LoadRefused) /\ UNCHANGED seen

\* A failure of the machine under the registry: what its last answers rested on
\* may be gone.
MachineFails ==
    /\ \E n \in 0..MaxLines, cut \in BOOLEAN : Log!PowerLoss(n, cut)
    /\ seen' = Retrusted("cached", "lost")

Next == (\E c \in Client : Request(c)) \/ Restart \/ MachineFails

Spec == Init /\ [][Next]_vars

-----------------------------------------------------------------------------
(* Properties *)

\* The log has its types, and so have the answers the clients hold.
TypeOK ==
    /\ Log!TypeOK
    /\ seen \in [Client -> [task : Task \cup {NoTask}, view : TaskState, trust : Trust]]
    /\ \A c \in Client : seen[c].task = NoTask => seen[c].view = Absent

\* A version names one state: while the registry serves, a client that knows
\* the current version of a task knows its status, and the same for the
\* evidence.  Version checks rest on it, and it must survive failed syncs (a
\* record on the disk that is not in memory), retries, replays and failures of
\* the machine.  The exception are answers that are lost: a replay shows a
\* record whose append had failed, and then the machine fails or another append
\* continues the line.
VersionNamesState ==
    state = "up" =>
        \A c \in Client : seen[c].task # NoTask /\ seen[c].trust # "lost" =>
            LET now == Current.tasks[seen[c].task]
                was == seen[c].view
            IN  /\ now.version = was.version => now.status = was.status
                /\ now.wcVersion = was.wcVersion => now.evidence = was.evidence

\* What a client was told never becomes untrue later: a task is only ever found
\* in a status that can be reached from the one it was seen in (DONE and FAILED
\* are final), and evidence that was seen is still listed.  Answers of the
\* client's own mutations hold through every failure, answers of reads as long as
\* the records they show are synced or no further failure hits them.
AnswersHold ==
    state = "up" =>
        \A c \in Client : seen[c].task # NoTask /\ seen[c].trust # "lost" =>
            LET now == Current.tasks[seen[c].task]
                was == seen[c].view
            IN  /\ now.status = was.status \/ Rank[now.status] > Rank[was.status]
                /\ \A e \in Evidence : (\E i \in 1..Len(was.evidence) : was.evidence[i] = e)
                                       => (\E i \in 1..Len(now.evidence) : now.evidence[i] = e)

\* A mutation that is acknowledged replaces the state its client had read: no
\* client overwrites a change it has not seen, unless what it has seen is lost.
NoLostUpdate ==
    [][\A t \in Task :
         LET now == Current.tasks[t]
             next == Current'.tasks[t]
         IN  (state = "up" /\ state' = "up" /\ Exists(t) /\ now # next) =>
                \E c \in Client :
                    /\ seen[c].task = t
                    /\ \/ seen[c].trust = "lost"
                       \/ /\ now.status # next.status => seen[c].view.status = now.status
                          /\ now.evidence # next.evidence => seen[c].view.evidence = now.evidence
                    /\ seen'[c].view = next]_vars

\* The log under the registry keeps its promises: everything acknowledged is in
\* memory while the registry serves, synced lines are complete and sequence
\* numbers grow, whatever the requests and the failures; and what torn writes cost
\* it is bounded by their number.
LogKept == Log!IInv /\ Log!LossBoundedByTears

\* Two acknowledged creations with one key got one task, also if an earlier
\* attempt failed with its record on the disk and the registry restarted.
CreationIdempotent ==
    \A i, j \in 1..Len(acked) :
        LET a == acked[i].rec
            b == acked[j].rec
        IN  a.op = "created" /\ b.op = "created" /\ a.key = b.key => a.task = b.task

-----------------------------------------------------------------------------
(* The inductive invariant behind the safety properties                    *)

\* What a replay of the first n lines would make, and whether there could be one.
Replay(n) == Projection([i \in 1..n |-> [rec |-> file[i].rec, seq |-> file[i].seq]])
Whole(n) == \A i \in 1..n : file[i].ok

\* One state of a task follows another, or is the same.
Later(was, now) ==
    /\ was.version <= now.version
    /\ IF was.version = now.version THEN was.status = now.status
                                    ELSE Rank[was.status] < Rank[now.status]
    /\ was.wcVersion <= now.wcVersion
    /\ was.wcVersion = now.wcVersion => was.evidence = now.evidence
    /\ \A i \in 1..Len(was.evidence) : \E j \in 1..Len(now.evidence) :
          was.evidence[i] = now.evidence[j]

\* A projection of these entries knows the keys of all creations, and for each key a
\* task there is; a task without a version is not there, nor is one no entry is about.
Sound(p, entries, n) ==
    /\ p \in [tasks : [Task -> TaskState], idem : [Key -> Task \cup {NoTask}]]
    /\ \A i \in 1..n : entries[i].rec.op = "created" => p.idem[entries[i].rec.key] # NoTask
    /\ \A k \in Key : p.idem[k] # NoTask => p.tasks[p.idem[k]].version > 0
    /\ \A t \in Task : p.tasks[t].version = 0 => p.tasks[t] = Absent

ReplaysSound ==
    \A n \in 0..Len(file) : Whole(n) =>
        /\ Sound(Replay(n), file, n)
        /\ \A t \in Task : (\A i \in 1..n : file[i].rec.task # t) => Replay(n).tasks[t] = Absent

\* The file has records the memory has not, of appends that failed, but a replay that
\* has all that the memory has makes nothing older of it.
MemoryInFile ==
    /\ Sound(Current, mem, Len(mem))
    /\ Whole(Len(file)) => Len(mem) <= Len(file)
    /\ \A n \in synced..Len(file) : Whole(n) /\ Len(mem) <= n =>
          \A t \in Task : Exists(t) => Later(Current.tasks[t], Replay(n).tasks[t])

\* How many lines a replay after the death of the process alone would read.
Loadable(n) == Whole(n) /\ (n = Len(file) \/ (n = Len(file) - 1 /\ ~file[Len(file)].ok))

\* What a client was told is not newer than the memory, nor than any replay there can
\* be; an answer from lines no sync covered is only good for the file as it is.
AnswersInFile ==
    \A c \in Client : seen[c].task # NoTask /\ seen[c].trust # "lost" =>
        LET was == seen[c].view
            t == seen[c].task
        IN  /\ was.version > 0
            /\ state = "up" => Later(was, Current.tasks[t])
            /\ \A n \in synced..Len(file) :
                 (IF seen[c].trust = "synced" THEN Whole(n) ELSE Loadable(n)) =>
                     Later(was, Replay(n).tasks[t])

\* The inductive invariant, with the types and with what versions are there for.
Inv ==
    /\ TypeOK
    /\ VersionNamesState
    /\ ReplaysSound
    /\ MemoryInFile
    /\ AnswersInFile
=============================================================================
