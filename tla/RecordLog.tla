------------------------------ MODULE RecordLog ------------------------------
(***************************************************************************)
(* The storage of an authority's plugin: a file with one record per line   *)
(* and the projection of its records in memory.  The work registry, the    *)
(* workspace manager, the agent harness, the artifact store, the tool      *)
(* runner, the review and the session plugin all keep their state this     *)
(* way; the definitions are translated from the work registry.             *)
(*                                                                         *)
(* Records are opaque here and the projection is the sequence of records   *)
(* that went through the reducer.  One process has the file open: the      *)
(* mutex of the store and the write fence see to that.                     *)
(***************************************************************************)
EXTENDS LogBounds, Integers, Sequences, FiniteSets

CONSTANT Record  \* what a mutation writes, with a fresh identity

VARIABLES
    file,   \* the lines of the file, each with its sequence number
    ended,  \* the last line has its newline
    synced, \* how many lines are known to survive a failure of the machine
    state,  \* "up", "down", or "refused": Load returned an error
    mem,    \* the records the projection in memory is made of
    seq,    \* the sequence number of the store
    acked,  \* history: the records whose mutation returned without an error
    tears,  \* history: how many writes were cut short
    deaths  \* history: how many deaths there were

disk == <<file, ended, synced>>
store == <<state, mem, seq>>
vars == <<file, ended, synced, state, mem, seq, acked, tears, deaths>>

Entry == [rec : Record, seq : Nat]
Line == [rec : Record, seq : Nat, ok : BOOLEAN]

-----------------------------------------------------------------------------
(* Writing *)

\* What is left of a line whose bytes are incomplete or mixed with others'.
Spoiled(line) == [rec |-> line.rec, seq |-> line.seq, ok |-> FALSE]

\* The bytes of a line reach the end of the file.  After a line without its
\* newline they continue that line, and the result is no JSON document.
Put(line) ==
    IF ended THEN Append(file, line) ELSE [file EXCEPT ![Len(file)] = Spoiled(@)]

RepeatedSeq == seq
NextSeq == seq + 1

Written(r, ok) == Put([rec |-> r, seq |-> NextSeq, ok |-> ok])

CanAppend == state = "up" /\ (ended => Len(file) < MaxLines)

NothingSynced(lines) == synced
SyncedUpTo(lines) == Len(lines)

\* Write, sync, apply: the mutation is acknowledged.
AppendRecord(r) ==
    /\ CanAppend
    /\ file' = Written(r, TRUE)
    /\ ended' = TRUE
    /\ synced' = SyncedUpTo(file')
    /\ mem' = Append(mem, [rec |-> r, seq |-> NextSeq])
    /\ seq' = NextSeq
    /\ acked' = Append(acked, [rec |-> r, seq |-> NextSeq])
    /\ UNCHANGED <<state, tears, deaths>>

\* The line is written but sync or close reports an error: the caller gets the
\* error and the memory keeps the old state.
AppendUnsynced(r) ==
    /\ CanAppend
    /\ file' = Written(r, TRUE)
    /\ ended' = TRUE
    /\ UNCHANGED <<synced, store, acked, tears, deaths>>

\* The write stops inside the line: the caller gets an error.  If all but the
\* newline was written (whole), the line still parses.
AppendTorn(r, whole) ==
    /\ CanAppend
    /\ tears < MaxTears
    /\ file' = Written(r, whole)
    /\ ended' = FALSE
    /\ tears' = tears + 1
    /\ UNCHANGED <<synced, store, acked, deaths>>

-----------------------------------------------------------------------------
(* Death and restart *)

\* The process ends.  A death inside an append is an AppendUnsynced or an
\* AppendTorn followed by this.
Exit ==
    /\ state = "up"
    /\ deaths < MaxDeaths
    /\ state' = "down"
    /\ mem' = <<>>
    /\ seq' = 0
    /\ deaths' = deaths + 1
    /\ UNCHANGED <<disk, acked, tears>>

\* The machine stops: of the lines no sync covered, n remain, and of the next
\* one perhaps a part (cut).
PowerLoss(n, cut) ==
    /\ deaths < MaxDeaths
    /\ n \in synced..Len(file)
    /\ cut => n < Len(file) /\ tears < MaxTears
    /\ file' = IF cut THEN Append(SubSeq(file, 1, n), Spoiled(file[n + 1]))
                       ELSE SubSeq(file, 1, n)
    /\ ended' = IF n < Len(file) THEN ~cut ELSE ended
    /\ tears' = IF cut THEN tears + 1 ELSE tears
    /\ state' = "down"
    /\ mem' = <<>>
    /\ seq' = 0
    /\ deaths' = deaths + 1
    /\ UNCHANGED <<synced, acked>>

\* Load stops quietly at a broken line only if it is the last one and has no
\* newline.
ToleratesAny(i) == TRUE
Tolerated(i) == i = Len(file) /\ ~ended

Broken == {i \in 1..Len(file) : ~file[i].ok}

Readable == IF Broken = {} THEN Len(file) ELSE Len(file) - 1

\* The sequence number after a replay: the largest one seen.
ReplayedSeq ==
    {s \in {0} \cup {file[i].seq : i \in 1..Readable} :
        \A i \in 1..Readable : file[i].seq <= s}

Load ==
    /\ state = "down"
    /\ \A i \in Broken : Tolerated(i)
    /\ state' = "up"
    /\ mem' = [i \in 1..Readable |-> [rec |-> file[i].rec, seq |-> file[i].seq]]
    /\ seq' \in ReplayedSeq
    /\ UNCHANGED <<disk, acked, tears, deaths>>

\* A broken line anywhere else: Load returns an error and the plugin exits.
LoadRefused ==
    /\ state = "down"
    /\ \E i \in Broken : ~Tolerated(i)
    /\ state' = "refused"
    /\ UNCHANGED <<disk, mem, seq, acked, tears, deaths>>

-----------------------------------------------------------------------------
Init ==
    /\ file = <<>>
    /\ ended = TRUE
    /\ synced = 0
    /\ state = "up"
    /\ mem = <<>>
    /\ seq = 0
    /\ acked = <<>>
    /\ tears = 0
    /\ deaths = 0

\* Every mutation writes a record of its own: the ids in it are fresh.
FreshRecord(r) ==
    /\ \A i \in 1..Len(file) : file[i].rec # r
    /\ \A i \in 1..Len(acked) : acked[i].rec # r

Mutate(r) ==
    /\ FreshRecord(r)
    /\ \/ AppendRecord(r)
       \/ AppendUnsynced(r)
       \/ \E whole \in BOOLEAN : AppendTorn(r, whole)

Next ==
    \/ \E r \in Record : Mutate(r)
    \/ Exit
    \/ \E n \in 0..MaxLines, cut \in BOOLEAN : PowerLoss(n, cut)
    \/ Load
    \/ LoadRefused

Spec == Init /\ [][Next]_vars

-----------------------------------------------------------------------------
(* Properties *)

\* Every variable stays in its domain, and no more lines are synced than there
\* are.
TypeOK ==
    /\ file \in Seq(Line)
    /\ ended \in BOOLEAN
    /\ synced \in 0..Len(file)
    /\ state \in {"up", "down", "refused"}
    /\ mem \in Seq(Entry)
    /\ seq \in Nat
    /\ acked \in Seq(Entry)
    /\ tears \in 0..MaxTears
    /\ deaths \in 0..MaxDeaths

\* A store that serves has everything it ever acknowledged in memory, whatever
\* failed before: lost syncs, torn writes, deaths of the process or the
\* machine, replays of a torn tail: one that lost something refuses to start.
ServesAllAcked ==
    state = "up" => \A k \in 1..Len(acked) : \E i \in 1..Len(mem) : mem[i] = acked[k]

\* Acknowledged records have growing sequence numbers, also across restarts
\* and after appends that failed with their line in the file.
AckedSeqsGrow ==
    \A k, l \in 1..Len(acked) : k < l => acked[k].seq < acked[l].seq

\* An acknowledged record is in a line that a replay can read.
OnDisk(e) == \E i \in 1..Len(file) : file[i].ok /\ file[i].rec = e.rec

\* What a torn write can cost is bounded: each one spoils at most one
\* acknowledged record, the one appended right after it.  (The storage guide has
\* a torn tail "treated as an interrupted final append and ignored".)
LossBoundedByTears ==
    Cardinality({k \in 1..Len(acked) : ~OnDisk(acked[k])}) <= tears

-----------------------------------------------------------------------------
(* The inductive invariant behind the safety properties                    *)

\* Lines that are synced are complete: an append that continues a line
\* without its newline never touches them.
SyncInv == ~ended => synced < Len(file)

\* An acknowledged record is in a synced line, or a synced line is broken and
\* no replay will get past it.
DurableInv ==
    \A k \in 1..Len(acked) : \E i \in 1..synced :
        ~file[i].ok \/ (file[i].rec = acked[k].rec /\ file[i].seq = acked[k].seq)

\* The next sequence number is above every acknowledged one.
SeqInv == state = "up" => \A k \in 1..Len(acked) : acked[k].seq <= seq

\* Every acknowledged record has a synced line of its own, unless that is broken.
LinesInv ==
    \E at \in [1..Len(acked) -> 1..synced] :
        /\ \A k \in 1..Len(acked) : file[at[k]].ok => file[at[k]].rec = acked[k].rec
        /\ \A k, l \in 1..Len(acked) : at[k] = at[l] => k = l

\* The lines that a torn write has broken, or left for the next append to break.
Torn == {i \in 1..Len(file) : ~file[i].ok \/ (i = Len(file) /\ ~ended)}

TornInv == Cardinality(Torn) <= tears

IInv ==
    /\ TypeOK
    /\ SyncInv
    /\ DurableInv
    /\ ServesAllAcked
    /\ SeqInv
    /\ AckedSeqsGrow
    /\ LinesInv
    /\ TornInv
=============================================================================
