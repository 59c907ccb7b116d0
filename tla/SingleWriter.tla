---------------------------- MODULE SingleWriter ----------------------------
(***************************************************************************)
(* What a stateful authority promises, with no mention of how: one writer  *)
(* at a time, every grant of the writer role opens a new epoch, and every  *)
(* record of the authority is written by the writer of the current epoch.  *)
(* WriterFence implements it.                                              *)
(***************************************************************************)
EXTENDS Integers, Sequences

CONSTANTS Runtime,  \* runtime ids, one per plugin process ever started
          NoOne     \* no runtime holds the writer role

VARIABLES owner,   \* the runtime granted the writer role
          epoch,   \* the number of grants so far
          log      \* the records committed for the authority, oldest first

vars == <<owner, epoch, log>>

Entry == [runtime : Runtime, epoch : Nat]

Init ==
    /\ owner = NoOne
    /\ epoch = 0
    /\ log = <<>>

Grant(r) ==
    /\ owner' = r
    /\ epoch' = epoch + 1
    /\ UNCHANGED log

Commit ==
    /\ owner # NoOne
    /\ log' = Append(log, [runtime |-> owner, epoch |-> epoch])
    /\ UNCHANGED <<owner, epoch>>

Next == Commit \/ \E r \in Runtime : Grant(r)

Spec == Init /\ [][Next]_vars

-----------------------------------------------------------------------------
TypeOK ==
    /\ owner \in Runtime \cup {NoOne}
    /\ epoch \in Nat
    /\ log \in Seq(Entry)

\* Records appear in the order of their epochs, and the records of one epoch
\* have one author: a writer that lost the role never writes again.
SerialEpochs ==
    \A i, j \in 1..Len(log) : i < j =>
        /\ log[i].epoch <= log[j].epoch
        /\ log[i].epoch = log[j].epoch => log[i].runtime = log[j].runtime

\* Inductive: no record is ahead of the current epoch, and the records of the
\* current epoch are the owner's.
SerialInv ==
    /\ TypeOK
    /\ \A i \in 1..Len(log) :
         /\ log[i].epoch <= epoch
         /\ log[i].epoch = epoch => log[i].runtime = owner
    /\ SerialEpochs
=============================================================================
