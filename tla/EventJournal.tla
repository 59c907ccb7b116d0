----------------------------- MODULE EventJournal -----------------------------
(***************************************************************************)
(* org.vibe.event.journal: a file of records, each with the hash of the one *)
(* before it, appended to under the journal's mutex and the writer's fence; *)
(* a replay reads a page of it under the same mutex and verifies the whole  *)
(* file on the way, and so does the start.  The reader is replayAll of the  *)
(* workflow plugin, which asks for pages until one brings nothing new.      *)
(*                                                                          *)
(* A record's hash is modelled by its id: two records differ in their hash, *)
(* and a record that can be read carries its own.  A line is whole, bare    *)
(* (whole but for its newline) or a scrap that cannot be read.              *)
(***************************************************************************)
EXTENDS Naturals, Sequences, SequencesExt

CONSTANTS
  Readers,
  Limit,      \* records in a page
  MaxEvents,  \* bound: records that appends try to write
  MaxFaults,  \* bound: appends that fail
  MaxTears,   \* bound: crashes in the middle of a write
  MaxCrashes  \* bound: crashes in all

ASSUME EventJournalAssumption ==
  /\ Limit \in Nat \ {0}
  /\ {MaxEvents, MaxFaults, MaxTears, MaxCrashes} \subseteq Nat

VARIABLES
  file,      \* events.jsonl
  lastHash,  \* journal.lastHash
  host,      \* whether the plugin is "up", "down", or "refuses" to start
  next,      \* the id of the next record
  acked,     \* the ids of the records that callers were told of, in order
  reader,
  faults, tears, crashes

vars == <<file, lastHash, host, next, acked, reader, faults, tears, crashes>>
counters == <<faults, tears, crashes>>

None == 0

Init ==
  /\ file = <<>>
  /\ lastHash = None
  /\ host = "up"
  /\ next = 1
  /\ acked = <<>>
  /\ reader = [r \in Readers |-> [pc |-> "no", after |-> 0, got |-> <<>>, known |-> 0]]
  /\ faults = 0 /\ tears = 0 /\ crashes = 0

(***************************************************************************)
(* The file.  What is written after a line without a newline makes one line *)
(* with it.                                                                 *)
(***************************************************************************)
Line(kind) == [kind |-> kind, id |-> next, prev |-> lastHash]

Written(kind) ==
  IF file # <<>> /\ Last(file).kind # "whole"
    THEN Append(Front(file), [Last(file) EXCEPT !.kind = "scrap"])
    ELSE Append(file, Line(kind))

ParsesOnly(i) == file[i].kind # "scrap"
Verified(i) ==
  /\ file[i].kind # "scrap"
  /\ file[i].prev = IF i = 1 THEN None ELSE file[i - 1].id

Intact == \A i \in DOMAIN file : Verified(i)

(***************************************************************************)
(* appendHandler.  The hash moves on only when the record is on disk.       *)
(***************************************************************************)
Drawn == host = "up" /\ next <= MaxEvents /\ next' = next + 1

AppendOk ==
  /\ Drawn
  /\ file' = Written("whole")
  /\ lastHash' = next
  /\ acked' = Append(acked, next)
  /\ UNCHANGED <<host, reader, counters>>

Partial == {file, Written("scrap"), Written("bare"), Written("whole")}

AppendFails ==
  /\ Drawn
  /\ faults < MaxFaults /\ faults' = faults + 1
  /\ file' \in Partial
  /\ UNCHANGED <<lastHash, host, acked, reader, tears, crashes>>

(***************************************************************************)
(* replayHandler, and replayAll, which calls it.                            *)
(***************************************************************************)
Smallest(m, n) == IF m < n THEN m ELSE n

StartReplay(r) ==
  /\ reader[r].pc = "no"
  /\ reader' = [reader EXCEPT ![r].pc = "reading", ![r].known = Len(acked)]
  /\ UNCHANGED <<file, lastHash, host, next, acked, counters>>

FromTheLast(after) ==
  SubSeq(file, IF after = 0 THEN 1 ELSE after, Smallest(after + Limit, Len(file)))
Page(after) == SubSeq(file, after + 1, Smallest(after + Limit, Len(file)))

ReadPage(r) ==
  LET old == reader[r]
      out == Page(old.after)
  IN
  /\ old.pc = "reading" /\ host = "up"
  /\ reader' = [reader EXCEPT ![r] =
       IF ~ Intact THEN [old EXCEPT !.pc = "error"]
       ELSE IF out = <<>> THEN [old EXCEPT !.pc = "done"]
       ELSE [old EXCEPT !.after = old.after + Len(out), !.got = old.got \o out]]
  /\ UNCHANGED <<file, lastHash, host, next, acked, counters>>

\* A call to a plugin that is not there fails.
ReadFails(r) ==
  /\ reader[r].pc = "reading" /\ host # "up"
  /\ reader' = [reader EXCEPT ![r].pc = "error"]
  /\ UNCHANGED <<file, lastHash, host, next, acked, counters>>

(***************************************************************************)
(* The plugin dies, perhaps in the middle of an append, and is started      *)
(* again: verifyAndLoadTail panics on the first line it does not accept.    *)
(***************************************************************************)
Crash ==
  /\ host = "up" /\ host' = "down"
  /\ crashes < MaxCrashes /\ crashes' = crashes + 1
  /\ \/ UNCHANGED <<file, next, tears>>
     \/ Drawn /\ file' = Written("whole") /\ UNCHANGED tears
     \/ /\ Drawn /\ file' \in {Written("scrap"), Written("bare")}
        /\ tears < MaxTears /\ tears' = tears + 1
  /\ UNCHANGED <<lastHash, acked, reader, faults>>

Forgotten == None
HashOfLast == IF file = <<>> THEN None ELSE Last(file).id

Restart ==
  /\ host = "down"
  /\ IF Intact
       THEN host' = "up" /\ lastHash' = HashOfLast
       ELSE host' = "refuses" /\ UNCHANGED lastHash
  /\ UNCHANGED <<file, next, acked, reader, counters>>

Next ==
  \/ AppendOk \/ AppendFails
  \/ \E r \in Readers : StartReplay(r) \/ ReadPage(r) \/ ReadFails(r)
  \/ Crash \/ Restart

Spec == Init /\ [][Next]_vars

(***************************************************************************)
(* Properties.                                                              *)
(***************************************************************************)
Lines == [kind : {"whole", "bare", "scrap"}, id : 1 .. MaxEvents, prev : 0 .. MaxEvents]

\* The variables have the values the code can store in them.
TypeOK ==
  /\ file \in Seq(Lines)
  /\ \A i \in 1 .. Len(file) - 1 : file[i].kind # "bare"
  /\ lastHash \in 0 .. MaxEvents /\ next \in 1 .. MaxEvents + 1
  /\ host \in {"up", "down", "refuses"}
  /\ acked \in Seq(1 .. MaxEvents)
  /\ reader \in [Readers -> [pc : {"no", "reading", "done", "error"}, after : 0 .. MaxEvents,
                             got : Seq(Lines), known : 0 .. MaxEvents]]

Ids(records) == [i \in DOMAIN records |-> records[i].id]
Grows(ids) == \A i, j \in DOMAIN ids : i < j => ids[i] < ids[j]
Finished(r) == reader[r].pc = "done"
Reads(r) == reader[r].pc # "error"

\* A reader has every event that was acknowledged before it began, and with an event
\* that was acknowledged all that were acknowledged before it, ahead of it.
HasKnown(r) ==
  \A i \in 1 .. reader[r].known : \E j \in DOMAIN reader[r].got : reader[r].got[j].id = acked[i]
InOrder(r) ==
  \A k \in DOMAIN acked : \A j \in DOMAIN reader[r].got : reader[r].got[j].id = acked[k] =>
    \A i \in 1 .. k - 1 : \E m \in 1 .. j - 1 : reader[r].got[m].id = acked[i]
Once(r) ==
  \A i, j \in DOMAIN reader[r].got : reader[r].got[i].id = reader[r].got[j].id => i = j

\* A replay that comes to its end has brought every event that was acknowledged
\* before it began, once each and in the order of the acknowledgements, whatever was
\* appended, failed or crashed between its pages.
ReplayComplete == \A r \in Readers : Finished(r) => HasKnown(r) /\ InOrder(r) /\ Once(r)

\* What a replay brings is one chain from the first record: a journal that failed
\* writes have broken is reported, never replayed.
ReplayIsChain ==
  \A r \in Readers : Reads(r) =>
    LET got == reader[r].got
    IN \A i \in DOMAIN got : got[i].prev = IF i = 1 THEN None ELSE got[i - 1].id

\* While the file is intact, what a reader has read is its beginning.
ReadIsOnDisk ==
  \A r \in Readers : Reads(r) =>
    LET got == reader[r].got
    IN /\ reader[r].after = Len(got)
       /\ Intact => /\ Len(got) <= Len(file)
                    /\ \A i \in DOMAIN got : got[i].id = file[i].id

\* There are no more lines, and no more acknowledgements, than appends.
Counted == Len(file) < next /\ Len(acked) < next

\* Ids are drawn in growing order, and an event that was acknowledged is in the file
\* while that is intact: so a reader at its end has it.
ReplayInv ==
  /\ Grows(Ids(file)) /\ \A i \in DOMAIN file : file[i].id < next
  /\ Grows(acked) /\ \A i \in DOMAIN acked : acked[i] < next
  /\ Intact => \A i \in DOMAIN acked : \E j \in DOMAIN file : file[j].id = acked[i]
  /\ \A r \in Readers :
       /\ reader[r].known <= Len(acked)
       /\ Reads(r) => /\ Grows(Ids(reader[r].got)) /\ InOrder(r)
                      /\ \A j \in DOMAIN reader[r].got : reader[r].got[j].id < next
       /\ Finished(r) => HasKnown(r)

\* The state invariant: the types, that what is replayed is one chain, and what makes
\* these and the completeness of a replay inductive.
JournalInv == TypeOK /\ ReplayIsChain /\ ReadIsOnDisk /\ Counted
Inv == JournalInv /\ ReplayInv

\* While no append has failed and no write was cut short, the journal is never the
\* reason why the plugin does not start again, and an event that was acknowledged can
\* be replayed whenever the plugin is up.  The storage guidance promises the first
\* after a torn write too; the code does not.
Undamaged == faults = 0 /\ tears = 0
AckedReadable ==
  Undamaged =>
    /\ host # "refuses"
    /\ host = "up" =>
         Intact /\ \A i \in DOMAIN acked : \E j \in DOMAIN file : file[j].id = acked[i]

\* Behind it: such a journal is intact in every state, its lines are whole, and the
\* hash in memory is the one of the last line.
UndamagedInv ==
  /\ faults \in Nat /\ tears \in Nat
  /\ Undamaged =>
       /\ Intact /\ \A i \in DOMAIN file : file[i].kind = "whole"
       /\ \A i \in DOMAIN acked : \E j \in DOMAIN file : file[j].id = acked[i]
       /\ host = "up" => lastHash = HashOfLast
       /\ host # "refuses"
=============================================================================
