------------------------------ MODULE SessionSeal ------------------------------
(***************************************************************************)
(* session.seal over the event journal: the plugin describes the worktree   *)
(* as it is (buildCheckpoint), puts its patch into the blob store, replays   *)
(* the whole journal, selects the events of the session, puts the archive    *)
(* into the blob store and records the session in its log.  Every step is a  *)
(* call of another plugin or of git; events are appended, and plugins die,   *)
(* between any two of them.                                                  *)
(*                                                                          *)
(* A caller may ask for the events by their ids and hashes, which it has     *)
(* from a replay of its own, or by correlation id.  What a checkpoint holds  *)
(* of the world is modelled by how many events were acknowledged when it was *)
(* taken.  The session log is a RecordLog; here it keeps what it has         *)
(* acknowledged.                                                             *)
(***************************************************************************)
EXTENDS EventJournal

CONSTANTS
  Caller, Session,  \* the two readers of the journal
  Ours,             \* the events with the correlation id of the session
  MaxSeals          \* bound: requests to seal

ASSUME SessionSealAssumption ==
  /\ Readers = {Caller, Session} /\ Caller # Session
  /\ Ours \subseteq Nat /\ MaxSeals \in Nat

VARIABLES
  seal,     \* the request being served: sealOnce
  asked,    \* how many requests there were
  blobs,    \* the blobs that are whole in the store
  records   \* the session records that were acknowledged

sealing == <<seal, asked, blobs, records>>
journal == <<file, lastHash, host, next, acked, counters>>
sealVars == <<vars, sealing>>

\* What sealOnce and sealHandler do, in this order.
ReplayFirst == <<"replay", "checkpoint", "patch", "archive", "record">>
Steps == <<"checkpoint", "patch", "replay", "archive", "record">>
After(pc) == Steps[1 + CHOOSE i \in DOMAIN Steps : Steps[i] = pc]

\* ids and covers: what is asked for; taken: the events known at the checkpoint.
Request(ids, covers) ==
  [pc |-> Steps[1], ids |-> ids, covers |-> covers, taken |-> 0, selected |-> <<>>]

SealInit ==
  /\ Init
  /\ seal = [Request(<<>>, 0) EXCEPT !.pc = "idle"]
  /\ asked = 0 /\ blobs = {} /\ records = {}

Goto(pc) == seal' = [seal EXCEPT !.pc = pc]
Unread == [pc |-> "no", after |-> 0, got |-> <<>>, known |-> 0]

\* The events of the session, one by one.
Chosen(was, e) == IF e \in Ours THEN Append(was, e) ELSE was
SelectOurs(es) ==
  LET ours[n \in 0 .. Len(es)] == IF n = 0 THEN <<>> ELSE Chosen(ours[n - 1], es[n])
  IN ours[Len(es)]

AskSeal ==
  /\ seal.pc \in {"idle", "sealed", "failed", "missing"} /\ asked < MaxSeals
  /\ asked' = asked + 1
  /\ \/ seal' = Request(<<>>, 0)
     \/ /\ reader[Caller].pc = "done"
        /\ seal' = Request(SelectOurs(Ids(reader[Caller].got)), reader[Caller].known)
  /\ reader' = [reader EXCEPT ![Session] = Unread]
  /\ UNCHANGED <<journal, blobs, records>>

\* buildCheckpoint; git may fail, and ends the request.
Checkpoint ==
  /\ seal.pc = "checkpoint"
  /\ \/ seal' = [seal EXCEPT !.pc = After("checkpoint"), !.taken = Len(acked)]
     \/ Goto("failed")
  /\ UNCHANGED <<vars, asked, blobs, records>>

\* blob.put: written under another name, synced, renamed.  It may have happened
\* though the caller learns of an error.
PutBlob(pc) ==
  /\ seal.pc = pc
  /\ \/ blobs' = blobs \cup {<<asked, pc>>} /\ Goto(After(pc))
     \/ blobs' \in {blobs, blobs \cup {<<asked, pc>>}} /\ Goto("failed")
  /\ UNCHANGED <<vars, asked, records>>

BeginReplay ==
  /\ seal.pc = "replay"
  /\ StartReplay(Session)
  /\ UNCHANGED sealing

\* By ids: each must be there with its hash.  By correlation: whatever carries it.
Select ==
  LET es == Ids(reader[Session].got) IN
  /\ seal.pc = "replay" /\ reader[Session].pc = "done"
  /\ IF seal.ids = <<>>
       THEN seal' = [seal EXCEPT !.pc = After("replay"), !.selected = SelectOurs(es)]
       ELSE IF \A i \in DOMAIN seal.ids : \E j \in DOMAIN es : es[j] = seal.ids[i]
         THEN seal' = [seal EXCEPT !.pc = After("replay"), !.selected = seal.ids]
         ELSE Goto("missing")
  /\ UNCHANGED <<vars, asked, blobs, records>>

ReplayFails ==
  /\ seal.pc = "replay" /\ reader[Session].pc = "error"
  /\ Goto("failed")
  /\ UNCHANGED <<vars, asked, blobs, records>>

\* Store.Record under the fence.
Record ==
  /\ seal.pc = "record"
  /\ \/ records' = records \cup {[seal EXCEPT !.pc = asked]} /\ Goto("sealed")
     \/ Goto("failed") /\ UNCHANGED records
  /\ UNCHANGED <<vars, asked, blobs>>

\* The session plugin dies: the request is lost, and what it has put stays.
PluginDies ==
  /\ seal.pc \in Range(Steps)
  /\ Goto("failed")
  /\ UNCHANGED <<vars, asked, blobs, records>>

Journal ==
  /\ \/ AppendOk \/ AppendFails \/ Crash \/ Restart
     \/ StartReplay(Caller)
     \/ \E r \in Readers : ReadPage(r) \/ ReadFails(r)
  /\ UNCHANGED sealing

Seal ==
  \/ AskSeal \/ Checkpoint \/ BeginReplay \/ Select \/ ReplayFails \/ Record \/ PluginDies
  \/ \E pc \in {"patch", "archive"} : PutBlob(pc)

SealNext == Journal \/ Seal

SealSpec == SealInit /\ [][SealNext]_sealVars

(***************************************************************************)
(* Properties.                                                              *)
(***************************************************************************)
Told(k) == {acked[i] : i \in {i \in DOMAIN acked : i <= k}}

\* These are events of the session, in the order of the journal, with all of its own
\* among the first k that were acknowledged.
Covers(es, k) ==
  /\ Told(k) \cap Ours \subseteq Range(es)
  /\ Range(es) \subseteq Ours
  /\ Grows(es)
Promised(r) == Covers(r.selected, IF r.ids = <<>> THEN r.taken ELSE r.covers)

\* A session that is sealed can be trusted: its archive holds every event of its own
\* that was acknowledged when the worktree was described (when the caller began to
\* read the journal, if it names the events), once each and in the order of the
\* journal, so that the checkpoint shows no reported work the archive does not tell
\* of; and both of its blobs are there.
SealCovers ==
  \A r \in records :
    Promised(r) /\ {<<r.pc, "patch">>, <<r.pc, "archive">>} \subseteq blobs

\* Events that one replay has brought no later replay is without: a seal that names
\* them is never refused for one that is missing.
NothingVanishes == seal.pc # "missing"

\* The ids a request was given are of one replay that has all it is to cover, and no
\* later replay is without them.
IdsInv ==
  /\ seal.covers <= Len(acked)
  /\ seal.ids # <<>> => Covers(seal.ids, seal.covers)
  /\ Intact => Range(seal.ids) \subseteq Range(Ids(file))
  /\ Finished(Session) => Range(seal.ids) \subseteq Range(Ids(reader[Session].got))

\* What a request has by the step it is at: a replay that began after the checkpoint,
\* the events it selected, its blobs.
StepInv ==
  /\ seal.taken <= Len(acked)
  /\ seal.pc \in {"checkpoint", "patch"} => reader[Session].pc = "no"
  /\ seal.pc = "replay" => reader[Session].pc = "no" \/ seal.taken <= reader[Session].known
  /\ seal.pc \in {"replay", "archive", "record"} => <<asked, "patch">> \in blobs
  /\ seal.pc \in {"archive", "record"} => Promised(seal)
  /\ seal.pc = "record" => <<asked, "archive">> \in blobs

RecordsInv == \A r \in records : r.taken \in 0 .. Len(acked) /\ r.covers \in 0 .. Len(acked)

SealTypes ==
  /\ seal \in [pc : Range(Steps) \cup {"idle", "sealed", "failed", "missing"},
               ids : Seq(Nat), covers : Nat, taken : Nat, selected : Seq(Nat)]
  /\ asked \in 0 .. MaxSeals

\* The types of the seal, its two promises, and what makes them inductive.
SealHolds ==
  SealTypes /\ SealCovers /\ NothingVanishes /\ IdsInv /\ StepInv /\ RecordsInv
=============================================================================
