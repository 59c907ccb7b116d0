-------------------------- MODULE EventJournalProofs --------------------------
(***************************************************************************)
(* For any number of readers, events, failures and crashes and every length *)
(* of a page: what is acknowledged is on disk and readable, a replay that   *)
(* finishes is the whole journal in order, and both remain so while         *)
(* sessions are sealed; and what the seal of a session says is true.        *)
(***************************************************************************)
EXTENDS SessionSeal, SequenceTheorems, WellFoundedInduction, TLAPS

\* A part of a sequence.
LEMMA Sub ==
  ASSUME NEW T, NEW s \in Seq(T), NEW a \in Nat \ {0}, NEW b \in 0 .. Len(s)
  PROVE  /\ SubSeq(s, a, b) \in Seq(T)
         /\ Len(SubSeq(s, a, b)) = IF a <= b THEN b - a + 1 ELSE 0
         /\ \A i \in 1 .. b - a + 1 : SubSeq(s, a, b)[i] = s[a + i - 1]
<1>1. \A i \in a .. b : s[i] \in T OBVIOUS
<1>2. a \in Int /\ b \in Int OBVIOUS
<1>. QED BY <1>1, <1>2, SubSeqProperties

\* What a write makes of the file: it spoils an unfinished last line, or adds a line.
LEMMA WrittenFacts ==
  ASSUME file \in Seq(Lines), next \in 1 .. MaxEvents, lastHash \in 0 .. MaxEvents, MaxEvents \in Nat,
         \A i \in 1 .. Len(file) - 1 : file[i].kind # "bare",
         NEW kind \in {"whole", "bare", "scrap"}
  PROVE  /\ Written(kind) \in Seq(Lines)
         /\ \A i \in 1 .. Len(Written(kind)) - 1 : Written(kind)[i].kind # "bare"
         /\ \/ /\ Len(Written(kind)) = Len(file) /\ Len(file) > 0
               /\ Written(kind)[Len(file)].kind = "scrap"
               /\ file[Len(file)].kind # "whole"
               /\ \A i \in 1 .. Len(file) : Written(kind)[i].id = file[i].id
            \/ /\ Written(kind) = Append(file, Line(kind)) /\ Line(kind) \in Lines
               /\ Len(file) > 0 => file[Len(file)].kind = "whole"
<1> DEFINE n == Len(file)
<1>1. n \in Nat OBVIOUS
<1>2. Line(kind) \in Lines BY DEF Line, Lines
<1>3. CASE file # <<>> /\ Last(file).kind # "whole"
  <2> DEFINE l == [file[n] EXCEPT !.kind = "scrap"]
             front == SubSeq(file, 1, n - 1)
  <2>1. n > 0 /\ file[n] \in Lines BY <1>3
  <2>2. l \in Lines /\ l.kind = "scrap" /\ l.id = file[n].id BY <2>1 DEF Lines
  <2>3. front \in Seq(Lines) /\ Len(front) = n - 1 /\ \A i \in 1 .. n - 1 : front[i] = file[i]
    <3>1. n - 1 \in 0 .. Len(file) /\ n \in Nat BY <2>1
    <3> HIDE DEF n
    <3>2. /\ SubSeq(file, 1, n - 1) \in Seq(Lines)
          /\ Len(SubSeq(file, 1, n - 1)) = n - 1
          /\ \A i \in 1 .. n - 1 : SubSeq(file, 1, n - 1)[i] = file[i]
      BY <3>1, Sub
    <3>. QED BY <3>2
  <2>4. Written(kind) = Append(front, l) BY <1>3 DEF Written, Last, Front
  <2> HIDE DEF l, front
  <2>5. /\ Append(front, l) \in Seq(Lines) /\ Len(Append(front, l)) = n
        /\ Append(front, l)[n] = l
        /\ \A i \in 1 .. n - 1 : Append(front, l)[i] = file[i]
        /\ \A i \in 1 .. n : Append(front, l)[i].id = file[i].id
    BY <2>1, <2>2, <2>3
  <2>. QED BY <1>3, <2>1, <2>2, <2>4, <2>5 DEF Last
<1>4. CASE ~ (file # <<>> /\ Last(file).kind # "whole")
  <2>1. Written(kind) = Append(file, Line(kind)) BY <1>4 DEF Written
  <2>2. n > 0 => file[n].kind = "whole" BY <1>4 DEF Last
  <2> DEFINE g == Append(file, Line(kind))
  <2>3. /\ g \in Seq(Lines) /\ Len(g) = n + 1
        /\ \A i \in 1 .. n : g[i] = file[i]
    BY <1>2
  <2>4. \A i \in 1 .. n : g[i].kind # "bare" BY <2>2, <2>3
  <2>. QED BY <1>2, <2>1, <2>2, <2>3, <2>4
<1>. QED BY <1>3, <1>4

\* The kinds of a line, and a step that writes at most once.
Kinds == {"whole", "bare", "scrap"}
FileTypes == file \in Seq(Lines) /\ \A i \in 1 .. Len(file) - 1 : file[i].kind # "bare"
WrittenOnce == Drawn /\ (file' = file \/ \E k \in Kinds : file' = Written(k))

\* A write keeps the lines of a file that is still intact after it.
LEMMA WriteFacts ==
  ASSUME EventJournalAssumption, TypeOK, WrittenOnce
  PROVE  /\ FileTypes' /\ Len(file') <= Len(file) + 1
         /\ next \in 1 .. MaxEvents /\ next' = next + 1
         /\ Intact' => /\ Intact /\ Len(file) <= Len(file')
                       /\ \A i \in 1 .. Len(file) : file'[i] = file[i]
<1>1. /\ file \in Seq(Lines) /\ \A i \in 1 .. Len(file) - 1 : file[i].kind # "bare"
      /\ next \in 1 .. MaxEvents /\ next' = next + 1
      /\ lastHash \in 0 .. MaxEvents /\ MaxEvents \in Nat
  BY DEF WrittenOnce, Drawn, TypeOK, EventJournalAssumption
<1>2. CASE file' = file
  <2>1. Intact' <=> Intact BY <1>2 DEF Intact, Verified
  <2>. QED BY <1>1, <1>2, <2>1 DEF FileTypes
<1>3. ASSUME NEW k \in Kinds, file' = Written(k)
      PROVE  /\ FileTypes' /\ Len(file') <= Len(file) + 1
             /\ Intact' => /\ Intact /\ Len(file) <= Len(file')
                           /\ \A i \in 1 .. Len(file) : file'[i] = file[i]
  <2>1. FileTypes'
    BY <1>1, <1>3, WrittenFacts DEF FileTypes, Kinds
  <2>2. CASE Len(file') = Len(file) /\ Len(file) > 0 /\ file'[Len(file)].kind = "scrap"
    <3>1. ~ Intact'
      <4>1. Len(file') \in DOMAIN file' BY <2>1, <2>2, <1>1 DEF FileTypes
      <4>. QED BY <4>1, <2>2 DEF Intact, Verified
    <3>. QED BY <1>1, <2>1, <2>2, <3>1
  <2>3. CASE file' = Append(file, Line(k)) /\ Line(k) \in Lines
    <3>1. /\ Len(file') = Len(file) + 1 /\ Len(file) \in Nat
          /\ \A i \in 1 .. Len(file) : file'[i] = file[i]
          /\ DOMAIN file = 1 .. Len(file) /\ DOMAIN file' = 1 .. Len(file) + 1
      BY <1>1, <2>3
    <3>2. ASSUME Intact' PROVE Intact
      <4>1. ASSUME NEW i \in DOMAIN file PROVE Verified(i)
        <5>1. Verified(i)' BY <3>1, <3>2, <4>1 DEF Intact
        <5>2. file'[i] = file[i] /\ (i # 1 => file'[i - 1] = file[i - 1]) BY <3>1, <4>1
        <5>. QED BY <5>1, <5>2 DEF Verified
      <4>. QED BY <4>1 DEF Intact
    <3>. QED BY <2>1, <3>1, <3>2
  <2>. QED BY <1>1, <1>3, <2>2, <2>3, WrittenFacts DEF Kinds
<1>. QED BY <1>1, <1>2, <1>3 DEF WrittenOnce

\* So readers, who do nothing meanwhile, keep what they know.
LEMMA WriteKeeps ==
  ASSUME EventJournalAssumption, JournalInv, WrittenOnce, UNCHANGED reader, Len(acked') <= Len(acked) + 1
  PROVE  ReplayIsChain' /\ ReadIsOnDisk' /\ Counted'
<1>1. /\ Len(file') <= Len(file) + 1 /\ next' = next + 1 /\ next \in Nat
      /\ Intact' => /\ Intact /\ Len(file) <= Len(file')
                    /\ \A i \in 1 .. Len(file) : file'[i] = file[i]
      /\ file' \in Seq(Lines) /\ file \in Seq(Lines)
  BY WriteFacts DEF JournalInv, FileTypes, TypeOK
<1>2. ReplayIsChain' BY DEF JournalInv, ReplayIsChain, Reads
<1>3. Counted'
  <2>1. Len(acked) \in Nat /\ Len(file) \in Nat BY <1>1 DEF JournalInv, TypeOK
  <2>. QED BY <1>1, <2>1 DEF JournalInv, Counted
<1>4. ReadIsOnDisk'
  <2> SUFFICES ASSUME NEW r \in Readers, Reads(r)
               PROVE  /\ reader[r].after = Len(reader[r].got)
                      /\ Intact' => /\ Len(reader[r].got) <= Len(file')
                                    /\ \A i \in DOMAIN reader[r].got : reader[r].got[i].id = file'[i].id
    BY DEF ReadIsOnDisk, Reads
  <2>1. reader[r].got \in Seq(Lines) BY DEF JournalInv, TypeOK
  <2>2. /\ reader[r].after = Len(reader[r].got)
        /\ Intact => /\ Len(reader[r].got) <= Len(file)
                     /\ \A i \in DOMAIN reader[r].got : reader[r].got[i].id = file[i].id
    BY DEF JournalInv, ReadIsOnDisk
  <2>3. ASSUME Intact', NEW i \in DOMAIN reader[r].got PROVE reader[r].got[i].id = file'[i].id
    <3>1. i \in 1 .. Len(file)
      <4>1. i \in 1 .. Len(reader[r].got) /\ Len(reader[r].got) \in Nat BY <2>1, <2>3
      <4>2. Len(reader[r].got) <= Len(file) /\ Len(file) \in Nat BY <1>1, <2>2, <2>3
      <4>. QED BY <4>1, <4>2
    <3>. QED BY <1>1, <2>2, <2>3, <3>1
  <2>4. Intact' => Len(reader[r].got) <= Len(file')
    BY <1>1, <2>1, <2>2
  <2>. QED BY <2>2, <2>3, <2>4
<1>. QED BY <1>2, <1>3, <1>4

ReaderRecord == [pc : {"no", "reading", "done", "error"}, after : 0 .. MaxEvents,
                 got : Seq(Lines), known : 0 .. MaxEvents]

\* The journal begins empty.
LEMMA Initially == ASSUME EventJournalAssumption, Init PROVE JournalInv /\ UndamagedInv
<1>1. Intact BY DEF Init, Intact, Verified
<1>2. TypeOK
  <2>1. /\ file = <<>> /\ acked = <<>> /\ lastHash = 0 /\ next = 1 /\ host = "up"
        /\ reader = [r \in Readers |-> [pc |-> "no", after |-> 0, got |-> <<>>, known |-> 0]]
    BY DEF Init, None
  <2>2. MaxEvents \in Nat BY DEF EventJournalAssumption
  <2>3. \A T : <<>> \in Seq(T) OBVIOUS
  <2>4. reader \in [Readers -> [pc : {"no", "reading", "done", "error"}, after : 0 .. MaxEvents,
                               got : Seq(Lines), known : 0 .. MaxEvents]]
    BY <2>1, <2>2, <2>3
  <2>5. file \in Seq(Lines) /\ acked \in Seq(1 .. MaxEvents) BY <2>1, <2>3
  <2>. QED BY <2>1, <2>2, <2>4, <2>5 DEF TypeOK
<1>3. ReplayIsChain /\ ReadIsOnDisk /\ Counted
  BY DEF Init, ReplayIsChain, ReadIsOnDisk, Counted, Reads
<1>4. UndamagedInv BY <1>1 DEF Init, UndamagedInv, HashOfLast
<1>. QED BY <1>2, <1>3, <1>4 DEF JournalInv

\* appendHandler and a death in the middle of it (main.go).
LEMMA AppendKeeps ==
  ASSUME EventJournalAssumption, JournalInv, AppendOk \/ AppendFails \/ (Crash /\ Drawn)
  PROVE  JournalInv'
<1>1. WrittenOnce /\ UNCHANGED reader /\ Len(acked') <= Len(acked) + 1
  <2>1. acked \in Seq(1 .. MaxEvents) BY DEF JournalInv, TypeOK
  <2>2. CASE AppendOk BY <2>1, <2>2 DEF AppendOk, WrittenOnce, Kinds
  <2>3. CASE AppendFails BY <2>1, <2>3 DEF AppendFails, Partial, WrittenOnce, Kinds
  <2>4. CASE Crash /\ Drawn BY <2>1, <2>4 DEF Crash, WrittenOnce, Kinds, Drawn
  <2>. QED BY <2>2, <2>3, <2>4
<1>2. ReplayIsChain' /\ ReadIsOnDisk' /\ Counted' BY <1>1, WriteKeeps
<1>3. TypeOK'
  <2>1. FileTypes' /\ next \in 1 .. MaxEvents /\ next' = next + 1 BY <1>1, WriteFacts DEF JournalInv
  <2>2. next' \in 1 .. MaxEvents + 1 /\ reader' = reader
    BY <2>1, <1>1 DEF EventJournalAssumption
  <2>3. /\ acked' \in Seq(1 .. MaxEvents) /\ lastHash' \in 0 .. MaxEvents
        /\ host' \in {"up", "down", "refuses"}
    <3>1. /\ acked \in Seq(1 .. MaxEvents) /\ lastHash \in 0 .. MaxEvents
          /\ next \in 0 .. MaxEvents /\ host = "up"
      BY <2>1, <1>1 DEF JournalInv, TypeOK, WrittenOnce, Drawn
    <3>2. CASE AppendOk
      <4>1. Append(acked, next) \in Seq(1 .. MaxEvents) BY <2>1, <3>1
      <4>. QED BY <3>1, <3>2, <4>1 DEF AppendOk
    <3>3. CASE AppendFails BY <3>1, <3>3 DEF AppendFails
    <3>4. CASE Crash BY <3>1, <3>4 DEF Crash
    <3>. QED BY <3>2, <3>3, <3>4
  <2>. QED BY <2>1, <2>2, <2>3 DEF JournalInv, TypeOK, FileTypes
<1>. QED BY <1>2, <1>3 DEF JournalInv

\* A death between two requests, and a start.
LEMMA RestartKeeps ==
  ASSUME EventJournalAssumption, JournalInv, Restart \/ (Crash /\ UNCHANGED <<file, next>>)
  PROVE  JournalInv'
<1>1. UNCHANGED <<file, next, acked, reader>> BY DEF Restart, Crash
<1>2. Intact' <=> Intact BY <1>1 DEF Intact, Verified
<1>3. ReplayIsChain' /\ ReadIsOnDisk' /\ Counted'
  BY <1>1, <1>2 DEF JournalInv, ReplayIsChain, ReadIsOnDisk, Counted, Reads
<1>4. HashOfLast \in 0 .. MaxEvents
  <2>1. CASE file = <<>> BY <2>1 DEF HashOfLast, None, EventJournalAssumption
  <2>2. CASE file # <<>>
    <3>1. file[Len(file)] \in Lines BY <2>2 DEF JournalInv, TypeOK
    <3>. QED BY <2>2, <3>1 DEF HashOfLast, Last, Lines
  <2>. QED BY <2>1, <2>2
<1>5. lastHash' \in 0 .. MaxEvents /\ host' \in {"up", "down", "refuses"}
  BY <1>4 DEF Restart, Crash, JournalInv, TypeOK
<1>. QED BY <1>1, <1>3, <1>5 DEF JournalInv, TypeOK

\* A reader that begins, fails or is told to begin again knows nothing.
LEMMA ReaderKeeps ==
  ASSUME EventJournalAssumption, JournalInv, UNCHANGED <<file, next, acked, lastHash, host>>,
         NEW r \in Readers, NEW v \in ReaderRecord, reader' = [reader EXCEPT ![r] = v],
         v.pc # "error" =>
           /\ \A i \in DOMAIN v.got : v.got[i].prev = IF i = 1 THEN None ELSE v.got[i - 1].id
           /\ v.after = Len(v.got)
           /\ Intact => /\ Len(v.got) <= Len(file)
                        /\ \A i \in DOMAIN v.got : v.got[i].id = file[i].id
  PROVE  JournalInv'
<1>1. reader \in [Readers -> ReaderRecord] BY DEF JournalInv, TypeOK, ReaderRecord
<1>2. /\ reader' \in [Readers -> ReaderRecord] /\ reader'[r] = v
      /\ \A q \in Readers : q # r => reader'[q] = reader[q]
  BY <1>1
<1>3. Intact' <=> Intact BY DEF Intact, Verified
<1>4. ReplayIsChain'
  BY <1>2 DEF JournalInv, ReplayIsChain, Reads
<1>5. ReadIsOnDisk'
  BY <1>2, <1>3 DEF JournalInv, ReadIsOnDisk, Reads
<1>. QED BY <1>2, <1>4, <1>5 DEF JournalInv, TypeOK, ReaderRecord, Counted

\* A page read from an intact file continues what was read before.
LEMMA ReadPageKeeps ==
  ASSUME EventJournalAssumption, JournalInv, NEW r \in Readers, ReadPage(r)
  PROVE  JournalInv'
<1> DEFINE after == reader[r].after
           got == reader[r].got
           out == Page(after)
           v == IF ~ Intact THEN [reader[r] EXCEPT !.pc = "error"]
                ELSE IF out = <<>> THEN [reader[r] EXCEPT !.pc = "done"]
                ELSE [reader[r] EXCEPT !.after = after + Len(out), !.got = got \o out]
<1>1. /\ reader[r].pc = "reading" /\ reader' = [reader EXCEPT ![r] = v]
      /\ UNCHANGED <<file, next, acked, lastHash, host>>
  <2>1. reader[r].pc = "reading" /\ UNCHANGED <<file, next, acked, lastHash, host>>
    BY DEF ReadPage
  <2>2. reader' = [reader EXCEPT ![r] =
          IF ~ Intact THEN [reader[r] EXCEPT !.pc = "error"]
          ELSE IF out = <<>> THEN [reader[r] EXCEPT !.pc = "done"]
          ELSE [reader[r] EXCEPT !.after = after + Len(out), !.got = reader[r].got \o out]]
    BY DEF ReadPage
  <2>. QED BY <2>1, <2>2
<1>2. /\ reader[r] \in ReaderRecord /\ file \in Seq(Lines) /\ got \in Seq(Lines)
      /\ MaxEvents \in Nat /\ Len(file) \in 0 .. MaxEvents
  BY DEF JournalInv, TypeOK, Counted, ReaderRecord, EventJournalAssumption
<1>3. /\ after = Len(got)
      /\ \A i \in DOMAIN got : got[i].prev = IF i = 1 THEN None ELSE got[i - 1].id
      /\ Intact => /\ Len(got) <= Len(file)
                   /\ \A i \in DOMAIN got : got[i].id = file[i].id
  BY <1>1 DEF JournalInv, ReplayIsChain, ReadIsOnDisk, Reads
<1>4. CASE ~ Intact
  <2>1. v \in ReaderRecord /\ v.pc = "error" BY <1>2, <1>4 DEF ReaderRecord
  <2> HIDE DEF v
  <2>. QED BY <1>1, <2>1, ReaderKeeps
<1>5. CASE Intact /\ out = <<>>
  <2>1. v \in ReaderRecord /\ v.after = after /\ v.got = got BY <1>2, <1>5 DEF ReaderRecord
  <2> HIDE DEF v
  <2>2. \A i \in DOMAIN v.got : v.got[i].prev = IF i = 1 THEN None ELSE v.got[i - 1].id
    BY <1>3, <2>1
  <2>3. /\ v.after = Len(v.got) /\ Len(v.got) <= Len(file)
        /\ \A i \in DOMAIN v.got : v.got[i].id = file[i].id
    BY <1>3, <1>5, <2>1
  <2>. QED BY <1>1, <2>1, <2>2, <2>3, ReaderKeeps
<1>6. CASE Intact /\ out # <<>>
  <2> DEFINE b == Smallest(after + Limit, Len(file))
             more == got \o out
  <2>1. after \in Nat /\ Limit \in Nat \ {0} /\ b \in 0 .. Len(file) /\ after <= b
    BY <1>2, <1>3, <1>6 DEF Smallest, EventJournalAssumption
  <2>2. /\ out \in Seq(Lines)
        /\ Len(out) = IF after + 1 <= b THEN b - (after + 1) + 1 ELSE 0
        /\ \A i \in 1 .. b - (after + 1) + 1 : out[i] = file[after + 1 + i - 1]
    <3>1. after + 1 \in Nat \ {0} BY <2>1
    <3>2. out = SubSeq(file, after + 1, b) BY DEF Page
    <3> HIDE DEF after, b, out
    <3>. QED BY <1>2, <2>1, <3>1, <3>2, Sub
  <2>3. Len(out) = b - after BY <2>1, <2>2
  <2> HIDE DEF out, b
  <2>4. /\ more \in Seq(Lines) /\ Len(more) = b /\ DOMAIN more = 1 .. b
        /\ \A i \in 1 .. b : more[i] = IF i <= after THEN got[i] ELSE out[i - after]
    BY <1>2, <1>3, <2>1, <2>2, <2>3
  <2>5. \A i \in 1 .. b : more[i] = IF i <= after THEN got[i] ELSE file[i]
    <3> SUFFICES ASSUME NEW i \in 1 .. b, ~ (i <= after) PROVE out[i - after] = file[i]
      BY <2>4
    <3>1. i - after \in 1 .. b - (after + 1) + 1 /\ after + 1 + (i - after) - 1 = i
      <4>1. i \in Nat /\ after \in Nat /\ b \in Nat /\ i <= b /\ after < i BY <1>2, <2>1
      <4> HIDE DEF after
      <4>. QED BY <4>1
    <3>. QED BY <2>2, <3>1
  <2> HIDE DEF more
  <2>6. \A i \in 1 .. b : more[i].id = file[i].id
    BY <1>2, <1>3, <1>6, <2>1, <2>5
  <2>7. ASSUME NEW i \in 1 .. b PROVE more[i].prev = IF i = 1 THEN None ELSE more[i - 1].id
    <3>1. CASE i <= after
      <4>1. i \in DOMAIN got /\ (i # 1 => i - 1 \in 1 .. b /\ i - 1 <= after)
        BY <1>2, <1>3, <2>1, <3>1
      <4>. QED BY <1>3, <2>5, <3>1, <4>1
    <3>2. CASE ~ (i <= after)
      <4>1. i \in DOMAIN file /\ (i # 1 => i - 1 \in 1 .. b) BY <1>2, <2>1
      <4>2. file[i].prev = IF i = 1 THEN None ELSE file[i - 1].id
        BY <1>6, <4>1 DEF Intact, Verified
      <4>. QED BY <2>5, <2>6, <3>2, <4>1, <4>2
    <3>. QED BY <3>1, <3>2
  <2>8. b \in 0 .. MaxEvents /\ after + Len(out) = b BY <1>2, <2>1, <2>3
  <2>9. v \in ReaderRecord /\ v.after = b /\ v.got = more
    BY <1>2, <1>6, <2>4, <2>8 DEF ReaderRecord, more
  <2> HIDE DEF v
  <2>10. \A i \in DOMAIN v.got : v.got[i].prev = IF i = 1 THEN None ELSE v.got[i - 1].id
    BY <2>4, <2>7, <2>9
  <2>11. /\ v.after = Len(v.got) /\ Len(v.got) <= Len(file)
         /\ \A i \in DOMAIN v.got : v.got[i].id = file[i].id
    BY <2>1, <2>4, <2>6, <2>9
  <2>. QED BY <1>1, <2>9, <2>10, <2>11, ReaderKeeps
<1>. QED BY <1>4, <1>5, <1>6

\* A step of the journal or of a reader, whatever else happens.
LEMMA StepKeepsJournal == ASSUME EventJournalAssumption, JournalInv, [Next]_vars PROVE JournalInv'
<1>1. ASSUME NEW r \in Readers, StartReplay(r) PROVE JournalInv'
  <2> DEFINE v == [reader[r] EXCEPT !.pc = "reading", !.known = Len(acked)]
  <2>1. reader[r] \in ReaderRecord /\ reader[r].pc = "no" /\ Len(acked) \in 0 .. MaxEvents
    BY <1>1 DEF StartReplay, JournalInv, TypeOK, ReaderRecord, Counted, EventJournalAssumption
  <2>2. v \in ReaderRecord /\ v.after = reader[r].after /\ v.got = reader[r].got
    BY <2>1 DEF ReaderRecord
  <2>3. /\ reader' = [reader EXCEPT ![r] = v]
        /\ UNCHANGED <<file, next, acked, lastHash, host>>
    BY <1>1, <2>1 DEF StartReplay, JournalInv, TypeOK
  <2> HIDE DEF v
  <2>4. \A i \in DOMAIN v.got : v.got[i].prev = IF i = 1 THEN None ELSE v.got[i - 1].id
    BY <2>1, <2>2 DEF JournalInv, ReplayIsChain, Reads
  <2>5. /\ v.after = Len(v.got)
        /\ Intact => /\ Len(v.got) <= Len(file)
                     /\ \A i \in DOMAIN v.got : v.got[i].id = file[i].id
    BY <2>1, <2>2 DEF JournalInv, ReadIsOnDisk, Reads
  <2>. QED BY <2>2, <2>3, <2>4, <2>5, ReaderKeeps
<1>2. ASSUME NEW r \in Readers, ReadFails(r) PROVE JournalInv'
  <2> DEFINE v == [reader[r] EXCEPT !.pc = "error"]
  <2>1. v \in ReaderRecord /\ v.pc = "error" BY DEF JournalInv, TypeOK, ReaderRecord
  <2>2. /\ reader' = [reader EXCEPT ![r] = v]
        /\ UNCHANGED <<file, next, acked, lastHash, host>>
    BY <1>2 DEF ReadFails, JournalInv, TypeOK
  <2> HIDE DEF v
  <2>. QED BY <2>1, <2>2, ReaderKeeps
<1>3. ASSUME UNCHANGED vars PROVE JournalInv'
  <2>1. Intact' <=> Intact BY <1>3 DEF Intact, Verified, vars
  <2>. QED BY <1>3, <2>1
         DEF JournalInv, TypeOK, ReplayIsChain, ReadIsOnDisk, Counted, Reads, vars
<1>4. Crash => JournalInv'
  BY AppendKeeps, RestartKeeps DEF Crash
<1>. QED BY <1>1, <1>2, <1>3, <1>4, AppendKeeps, RestartKeeps, ReadPageKeeps DEF Next

-----------------------------------------------------------------------------
\* What a reader knows, of all that ReplayInv says; and what it says of the file.
ReaderInv(r) ==
  /\ reader[r].known <= Len(acked)
  /\ Reads(r) => /\ Grows(Ids(reader[r].got)) /\ InOrder(r)
                 /\ \A j \in DOMAIN reader[r].got : reader[r].got[j].id < next
  /\ Finished(r) => HasKnown(r)
FileInv ==
  /\ Grows(Ids(file)) /\ \A i \in DOMAIN file : file[i].id < next
  /\ Grows(acked) /\ \A i \in DOMAIN acked : acked[i] < next
  /\ Intact => \A i \in DOMAIN acked : \E j \in DOMAIN file : file[j].id = acked[i]

\* ReplayInv is these two.
LEMMA ReplayParts == ReplayInv <=> FileInv /\ \A r \in Readers : ReaderInv(r)
BY DEF ReplayInv, FileInv, ReaderInv

\* Records whose ids grow.
LEMMA IdsGrow ==
  ASSUME NEW s
  PROVE  Grows(Ids(s)) <=> \A i, j \in DOMAIN s : i < j => s[i].id < s[j].id
BY DEF Grows, Ids

\* What is in the variables that the invariant is about.
LEMMA JournalTypes ==
  ASSUME EventJournalAssumption, JournalInv
  PROVE  /\ file \in Seq(Lines) /\ Len(file) \in Nat /\ DOMAIN file = 1 .. Len(file)
         /\ \A i \in 1 .. Len(file) : file[i].id \in Nat
         /\ acked \in Seq(1 .. MaxEvents) /\ Len(acked) \in Nat /\ DOMAIN acked = 1 .. Len(acked)
         /\ \A i \in 1 .. Len(acked) : acked[i] \in Nat
         /\ next \in Nat
         /\ \A r \in Readers :
              /\ reader[r] \in ReaderRecord /\ reader[r].got \in Seq(Lines)
              /\ Len(reader[r].got) \in Nat /\ DOMAIN reader[r].got = 1 .. Len(reader[r].got)
              /\ \A i \in 1 .. Len(reader[r].got) : reader[r].got[i].id \in Nat
              /\ reader[r].known \in Nat
<1>1. TypeOK /\ MaxEvents \in Nat BY DEF JournalInv, EventJournalAssumption
<1>2. \A l \in Lines : l.id \in Nat BY <1>1 DEF Lines
<1>3. file \in Seq(Lines) /\ acked \in Seq(1 .. MaxEvents) /\ next \in Nat
  BY <1>1 DEF TypeOK
<1>4. ASSUME NEW r \in Readers
      PROVE  reader[r] \in ReaderRecord /\ reader[r].got \in Seq(Lines) /\ reader[r].known \in Nat
  BY <1>1, <1>4 DEF TypeOK, ReaderRecord
<1>5. /\ Len(file) \in Nat /\ DOMAIN file = 1 .. Len(file)
      /\ \A i \in 1 .. Len(file) : file[i].id \in Nat
  BY <1>2, <1>3
<1>6. /\ Len(acked) \in Nat /\ DOMAIN acked = 1 .. Len(acked)
      /\ \A i \in 1 .. Len(acked) : acked[i] \in Nat
  BY <1>1, <1>3
<1>7. ASSUME NEW r \in Readers
      PROVE  /\ Len(reader[r].got) \in Nat /\ DOMAIN reader[r].got = 1 .. Len(reader[r].got)
             /\ \A i \in 1 .. Len(reader[r].got) : reader[r].got[i].id \in Nat
  BY <1>2, <1>4
<1>. QED BY <1>3, <1>4, <1>5, <1>6, <1>7

\* What is acknowledged in a step comes after all that was, with the id drawn in it.
AckedMore ==
  /\ Len(acked') \in Nat /\ Len(acked) <= Len(acked') /\ DOMAIN acked' = 1 .. Len(acked')
  /\ \A i \in 1 .. Len(acked) : acked'[i] = acked[i]
  /\ \A i \in 1 .. Len(acked') : i \in 1 .. Len(acked) \/ acked'[i] = next

LEMMA AckedOnce ==
  ASSUME EventJournalAssumption, JournalInv, acked' = acked \/ acked' = Append(acked, next)
  PROVE  AckedMore
<1>1. /\ Len(acked) \in Nat /\ DOMAIN acked = 1 .. Len(acked) /\ acked \in Seq(1 .. MaxEvents)
  BY JournalTypes
<1>2. CASE acked' = acked BY <1>1, <1>2 DEF AckedMore
<1>3. CASE acked' = Append(acked, next)
  <2>1. /\ Len(acked') = Len(acked) + 1 /\ acked'[Len(acked) + 1] = next
        /\ DOMAIN acked' = 1 .. Len(acked) + 1
        /\ \A i \in 1 .. Len(acked) : acked'[i] = acked[i]
    BY <1>1, <1>3
  <2>. QED BY <1>1, <2>1 DEF AckedMore
<1>. QED BY <1>2, <1>3

\* A reader who does nothing while the journal draws ids keeps what it knows: what is
\* acknowledged meanwhile has an id that is newer than all it has read.
LEMMA OthersKeep ==
  ASSUME EventJournalAssumption, JournalInv, FileInv, NEW r \in Readers, ReaderInv(r),
         reader' = reader, next' \in Nat, next <= next', AckedMore
  PROVE  ReaderInv(r)'
<1> DEFINE got == reader[r].got
<1>1. /\ Len(acked) \in Nat /\ DOMAIN acked = 1 .. Len(acked) /\ next \in Nat
      /\ Len(got) \in Nat /\ DOMAIN got = 1 .. Len(got) /\ reader[r].known \in Nat
      /\ \A i \in 1 .. Len(got) : got[i].id \in Nat
  BY JournalTypes
<1>2. /\ Len(acked') \in Nat /\ Len(acked) <= Len(acked') /\ DOMAIN acked' = 1 .. Len(acked')
      /\ \A i \in 1 .. Len(acked) : acked'[i] = acked[i]
      /\ \A i \in 1 .. Len(acked') : i \in 1 .. Len(acked) \/ acked'[i] = next
  BY DEF AckedMore
<1>3. ASSUME Reads(r) PROVE InOrder(r)'
  <2> SUFFICES ASSUME NEW k \in DOMAIN acked', NEW j \in DOMAIN got, got[j].id = acked'[k],
                      NEW i \in 1 .. k - 1
               PROVE  \E m \in 1 .. j - 1 : got[m].id = acked'[i]
    BY DEF InOrder
  <2>1. got[j].id < next BY <1>3 DEF ReaderInv
  <2>2. k \in 1 .. Len(acked) BY <1>1, <1>2, <2>1
  <2>3. \E m \in 1 .. j - 1 : got[m].id = acked[i]
    <3>1. InOrder(r) BY <1>3 DEF ReaderInv
    <3>2. k \in DOMAIN acked /\ got[j].id = acked[k] BY <1>1, <1>2, <2>2
    <3>. QED BY <3>1, <3>2 DEF InOrder
  <2>4. acked'[i] = acked[i] BY <1>1, <1>2, <2>2
  <2>. QED BY <2>3, <2>4
<1>4. Reads(r) => \A j \in DOMAIN got : got[j].id < next'
  BY <1>1 DEF ReaderInv
<1>5. Finished(r) => HasKnown(r)'
  BY <1>1, <1>2 DEF ReaderInv, HasKnown
<1>6. reader[r].known <= Len(acked') BY <1>1, <1>2 DEF ReaderInv
<1>. QED BY <1>3, <1>4, <1>5, <1>6 DEF ReaderInv, Reads, Finished

\* Where a reader moves and nothing is written, only what that reader knows is new.
LEMMA OneReads ==
  ASSUME EventJournalAssumption, JournalInv, ReplayInv, UNCHANGED <<file, next, acked>>,
         NEW r \in Readers, NEW v, reader' = [reader EXCEPT ![r] = v],
         ReaderInv(r)'
  PROVE  ReplayInv'
<1>1. reader \in [Readers -> ReaderRecord] BY DEF JournalInv, TypeOK, ReaderRecord
<1>2. \A q \in Readers : q # r => reader'[q] = reader[q] BY <1>1
<1>3. FileInv /\ \A q \in Readers : ReaderInv(q) BY ReplayParts
<1>4. ASSUME NEW q \in Readers, q # r PROVE ReaderInv(q)'
  BY <1>2, <1>3, <1>4 DEF ReaderInv, Reads, Finished, InOrder, HasKnown
<1>5. FileInv'
  BY <1>3 DEF FileInv, Intact, Verified
<1>6. FileInv' /\ \A q \in Readers : ReaderInv(q)' BY <1>4, <1>5
<1>. QED BY <1>6 DEF ReplayInv, FileInv, ReaderInv

\* What a write makes of the ids in the file.
LEMMA WriteDraws ==
  ASSUME EventJournalAssumption, JournalInv, FileInv, WrittenOnce
  PROVE  /\ Grows(Ids(file))' /\ \A i \in DOMAIN file' : file'[i].id < next'
         /\ next' = next + 1
         /\ Intact' /\ file' # file =>
              /\ \A i \in DOMAIN file : i \in DOMAIN file' /\ file'[i] = file[i]
              /\ \E j \in DOMAIN file' : file'[j].id = next
<1>1. /\ file \in Seq(Lines) /\ Len(file) \in Nat /\ DOMAIN file = 1 .. Len(file)
      /\ \A i \in 1 .. Len(file) : file[i].id \in Nat /\ file[i].id < next
      /\ \A i, j \in 1 .. Len(file) : i < j => file[i].id < file[j].id
      /\ next \in Nat
  BY JournalTypes, IdsGrow DEF FileInv
<1>2. /\ next' = next + 1 /\ next \in 1 .. MaxEvents /\ MaxEvents \in Nat
      /\ lastHash \in 0 .. MaxEvents
      /\ \A i \in 1 .. Len(file) - 1 : file[i].kind # "bare"
  BY DEF WrittenOnce, Drawn, JournalInv, TypeOK, EventJournalAssumption
<1>3. CASE file' = file
  <2>1. \A i, j \in DOMAIN file' : i < j => file'[i].id < file'[j].id BY <1>1, <1>3
  <2>2. Grows(Ids(file'))
    BY <2>1, IdsGrow
  <2>3. \A i \in DOMAIN file' : file'[i].id < next' BY <1>1, <1>2, <1>3
  <2>. QED BY <1>2, <1>3, <2>2, <2>3
<1>4. ASSUME NEW k \in Kinds, file' = Written(k)
      PROVE  /\ Grows(Ids(file'))
             /\ \A i \in DOMAIN file' : file'[i].id < next'
             /\ Intact' => /\ \A i \in DOMAIN file : i \in DOMAIN file' /\ file'[i] = file[i]
                           /\ \E j \in DOMAIN file' : file'[j].id = next
  <2>1. /\ file' \in Seq(Lines)
        /\ \/ /\ Len(file') = Len(file) /\ Len(file) > 0 /\ file'[Len(file)].kind = "scrap"
              /\ \A i \in 1 .. Len(file) : file'[i].id = file[i].id
           \/ file' = Append(file, Line(k)) /\ Line(k) \in Lines
    BY <1>1, <1>2, <1>4, WrittenFacts DEF Kinds
  <2>2. CASE /\ Len(file') = Len(file) /\ Len(file) > 0 /\ file'[Len(file)].kind = "scrap"
             /\ \A i \in 1 .. Len(file) : file'[i].id = file[i].id
    <3>1. DOMAIN file' = 1 .. Len(file) BY <2>1, <2>2
    <3>2. ~ Intact' BY <1>1, <2>2, <3>1 DEF Intact, Verified
    <3>3. \A i, j \in DOMAIN file' : i < j => file'[i].id < file'[j].id BY <1>1, <2>2, <3>1
    <3>4. Grows(Ids(file')) BY <3>3, IdsGrow
    <3>5. \A i \in DOMAIN file' : file'[i].id < next' BY <1>1, <1>2, <2>2, <3>1
    <3>. QED BY <3>2, <3>4, <3>5
  <2>3. CASE file' = Append(file, Line(k)) /\ Line(k) \in Lines
    <3>1. /\ DOMAIN file' = 1 .. Len(file) + 1
          /\ \A i \in 1 .. Len(file) : file'[i] = file[i]
          /\ file'[Len(file) + 1] = Line(k)
      BY <1>1, <2>3
    <3>2. file'[Len(file) + 1].id = next BY <3>1 DEF Line
    <3>3. \A i \in DOMAIN file' : i \in 1 .. Len(file) \/ i = Len(file) + 1 BY <1>1, <3>1
    <3>4. \A i, j \in DOMAIN file' : i < j => file'[i].id < file'[j].id
      BY <1>1, <3>1, <3>2, <3>3
    <3>5. Grows(Ids(file')) BY <3>4, IdsGrow
    <3>6. \A i \in DOMAIN file' : file'[i].id < next' BY <1>1, <1>2, <3>1, <3>2, <3>3
    <3>7. /\ \A i \in DOMAIN file : i \in DOMAIN file' /\ file'[i] = file[i]
          /\ Len(file) + 1 \in DOMAIN file'
      BY <1>1, <3>1
    <3>. QED BY <3>2, <3>5, <3>6, <3>7
  <2>. QED BY <2>1, <2>2, <2>3
<1>5. Grows(Ids(file))' <=> Grows(Ids(file')) BY DEF Grows, Ids
<1>. QED BY <1>2, <1>3, <1>4, <1>5 DEF WrittenOnce

\* appendHandler, whether it succeeds, fails or dies, and what it acknowledges.
LEMMA AppendReplays ==
  ASSUME EventJournalAssumption, JournalInv, ReplayInv, AppendOk \/ AppendFails \/ (Crash /\ Drawn)
  PROVE  ReplayInv'
<1>1. FileInv /\ \A r \in Readers : ReaderInv(r) BY ReplayParts
<1>2. WrittenOnce /\ reader' = reader
  <2>1. CASE AppendOk BY <2>1 DEF AppendOk, WrittenOnce, Kinds
  <2>2. CASE AppendFails BY <2>2 DEF AppendFails, Partial, WrittenOnce, Kinds
  <2>3. CASE Crash /\ Drawn BY <2>3 DEF Crash, WrittenOnce, Kinds, Drawn
  <2>. QED BY <2>1, <2>2, <2>3
<1>3. /\ Grows(Ids(file))' /\ \A i \in DOMAIN file' : file'[i].id < next'
      /\ next' = next + 1
      /\ Intact' /\ file' # file =>
           /\ \A i \in DOMAIN file : i \in DOMAIN file' /\ file'[i] = file[i]
           /\ \E j \in DOMAIN file' : file'[j].id = next
  BY <1>1, <1>2, WriteDraws
<1>4. /\ next \in Nat /\ Len(acked) \in Nat /\ DOMAIN acked = 1 .. Len(acked)
      /\ acked \in Seq(1 .. MaxEvents)
      /\ \A i \in 1 .. Len(acked) : acked[i] \in Nat
  BY JournalTypes
<1>5. acked' = acked \/ (AppendOk /\ acked' = Append(acked, next))
  BY DEF AppendOk, AppendFails, Crash
<1>6. Intact' => Intact
  BY <1>2, WriteFacts DEF JournalInv
<1>7. \A r \in Readers : ReaderInv(r)'
  BY <1>1, <1>2, <1>3, <1>4, <1>5, AckedOnce, OthersKeep
<1>8. Intact' => \A i \in DOMAIN acked : \E j \in DOMAIN file' : file'[j].id = acked[i]
  <2> SUFFICES ASSUME Intact', NEW i \in DOMAIN acked
               PROVE  \E j \in DOMAIN file' : file'[j].id = acked[i]
    OBVIOUS
  <2>1. PICK j \in DOMAIN file : file[j].id = acked[i] BY <1>1, <1>6 DEF FileInv
  <2>. QED BY <1>3, <2>1
<1>9. FileInv'
  <2>1. CASE acked' = acked
    <3>1. Grows(acked') /\ \A i \in DOMAIN acked : acked[i] < next'
      BY <1>1, <1>3, <1>4, <2>1 DEF FileInv, Grows
    <3>. QED BY <1>3, <1>8, <2>1, <3>1 DEF FileInv
  <2>2. CASE AppendOk /\ acked' = Append(acked, next)
    <3>1. /\ DOMAIN acked' = 1 .. Len(acked) + 1 /\ acked'[Len(acked) + 1] = next
          /\ \A i \in 1 .. Len(acked) : acked'[i] = acked[i]
      BY <1>4, <2>2
    <3>2. \A i \in DOMAIN acked' : i \in 1 .. Len(acked) \/ i = Len(acked) + 1 BY <1>4, <3>1
    <3>3. /\ \A i, j \in 1 .. Len(acked) : i < j => acked[i] < acked[j]
          /\ \A i \in 1 .. Len(acked) : acked[i] < next
      BY <1>1, <1>4 DEF FileInv, Grows
    <3>4. Grows(acked')
      <4> SUFFICES ASSUME NEW i \in DOMAIN acked', NEW j \in DOMAIN acked', i < j
                   PROVE  acked'[i] < acked'[j]
        BY DEF Grows
      <4>1. i \in 1 .. Len(acked) BY <1>4, <3>1
      <4>2. CASE j \in 1 .. Len(acked) BY <3>1, <3>3, <4>1, <4>2
      <4>3. CASE j = Len(acked) + 1 BY <3>1, <3>3, <4>1, <4>3
      <4>. QED BY <3>2, <4>2, <4>3
    <3>5. \A i \in DOMAIN acked' : acked'[i] < next' BY <1>3, <1>4, <3>1, <3>2, <3>3
    <3>6. Intact' => file' # file
      <4> SUFFICES ASSUME Intact', file' = file PROVE FALSE OBVIOUS
      <4>1. /\ file \in Seq(Lines) /\ next \in 1 .. MaxEvents /\ lastHash \in 0 .. MaxEvents
            /\ MaxEvents \in Nat /\ \A i \in 1 .. Len(file) - 1 : file[i].kind # "bare"
            /\ file' = Written("whole")
        BY <1>2, <2>2 DEF WrittenOnce, Drawn, JournalInv, TypeOK, EventJournalAssumption, AppendOk
      <4>2. CASE Len(file) > 0 /\ file[Len(file)].kind = "scrap"
        <5>1. Len(file) \in DOMAIN file BY <4>1, <4>2
        <5>. QED BY <1>6, <4>2, <5>1 DEF Intact, Verified
      <4>3. CASE file' = Append(file, Line("whole"))
        <5>1. Len(file') = Len(file) + 1 BY <4>1, <4>3
        <5>. QED BY <4>1, <5>1
      <4>. QED BY <4>1, <4>2, <4>3, WrittenFacts
    <3>7. Intact' => \A i \in DOMAIN acked' : \E j \in DOMAIN file' : file'[j].id = acked'[i]
      BY <1>3, <1>4, <1>8, <3>1, <3>2, <3>6
    <3>. QED BY <1>3, <3>4, <3>5, <3>7 DEF FileInv
  <2>. QED BY <1>5, <2>1, <2>2
<1>10. FileInv' /\ \A r \in Readers : ReaderInv(r)' BY <1>7, <1>9
<1>. QED BY <1>10 DEF ReplayInv, FileInv, ReaderInv

\* A reader comes to its end when it has read an intact file to the end.
LEMMA PageEnds ==
  ASSUME EventJournalAssumption, JournalInv, NEW r \in Readers, ReadPage(r),
         reader'[r].pc = "done"
  PROVE  /\ Intact /\ reader'[r].got = reader[r].got
         /\ DOMAIN reader[r].got = DOMAIN file
         /\ \A i \in DOMAIN file : reader[r].got[i].id = file[i].id
<1> DEFINE after == reader[r].after
           out == Page(after)
           b == Smallest(after + Limit, Len(file))
<1>1. reader \in [Readers -> ReaderRecord] BY DEF JournalInv, TypeOK, ReaderRecord
<1>2. reader[r] \in ReaderRecord /\ reader[r].pc = "reading" BY <1>1 DEF ReadPage
<1>3. reader'[r] = IF ~ Intact THEN [reader[r] EXCEPT !.pc = "error"]
                   ELSE IF out = <<>> THEN [reader[r] EXCEPT !.pc = "done"]
                   ELSE [reader[r] EXCEPT !.after = after + Len(out),
                                          !.got = reader[r].got \o out]
  BY <1>1 DEF ReadPage
<1> HIDE DEF after, out, b
<1>4. Intact BY <1>2, <1>3 DEF ReaderRecord
<1>5. out = <<>> BY <1>2, <1>3, <1>4 DEF ReaderRecord
<1>6. reader'[r].got = reader[r].got BY <1>2, <1>3, <1>4, <1>5 DEF ReaderRecord
<1>7. /\ file \in Seq(Lines) /\ Len(file) \in Nat /\ DOMAIN file = 1 .. Len(file)
      /\ Len(reader[r].got) \in Nat /\ DOMAIN reader[r].got = 1 .. Len(reader[r].got)
  BY JournalTypes
<1>8. /\ after = Len(reader[r].got) /\ after \in Nat /\ after <= Len(file)
      /\ \A i \in DOMAIN reader[r].got : reader[r].got[i].id = file[i].id
  BY <1>2, <1>4, <1>7 DEF JournalInv, ReadIsOnDisk, Reads, after
<1>9. Len(file) <= after
  <2>0. after \in Nat /\ after <= Len(file) /\ Len(file) \in Nat BY <1>7, <1>8
  <2>1. Limit \in Nat \ {0} BY DEF EventJournalAssumption
  <2>2. b = IF after + Limit < Len(file) THEN after + Limit ELSE Len(file)
    BY DEF Smallest, b
  <2>3. b \in 0 .. Len(file) /\ (b = after + Limit \/ b = Len(file))
    BY <2>0, <2>1, <2>2
  <2>4. after + 1 \in Nat \ {0} BY <1>8
  <2>5. out = SubSeq(file, after + 1, b) BY DEF Page, out, b
  <2>6. Len(out) = IF after + 1 <= b THEN b - (after + 1) + 1 ELSE 0
    BY <1>7, <2>3, <2>4, <2>5, Sub
  <2>7. Len(out) = 0
    <3>1. Len(<<>>) = 0 OBVIOUS
    <3>. QED BY <1>5, <3>1
  <2>. QED BY <2>0, <2>1, <2>3, <2>6, <2>7
<1>10. after = Len(file) BY <1>7, <1>8, <1>9
<1>. QED BY <1>4, <1>6, <1>7, <1>8, <1>10

\* What is read from an intact file is the beginning of it, and the acknowledged events
\* are in it in the order of their ids.
LEMMA PageReplays ==
  ASSUME EventJournalAssumption, JournalInv, ReplayInv, NEW r \in Readers, ReadPage(r)
  PROVE  ReplayInv'
<1>1. FileInv /\ ReaderInv(r) BY ReplayParts
<1>2. JournalInv' BY StepKeepsJournal DEF Next
<1>3. /\ reader[r].pc = "reading" /\ UNCHANGED <<file, next, acked>>
      /\ \E v : reader' = [reader EXCEPT ![r] = v]
  BY DEF ReadPage
<1>4. (Intact' <=> Intact) BY <1>3 DEF Intact, Verified
<1> DEFINE got == reader'[r].got
<1>5. /\ Len(acked) \in Nat /\ DOMAIN acked = 1 .. Len(acked)
      /\ \A i \in 1 .. Len(acked) : acked[i] \in Nat
      /\ Len(file) \in Nat /\ DOMAIN file = 1 .. Len(file)
      /\ \A i \in 1 .. Len(file) : file[i].id \in Nat /\ file[i].id < next
      /\ \A i, j \in 1 .. Len(file) : i < j => file[i].id < file[j].id
      /\ next \in Nat
      /\ Grows(acked)
  BY <1>1, JournalTypes, IdsGrow DEF FileInv
<1>6. Len(acked) \in Nat /\ Len(file) \in Nat BY <1>5
<1>7. /\ reader'[r].known = reader[r].known
      /\ reader'[r].pc # "error" => Intact
  <2>1. reader \in [Readers -> ReaderRecord] BY DEF JournalInv, TypeOK, ReaderRecord
  <2>2. reader[r] \in ReaderRecord BY <2>1
  <2> DEFINE out == Page(reader[r].after)
  <2>3. reader'[r] = IF ~ Intact THEN [reader[r] EXCEPT !.pc = "error"]
                     ELSE IF out = <<>> THEN [reader[r] EXCEPT !.pc = "done"]
                     ELSE [reader[r] EXCEPT !.after = reader[r].after + Len(out),
                                            !.got = reader[r].got \o out]
    BY <2>1 DEF ReadPage
  <2> HIDE DEF out
  <2>4. CASE ~ Intact BY <2>2, <2>3, <2>4 DEF ReaderRecord
  <2>5. CASE Intact /\ out = <<>> BY <2>2, <2>3, <2>5 DEF ReaderRecord, out
  <2>6. CASE Intact /\ out # <<>> BY <1>3, <2>2, <2>3, <2>6 DEF ReaderRecord
  <2>. QED BY <2>4, <2>5, <2>6
<1>8. CASE reader'[r].pc = "error"
  <2>1. ReaderInv(r)' BY <1>1, <1>3, <1>7, <1>8 DEF ReaderInv, Reads, Finished
  <2>. QED BY <1>3, <2>1, OneReads
<1>9. CASE reader'[r].pc # "error"
  <2>1. /\ Len(got) \in Nat /\ DOMAIN got = 1 .. Len(got) /\ Len(got) <= Len(file)
        /\ \A i \in 1 .. Len(got) : got[i].id = file[i].id
    <3>1. got \in Seq(Lines) BY <1>2 DEF JournalInv, TypeOK
    <3>2. Len(got) <= Len(file') /\ \A i \in DOMAIN got : got[i].id = file'[i].id
      BY <1>2, <1>4, <1>7, <1>9 DEF JournalInv, ReadIsOnDisk, Reads
    <3>. QED BY <1>3, <3>1, <3>2
  <2>2. \A i, j \in DOMAIN got : i < j => got[i].id < got[j].id
    BY <1>5, <2>1
  <2>3. Grows(Ids(got)) BY <2>2, IdsGrow
  <2>4. ASSUME NEW j \in DOMAIN got PROVE got[j].id < next
    <3>1. j \in 1 .. Len(file) /\ got[j].id = file[j].id BY <1>6, <2>1
    <3>. QED BY <1>5, <3>1
  <2>5. \A i \in 1 .. Len(acked) : \E j \in 1 .. Len(file) : file[j].id = acked[i]
    BY <1>1, <1>5, <1>7, <1>9 DEF FileInv
  <2>6. InOrder(r)'
    <3> SUFFICES ASSUME NEW k \in DOMAIN acked, NEW j \in DOMAIN got, got[j].id = acked[k],
                        NEW i \in 1 .. k - 1
                 PROVE  \E m \in 1 .. j - 1 : got[m].id = acked[i]
      BY <1>3 DEF InOrder
    <3>1. i \in 1 .. Len(acked) /\ acked[i] < acked[k] BY <1>5 DEF Grows
    <3>2. PICK m \in 1 .. Len(file) : file[m].id = acked[i] BY <2>5, <3>1
    <3>3. file[m].id < file[j].id /\ j \in 1 .. Len(file)
      <4>1. j \in 1 .. Len(got) BY <2>1
      <4>2. got[j].id = file[j].id BY <2>1, <4>1
      <4>3. j \in 1 .. Len(file)
        <5>1. Len(got) \in Nat /\ Len(got) <= Len(file) BY <2>1
        <5>. QED BY <1>6, <4>1, <5>1
      <4>4. file[j].id = acked[k] BY <4>2
      <4>. QED BY <3>1, <3>2, <4>3, <4>4
    <3>4. m < j
      <4>1. file[m].id \in Nat /\ file[j].id \in Nat /\ m \in Nat /\ j \in Nat
        BY <1>5, <3>2, <3>3
      <4>2. j < m => file[j].id < file[m].id BY <1>5, <3>2, <3>3
      <4>3. ~ (j < m) /\ j # m
        <5>1. file[m].id < file[j].id BY <3>3
        <5>. QED BY <4>1, <4>2, <5>1
      <4>. QED BY <4>1, <4>3
    <3>5. m \in 1 .. j - 1 /\ m \in 1 .. Len(got) BY <2>1, <3>4
    <3>. QED BY <2>1, <3>2, <3>5
  <2>7. ASSUME reader'[r].pc = "done" PROVE HasKnown(r)'
    <3>1. Len(file) <= Len(got)
      <4>1. DOMAIN got = DOMAIN file BY <2>7, PageEnds
      <4>. QED BY <1>5, <1>6, <2>1, <4>1
    <3>2. reader[r].known <= Len(acked) /\ reader[r].known \in Nat
      BY <1>1, JournalTypes DEF ReaderInv
    <3>3. \A i \in 1 .. reader[r].known : \E j \in DOMAIN got : got[j].id = acked[i]
      <4> SUFFICES ASSUME NEW i \in 1 .. reader[r].known
                   PROVE  \E j \in DOMAIN got : got[j].id = acked[i]
        OBVIOUS
      <4>1. i \in 1 .. Len(acked) BY <1>5, <3>2
      <4>2. PICK j \in 1 .. Len(file) : file[j].id = acked[i] BY <2>5, <4>1
      <4>3. j \in 1 .. Len(got) BY <1>5, <2>1, <3>1
      <4>. QED BY <2>1, <4>2, <4>3
    <3>. QED BY <1>3, <1>7, <3>3 DEF HasKnown
  <2>8. reader'[r].known <= Len(acked') BY <1>1, <1>3, <1>7 DEF ReaderInv
  <2>9. Grows(Ids(reader[r].got))' BY <2>3 DEF Grows, Ids
  <2>10. ReaderInv(r)'
    BY <1>3, <2>4, <2>6, <2>7, <2>8, <2>9 DEF ReaderInv, Finished
  <2>. QED BY <1>3, <2>10, OneReads
<1>. QED BY <1>8, <1>9

\* Each step keeps what makes a replay complete.
LEMMA ReplayKeeps ==
  ASSUME EventJournalAssumption, JournalInv, ReplayInv, [Next]_vars
  PROVE  ReplayInv'
<1>1. FileInv /\ \A r \in Readers : ReaderInv(r) BY ReplayParts
<1>2. reader \in [Readers -> ReaderRecord] BY DEF JournalInv, TypeOK, ReaderRecord
<1>3. ASSUME NEW r \in Readers, StartReplay(r) PROVE ReplayInv'
  <2>1. /\ reader[r].pc = "no" /\ UNCHANGED <<file, next, acked>>
        /\ reader' = [reader EXCEPT ![r].pc = "reading", ![r].known = Len(acked)]
    BY <1>3 DEF StartReplay
  <2> DEFINE v == [reader[r] EXCEPT !.pc = "reading", !.known = Len(acked)]
  <2>2. reader' = [reader EXCEPT ![r] = v] BY <1>2, <2>1
  <2>3. v.pc = "reading" /\ v.known = Len(acked) /\ v.got = reader[r].got
    BY <1>2 DEF ReaderRecord
  <2> HIDE DEF v
  <2>4. reader'[r] = v BY <1>2, <2>2
  <2>5. Len(acked) \in Nat BY JournalTypes
  <2>6. /\ Grows(Ids(reader[r].got)) /\ InOrder(r)
        /\ \A j \in DOMAIN reader[r].got : reader[r].got[j].id < next
    BY <1>1, <2>1 DEF ReaderInv, Reads
  <2>7. reader'[r].got = reader[r].got BY <2>3, <2>4
  <2>8. Grows(Ids(reader[r].got))'
    <3>1. Grows(Ids(reader'[r].got)) BY <2>6, <2>7
    <3>. QED BY <3>1 DEF Grows, Ids
  <2>9. InOrder(r)'
    BY <2>1, <2>6, <2>7 DEF InOrder
  <2>10. \A j \in DOMAIN reader'[r].got : reader'[r].got[j].id < next'
    BY <2>1, <2>6, <2>7
  <2>11. reader'[r].known <= Len(acked') /\ reader'[r].pc = "reading"
    BY <2>1, <2>3, <2>4, <2>5
  <2>12. ReaderInv(r)'
    BY <2>8, <2>9, <2>10, <2>11 DEF ReaderInv, Finished
  <2>. QED BY <2>1, <2>2, <2>12, OneReads
<1>4. ASSUME NEW r \in Readers, ReadFails(r) PROVE ReplayInv'
  <2>1. UNCHANGED <<file, next, acked>> /\ reader' = [reader EXCEPT ![r].pc = "error"]
    BY <1>4 DEF ReadFails
  <2> DEFINE v == [reader[r] EXCEPT !.pc = "error"]
  <2>2. reader' = [reader EXCEPT ![r] = v] BY <1>2, <2>1
  <2>3. v.pc = "error" /\ v.known = reader[r].known BY <1>2 DEF ReaderRecord
  <2> HIDE DEF v
  <2>4. reader'[r] = v BY <1>2, <2>2
  <2>5. ReaderInv(r)' BY <1>1, <2>1, <2>3, <2>4 DEF ReaderInv, Reads, Finished
  <2>. QED BY <2>1, <2>2, <2>5, OneReads
<1>5. ASSUME UNCHANGED <<file, next, acked, reader>> PROVE ReplayInv'
  BY <1>5 DEF ReplayInv, Intact, Verified, Reads, Finished, InOrder, HasKnown
<1>6. CASE Restart BY <1>5, <1>6 DEF Restart
<1>7. CASE Crash
  <2>1. CASE UNCHANGED <<file, next>> BY <1>5, <1>7, <2>1 DEF Crash
  <2>. QED BY <1>7, <2>1, AppendReplays DEF Crash
<1>8. CASE UNCHANGED vars BY <1>5, <1>8 DEF vars
<1>. QED BY <1>3, <1>4, <1>6, <1>7, <1>8, AppendReplays, PageReplays DEF Next

\* A replay that has come to its end has all it was to have.
LEMMA FinishedIsComplete ==
  ASSUME EventJournalAssumption, Inv
  PROVE  ReplayComplete
<1> SUFFICES ASSUME NEW r \in Readers, Finished(r) PROVE HasKnown(r) /\ InOrder(r) /\ Once(r)
  BY DEF ReplayComplete
<1>1. ReaderInv(r) /\ Reads(r) BY ReplayParts DEF Inv, Finished, Reads
<1>2. \A i, j \in DOMAIN reader[r].got : i < j => reader[r].got[i].id < reader[r].got[j].id
  BY <1>1, IdsGrow DEF ReaderInv
<1>3. \A i \in DOMAIN reader[r].got : reader[r].got[i].id \in Nat /\ i \in Nat
  BY JournalTypes DEF Inv
<1>4. Once(r)
  <2> SUFFICES ASSUME NEW i \in DOMAIN reader[r].got, NEW j \in DOMAIN reader[r].got,
                      reader[r].got[i].id = reader[r].got[j].id
               PROVE  i = j
    BY DEF Once
  <2>1. ~ (i < j) /\ ~ (j < i) BY <1>2, <1>3
  <2>. QED BY <1>3, <2>1
<1>. QED BY <1>1, <1>4 DEF ReaderInv

\* The journal begins with nothing to replay.
LEMMA ReplayStarts == ASSUME EventJournalAssumption, Init PROVE ReplayInv
<1>1. /\ file = <<>> /\ acked = <<>> /\ next = 1
      /\ reader = [r \in Readers |-> [pc |-> "no", after |-> 0, got |-> <<>>, known |-> 0]]
  BY DEF Init
<1>2. DOMAIN <<>> = {} /\ Len(<<>>) = 0 OBVIOUS
<1>3. \A r \in Readers : reader[r].pc = "no" /\ reader[r].got = <<>> /\ reader[r].known = 0
  BY <1>1
<1>4. FileInv BY <1>1, <1>2 DEF FileInv, Grows, Ids
<1>5. ASSUME NEW r \in Readers PROVE ReaderInv(r)
  BY <1>1, <1>2, <1>3 DEF ReaderInv, Grows, Ids, InOrder, Finished
<1>. QED BY <1>4, <1>5, ReplayParts

\* The state invariant of the journal and of those who replay it: what a finished replay
\* has brought is one chain from the first record (replayHandler, replayAll).
THEOREM Invariance == Spec => []Inv
<1>1. Init => Inv BY EventJournalAssumption, Initially, ReplayStarts DEF Inv
<1>2. Inv /\ [Next]_vars => Inv' BY EventJournalAssumption, StepKeepsJournal, ReplayKeeps DEF Inv
<1>. QED BY <1>1, <1>2, PTL DEF Spec

\* A replay that comes to its end has brought every event that was acknowledged before it
\* began, once each and in order, whatever happened between its pages (replayAll).
THEOREM ReplaysAreComplete == Spec => []ReplayComplete
<1>1. Inv => ReplayComplete BY EventJournalAssumption, FinishedIsComplete
<1>. QED BY <1>1, Invariance, PTL

\* In an undamaged journal a whole write adds a line that is chained to the last.
LEMMA WholeWrite ==
  ASSUME EventJournalAssumption, JournalInv, UndamagedInv, Undamaged, Drawn, file' = Written("whole")
  PROVE  /\ Intact' /\ \A i \in DOMAIN file' : file'[i].kind = "whole"
         /\ Len(file') = Len(file) + 1 /\ HashOfLast' = next
         /\ \A i \in DOMAIN file : i \in DOMAIN file' /\ file'[i] = file[i]
         /\ file'[Len(file) + 1].id = next
<1>1. /\ file \in Seq(Lines) /\ next \in 1 .. MaxEvents /\ MaxEvents \in Nat
      /\ lastHash \in 0 .. MaxEvents
      /\ \A i \in 1 .. Len(file) - 1 : file[i].kind # "bare"
  BY DEF JournalInv, TypeOK, Drawn, EventJournalAssumption
<1>2. /\ Intact /\ \A i \in DOMAIN file : file[i].kind = "whole"
      /\ lastHash = HashOfLast
  BY DEF UndamagedInv, Drawn
<1>3. file' = Append(file, Line("whole")) /\ Line("whole") \in Lines
  BY <1>1, <1>2, WrittenFacts
<1>4. /\ Len(file') = Len(file) + 1 /\ Len(file) \in Nat
      /\ DOMAIN file' = 1 .. Len(file) + 1 /\ DOMAIN file = 1 .. Len(file)
      /\ \A i \in 1 .. Len(file) : file'[i] = file[i]
      /\ file'[Len(file) + 1] = Line("whole")
  BY <1>1, <1>3
<1>5. Line("whole").kind = "whole" /\ Line("whole").id = next /\ Line("whole").prev = lastHash
  BY DEF Line
<1>6. HashOfLast' = next
  <2>1. file' # <<>> BY <1>4
  <2>. QED BY <2>1, <1>4, <1>5 DEF HashOfLast, Last
<1>7. ASSUME NEW i \in DOMAIN file' PROVE Verified(i)'
  <2>1. CASE i \in DOMAIN file
    <3>1. Verified(i) /\ (i # 1 => i - 1 \in 1 .. Len(file)) BY <1>2, <1>4, <2>1 DEF Intact
    <3>. QED BY <1>4, <2>1, <3>1 DEF Verified
  <2>2. CASE i = Len(file) + 1
    <3>1. CASE i = 1
      <4>1. file = <<>> BY <1>1, <1>4, <2>2, <3>1
      <4>. QED BY <1>2, <1>4, <1>5, <2>2, <3>1, <4>1 DEF Verified, HashOfLast
    <3>2. CASE i # 1
      <4>1. /\ file # <<>> /\ i - 1 = Len(file) /\ i - 1 \in 1 .. Len(file)
        BY <1>1, <1>4, <2>2, <3>2
      <4>2. file'[i - 1] = file[Len(file)] BY <1>4, <4>1
      <4>3. lastHash = file[Len(file)].id BY <1>2, <4>1 DEF HashOfLast, Last
      <4>. QED BY <1>4, <1>5, <2>2, <3>2, <4>2, <4>3 DEF Verified
    <3>. QED BY <3>1, <3>2
  <2>. QED BY <1>4, <2>1, <2>2
<1>8. Intact' BY <1>7 DEF Intact
<1>. QED BY <1>2, <1>4, <1>5, <1>6, <1>8

\* No step damages the journal without being counted as a fault.
LEMMA UndamagedKeeps ==
  ASSUME EventJournalAssumption, JournalInv, UndamagedInv, [Next]_vars PROVE UndamagedInv'
<1>1. faults \in Nat /\ tears \in Nat BY DEF UndamagedInv
<1>2. CASE AppendOk
  <2>1. faults' = faults /\ tears' = tears /\ Drawn /\ file' = Written("whole")
        /\ lastHash' = next /\ acked' = Append(acked, next) /\ host' = host /\ host = "up"
    BY <1>2 DEF AppendOk, counters, Drawn
  <2>2. CASE Undamaged
    <3>1. acked \in Seq(1 .. MaxEvents) /\ next \in 1 .. MaxEvents /\ file \in Seq(Lines)
      BY <2>1 DEF JournalInv, TypeOK, Drawn, EventJournalAssumption
    <3>2. \A i \in DOMAIN acked : \E j \in DOMAIN file : file[j].id = acked[i]
      BY <2>2 DEF UndamagedInv
    <3>3. /\ Intact' /\ \A i \in DOMAIN file' : file'[i].kind = "whole"
          /\ Len(file') = Len(file) + 1 /\ HashOfLast' = next
          /\ \A i \in DOMAIN file : i \in DOMAIN file' /\ file'[i] = file[i]
          /\ file'[Len(file) + 1].id = next
      BY <2>1, <2>2, WholeWrite
    <3>4. /\ DOMAIN acked' = 1 .. Len(acked) + 1 /\ DOMAIN acked = 1 .. Len(acked)
          /\ \A i \in DOMAIN acked : acked'[i] = acked[i]
          /\ acked'[Len(acked) + 1] = next
      BY <2>1, <3>1
    <3>5. Len(file) + 1 \in DOMAIN file'
      <4>1. file' \in Seq(Lines)
        BY <2>1, WriteFacts DEF JournalInv, WrittenOnce, Kinds, FileTypes
      <4>. QED BY <3>1, <3>3, <4>1
    <3>6. ASSUME NEW i \in DOMAIN acked' PROVE \E j \in DOMAIN file' : file'[j].id = acked'[i]
      <4>1. CASE i \in DOMAIN acked BY <3>2, <3>3, <3>4, <4>1
      <4>2. CASE i = Len(acked) + 1 BY <3>3, <3>4, <3>5, <4>2
      <4>. QED BY <3>1, <3>4, <4>1, <4>2
    <3>. QED BY <1>1, <2>1, <3>3, <3>6 DEF UndamagedInv
  <2>. QED BY <1>1, <2>1, <2>2 DEF UndamagedInv, Undamaged
<1>3. CASE AppendFails
  <2>1. faults' = faults + 1 /\ tears' = tears BY <1>3 DEF AppendFails
  <2>. QED BY <1>1, <2>1 DEF UndamagedInv, Undamaged
<1>4. CASE Crash
  <2>1. faults' = faults /\ host' = "down" /\ acked' = acked BY <1>4 DEF Crash
  <2>2. CASE UNCHANGED <<file, tears>>
    <3>1. Intact' <=> Intact BY <2>2 DEF Intact, Verified
    <3>. QED BY <1>1, <2>1, <2>2, <3>1 DEF UndamagedInv, Undamaged
  <2>3. CASE Drawn /\ file' = Written("whole") /\ tears' = tears
    <3>1. CASE Undamaged
      <4>1. \A i \in DOMAIN acked : \E j \in DOMAIN file : file[j].id = acked[i]
        BY <3>1 DEF UndamagedInv
      <4>2. /\ Intact' /\ \A i \in DOMAIN file' : file'[i].kind = "whole"
            /\ \A i \in DOMAIN file : i \in DOMAIN file' /\ file'[i] = file[i]
        BY <2>3, <3>1, WholeWrite
      <4>. QED BY <1>1, <2>1, <2>3, <4>1, <4>2 DEF UndamagedInv
    <3>. QED BY <1>1, <2>1, <2>3, <3>1 DEF UndamagedInv, Undamaged
  <2>4. CASE tears' = tears + 1
    BY <1>1, <2>1, <2>4 DEF UndamagedInv, Undamaged
  <2>. QED BY <1>4, <2>2, <2>3, <2>4 DEF Crash
<1>5. CASE Restart
  <2>1. UNCHANGED <<file, acked, faults, tears>> /\ (Intact' <=> Intact)
    BY <1>5 DEF Restart, counters, Intact, Verified
  <2>2. HashOfLast' = HashOfLast BY <2>1 DEF HashOfLast
  <2>3. Intact => host' = "up" /\ lastHash' = HashOfLast BY <1>5 DEF Restart
  <2>. QED BY <1>1, <2>1, <2>2, <2>3 DEF UndamagedInv, Undamaged
<1>6. ASSUME UNCHANGED <<file, lastHash, host, acked, faults, tears>> PROVE UndamagedInv'
  <2>1. (Intact' <=> Intact) /\ HashOfLast' = HashOfLast
    BY <1>6 DEF Intact, Verified, HashOfLast
  <2>. QED BY <1>1, <1>6, <2>1 DEF UndamagedInv, Undamaged
<1>7. ASSUME NEW r \in Readers, StartReplay(r) \/ ReadPage(r) \/ ReadFails(r) PROVE UndamagedInv'
  BY <1>6, <1>7 DEF StartReplay, ReadPage, ReadFails, counters
<1>8. CASE UNCHANGED vars BY <1>6, <1>8 DEF vars
<1>. QED BY <1>2, <1>3, <1>4, <1>5, <1>7, <1>8 DEF Next

\* What was acknowledged stays readable, and the plugin starts again, while no write has
\* failed and none was cut short (appendHandler, verifyAndLoadTail).
THEOREM AcknowledgedIsReadable == Spec => []AckedReadable
<1>1. Init => JournalInv /\ UndamagedInv BY EventJournalAssumption, Initially
<1>2. JournalInv /\ UndamagedInv /\ [Next]_vars => (JournalInv /\ UndamagedInv)'
  BY EventJournalAssumption, StepKeepsJournal, UndamagedKeeps
<1>3. UndamagedInv => AckedReadable BY DEF UndamagedInv, AckedReadable
<1>. QED BY <1>1, <1>2, <1>3, PTL DEF Spec

\* Sealing takes part in the journal as one of its readers.
LEMMA SealStep ==
  ASSUME SessionSealAssumption, [SealNext]_sealVars
  PROVE  \/ [Next]_vars
         \/ /\ Session \in Readers /\ reader' = [reader EXCEPT ![Session] = Unread]
            /\ UNCHANGED journal
<1>1. CASE Journal BY <1>1 DEF Journal, Next, SessionSealAssumption
<1>2. CASE Seal
  <2>1. CASE AskSeal BY <2>1 DEF AskSeal, SessionSealAssumption
  <2>2. CASE BeginReplay BY <2>2 DEF BeginReplay, Next, SessionSealAssumption
  <2>3. CASE Checkpoint \/ Select \/ ReplayFails \/ Record \/ PluginDies
              \/ \E pc \in {"patch", "archive"} : PutBlob(pc)
    BY <2>3 DEF Checkpoint, Select, ReplayFails, Record, PluginDies, PutBlob
  <2>. QED BY <1>2, <2>1, <2>2, <2>3 DEF Seal
<1>3. CASE UNCHANGED sealVars BY <1>3 DEF sealVars
<1>. QED BY <1>1, <1>2, <1>3 DEF SealNext

\* A step while sessions are sealed.
LEMMA SealKeeps ==
  ASSUME EventJournalAssumption, SessionSealAssumption, Inv, UndamagedInv, [SealNext]_sealVars
  PROVE  Inv' /\ UndamagedInv'
<1>1. CASE [Next]_vars BY <1>1, StepKeepsJournal, ReplayKeeps, UndamagedKeeps DEF Inv
<1>2. CASE /\ Session \in Readers /\ reader' = [reader EXCEPT ![Session] = Unread]
           /\ UNCHANGED journal
  <2>1. UNCHANGED <<file, lastHash, host, next, acked, faults, tears>>
    BY <1>2 DEF journal, counters
  <2>2. UndamagedInv'
    <3>1. (Intact' <=> Intact) /\ HashOfLast' = HashOfLast
      BY <2>1 DEF Intact, Verified, HashOfLast
    <3>. QED BY <2>1, <3>1 DEF UndamagedInv, Undamaged
  <2>3. /\ Unread \in ReaderRecord /\ Unread.got = <<>> /\ Unread.after = 0
        /\ DOMAIN Unread.got = {} /\ Len(Unread.got) = 0
    <3>1. \A T : <<>> \in Seq(T) /\ DOMAIN <<>> = {} /\ Len(<<>>) = 0 OBVIOUS
    <3>. QED BY <3>1 DEF Unread, ReaderRecord, EventJournalAssumption
  <2>4. Len(file) \in Nat BY DEF Inv, JournalInv, TypeOK
  <2>5. /\ \A i \in DOMAIN Unread.got :
              Unread.got[i].prev = IF i = 1 THEN None ELSE Unread.got[i - 1].id
        /\ Unread.after = Len(Unread.got) /\ Len(Unread.got) <= Len(file)
        /\ \A i \in DOMAIN Unread.got : Unread.got[i].id = file[i].id
    BY <2>3, <2>4
  <2>6. JournalInv' BY <1>2, <2>1, <2>3, <2>5, ReaderKeeps DEF Inv
  <2>7. ReaderInv(Session)'
    <3>1. reader'[Session] = Unread BY <1>2 DEF Inv, JournalInv, TypeOK
    <3>2. Len(acked') \in Nat BY <2>1, JournalTypes DEF Inv
    <3>3. Unread.pc = "no" /\ Unread.known = 0 BY DEF Unread
    <3>4. Grows(Ids(reader'[Session].got)) BY <2>3, <3>1, IdsGrow
    <3>5. Grows(Ids(reader[Session].got))' BY <3>4 DEF Grows, Ids
    <3>. QED BY <2>3, <3>1, <3>2, <3>3, <3>5 DEF ReaderInv, Finished, InOrder
  <2>8. ReplayInv' BY <1>2, <2>1, <2>7, OneReads DEF Inv
  <2>. QED BY <2>2, <2>6, <2>8 DEF Inv
<1>. QED BY <1>1, <1>2, SealStep

-----------------------------------------------------------------------------
\* A set of natural numbers has a least one.
LEMMA Least ==
  ASSUME NEW T, T \subseteq Nat, T # {}
  PROVE  \E x \in T : \A y \in T : x <= y
<1> DEFINE R == OpToRel(<, Nat)
<1>1. IsWellFoundedOn(R, Nat) BY NatLessThanWellFounded
<1>2. \A a, b \in Nat : <<a, b>> \in R <=> a < b BY DEF OpToRel
<1> HIDE DEF R
<1>3. PICK x \in T : \A y \in T : <<y, x>> \notin R BY <1>1, WFMin
<1>4. \A y \in T : ~(y < x) BY <1>2, <1>3
<1>5. \A y \in T : x <= y BY <1>4
<1>. QED BY <1>5

\* Induction over a set: what holds for 0 and goes from n to n + 1.
LEMMA Induction ==
  ASSUME NEW S, 0 \in S, \A n \in Nat : n \in S => n + 1 \in S
  PROVE  \A n \in Nat : n \in S
<1> SUFFICES ASSUME NEW T, T = Nat \ S, T # {} PROVE FALSE OBVIOUS
<1>1. PICK x \in T : \A y \in T : x <= y BY Least
<1>2. x \in Nat /\ x # 0 OBVIOUS
<1>3. x - 1 \in Nat /\ x - 1 \notin T BY <1>1, <1>2
<1>. QED BY <1>2, <1>3

\* The selections along the events: SelectOurs goes through them one by one.
Selects(f, es, n) == f[0] = <<>> /\ \A i \in 1 .. n : f[i] = Chosen(f[i - 1], es[i])

\* The recursive definition has a solution for every length.
LEMMA SelectionExists ==
  ASSUME NEW es, NEW n \in Nat
  PROVE  \E f : f = [i \in 0 .. n |-> IF i = 0 THEN <<>> ELSE Chosen(f[i - 1], es[i])]
<1> DEFINE Solves(f, m) ==
      f = [i \in 0 .. m |-> IF i = 0 THEN <<>> ELSE Chosen(f[i - 1], es[i])]
<1> DEFINE S == {m \in Nat : \E f : Solves(f, m)}
<1>1. 0 \in S
  <2> DEFINE f == [i \in 0 .. 0 |-> <<>>]
  <2>1. Solves(f, 0) OBVIOUS
  <2>. QED BY <2>1
<1>2. ASSUME NEW m \in Nat, m \in S PROVE m + 1 \in S
  <2>1. PICK f : Solves(f, m) BY <1>2
  <2> DEFINE last == Chosen(f[m], es[m + 1])
  <2> HIDE DEF last
  <2> DEFINE g == [i \in 0 .. m + 1 |-> IF i = m + 1 THEN last ELSE f[i]]
  <2>2. \A i \in 0 .. m : g[i] = f[i] OBVIOUS
  <2>3. \A i \in 0 .. m : f[i] = IF i = 0 THEN <<>> ELSE Chosen(f[i - 1], es[i]) BY <2>1
  <2>4. ASSUME NEW i \in 0 .. m + 1
        PROVE  g[i] = IF i = 0 THEN <<>> ELSE Chosen(g[i - 1], es[i])
    <3>1. CASE i = m + 1
      <4>1. g[i] = last /\ i # 0 /\ i - 1 = m BY <3>1
      <4>2. g[i - 1] = f[m] BY <2>2, <4>1
      <4>. QED BY <3>1, <4>1, <4>2 DEF last
    <3>2. CASE i \in 0 .. m
      <4>1. g[i] = f[i] BY <2>2, <3>2
      <4>2. CASE i = 0 BY <2>3, <4>1, <4>2
      <4>3. CASE i # 0
        <5>1. g[i - 1] = f[i - 1] BY <2>2, <3>2, <4>3
        <5>. QED BY <2>3, <3>2, <4>1, <4>3, <5>1
      <4>. QED BY <4>2, <4>3
    <3>. QED BY <3>1, <3>2
  <2>5. g = [i \in 0 .. m + 1 |-> g[i]] OBVIOUS
  <2> HIDE DEF g
  <2>6. Solves(g, m + 1) BY <2>4, <2>5
  <2>. QED BY <2>6
<1> HIDE DEF S
<1>3. n \in S BY <1>1, <1>2, Induction
<1>. QED BY <1>3 DEF S

\* The selection is where going through the events ends.
LEMMA SelectionSteps ==
  ASSUME NEW es, Len(es) \in Nat
  PROVE  \E f : Selects(f, es, Len(es)) /\ SelectOurs(es) = f[Len(es)]
<1> DEFINE ours[n \in 0 .. Len(es)] == IF n = 0 THEN <<>> ELSE Chosen(ours[n - 1], es[n])
<1>1. SelectOurs(es) = ours[Len(es)] BY DEF SelectOurs
<1>2. \E f : f = [n \in 0 .. Len(es) |-> IF n = 0 THEN <<>> ELSE Chosen(f[n - 1], es[n])]
  BY SelectionExists
<1>3. ours = [n \in 0 .. Len(es) |-> IF n = 0 THEN <<>> ELSE Chosen(ours[n - 1], es[n])]
  BY <1>2
<1> HIDE DEF ours
<1>4. Selects(ours, es, Len(es)) BY <1>3 DEF Selects
<1>. QED BY <1>1, <1>4

\* The events of the session, all of them, in their order.
LEMMA SelectionFacts ==
  ASSUME NEW es \in Seq(Nat), Grows(es)
  PROVE  /\ SelectOurs(es) \in Seq(Nat)
         /\ Range(SelectOurs(es)) = Range(es) \cap Ours
         /\ Grows(SelectOurs(es))
<1>1. Len(es) \in Nat /\ DOMAIN es = 1 .. Len(es) /\ \A i \in 1 .. Len(es) : es[i] \in Nat
  OBVIOUS
<1>2. PICK f : Selects(f, es, Len(es)) /\ SelectOurs(es) = f[Len(es)] BY <1>1, SelectionSteps
<1> DEFINE Good(s, m) ==
      /\ s \in Seq(Nat)
      /\ \A i \in 1 .. Len(s) : s[i] \in Ours /\ \E j \in 1 .. m : es[j] = s[i]
      /\ \A j \in 1 .. m : es[j] \in Ours => \E i \in 1 .. Len(s) : s[i] = es[j]
      /\ \A i, j \in 1 .. Len(s) : i < j => s[i] < s[j]
<1> DEFINE S == {m \in Nat : m <= Len(es) => Good(f[m], m)}
<1>3. 0 \in S
  <2>1. f[0] = <<>> /\ <<>> \in Seq(Nat) /\ Len(<<>>) = 0 BY <1>2 DEF Selects
  <2>2. Good(f[0], 0) BY <2>1
  <2> HIDE DEF Good
  <2>. QED BY <2>2
<1>4. ASSUME NEW m \in Nat, m \in S PROVE m + 1 \in S
  <2> SUFFICES ASSUME m + 1 <= Len(es) PROVE Good(f[m + 1], m + 1)
    <3> HIDE DEF Good
    <3>. QED OBVIOUS
  <2> DEFINE s == f[m]
             e == es[m + 1]
  <2>1. Good(s, m)
    <3> HIDE DEF Good
    <3>. QED BY <1>1, <1>4
  <2>2. f[m + 1] = Chosen(s, e)
    <3>1. m + 1 \in 1 .. Len(es) /\ m + 1 - 1 = m BY <1>1
    <3>. QED BY <1>2, <3>1 DEF Selects
  <2>3. e \in Nat /\ \A j \in 1 .. m : es[j] < e
    <3>1. m + 1 \in 1 .. Len(es) /\ \A j \in 1 .. m : j \in 1 .. Len(es) /\ j < m + 1 BY <1>1
    <3>. QED BY <1>1, <3>1 DEF Grows
  <2>4. \A j \in 1 .. m + 1 : j \in 1 .. m \/ j = m + 1 OBVIOUS
  <2>5. \A j \in 1 .. m : j \in 1 .. m + 1 OBVIOUS
  <2>6. m + 1 \in 1 .. m + 1 OBVIOUS
  <2>7. Len(s) \in Nat /\ \A i \in 1 .. Len(s) : s[i] \in Nat BY <2>1
  <2> HIDE DEF s
  <2>8. CASE e \notin Ours
    <3>1. f[m + 1] = s BY <2>2, <2>8 DEF Chosen
    <3>2. \A j \in 1 .. m + 1 : es[j] \in Ours => \E i \in 1 .. Len(s) : s[i] = es[j]
      BY <2>1, <2>4, <2>8
    <3>3. \A i \in 1 .. Len(s) : s[i] \in Ours /\ \E j \in 1 .. m + 1 : es[j] = s[i]
      BY <2>1, <2>5
    <3>. QED BY <2>1, <3>1, <3>2, <3>3
  <2>9. CASE e \in Ours
    <3> DEFINE t == Append(s, e)
    <3>1. /\ t \in Seq(Nat) /\ Len(t) = Len(s) + 1 /\ t[Len(s) + 1] = e
          /\ \A i \in 1 .. Len(s) : t[i] = s[i]
      BY <2>1, <2>3
    <3>2. f[m + 1] = t BY <2>2, <2>9 DEF Chosen
    <3> HIDE DEF t
    <3>3. \A i \in 1 .. Len(t) : i \in 1 .. Len(s) \/ i = Len(s) + 1 BY <2>7, <3>1
    <3>4. \A i \in 1 .. Len(s) : i \in 1 .. Len(t) BY <2>7, <3>1
    <3>5. Len(s) + 1 \in 1 .. Len(t) BY <2>7, <3>1
    <3>6. \A i \in 1 .. Len(t) : t[i] \in Ours /\ \E j \in 1 .. m + 1 : es[j] = t[i]
      BY <2>1, <2>5, <2>6, <2>9, <3>1, <3>3
    <3>7. \A j \in 1 .. m + 1 : es[j] \in Ours => \E i \in 1 .. Len(t) : t[i] = es[j]
      BY <2>1, <2>4, <3>1, <3>4, <3>5
    <3>8. ASSUME NEW i \in 1 .. Len(t), NEW j \in 1 .. Len(t), i < j PROVE t[i] < t[j]
      <4>1. i \in 1 .. Len(s) BY <2>7, <3>1, <3>8
      <4>2. CASE j \in 1 .. Len(s) BY <2>1, <3>1, <3>8, <4>1, <4>2
      <4>3. CASE j = Len(s) + 1
        <5>1. PICK k \in 1 .. m : es[k] = s[i] BY <2>1, <4>1
        <5>. QED BY <2>3, <3>1, <4>1, <4>3, <5>1
      <4>. QED BY <3>3, <4>2, <4>3
    <3>. QED BY <3>1, <3>2, <3>6, <3>7, <3>8
  <2>. QED BY <2>8, <2>9
<1> DEFINE s == SelectOurs(es)
<1>5. Good(s, Len(es))
  <2> HIDE DEF Good
  <2>1. Len(es) \in S
    <3> HIDE DEF S
    <3>. QED BY <1>1, <1>3, <1>4, Induction
  <2>. QED BY <1>1, <1>2, <2>1
<1> HIDE DEF s
<1>6. s \in Seq(Nat) /\ DOMAIN s = 1 .. Len(s) BY <1>5
<1>7. Grows(s) BY <1>5, <1>6 DEF Grows
<1>8. Range(s) = Range(es) \cap Ours
  <2>1. ASSUME NEW i \in DOMAIN s PROVE s[i] \in Ours /\ \E j \in DOMAIN es : es[j] = s[i]
    BY <1>1, <1>5, <1>6, <2>1
  <2>2. ASSUME NEW j \in DOMAIN es, es[j] \in Ours PROVE \E i \in DOMAIN s : s[i] = es[j]
    BY <1>1, <1>5, <1>6, <2>2
  <2>. QED BY <2>1, <2>2 DEF Range
<1>. QED BY <1>6, <1>7, <1>8 DEF s

\* Both hold while sessions are sealed (session.seal).
THEOREM SealedInvariance == SealSpec => [](Inv /\ AckedReadable)
<1>1. SealInit => Inv /\ UndamagedInv
  BY EventJournalAssumption, Initially, ReplayStarts DEF SealInit, Inv
<1>2. Inv /\ UndamagedInv /\ [SealNext]_sealVars => (Inv /\ UndamagedInv)'
  BY EventJournalAssumption, SessionSealAssumption, SealKeeps
<1>3. UndamagedInv => AckedReadable BY DEF UndamagedInv, AckedReadable
<1>. QED BY <1>1, <1>2, <1>3, PTL DEF SealSpec

\* Replays are complete while sessions are sealed, too.
THEOREM SealedReplaysAreComplete == SealSpec => []ReplayComplete
<1>1. SealInit => Inv /\ UndamagedInv
  BY EventJournalAssumption, Initially, ReplayStarts DEF SealInit, Inv
<1>2. Inv /\ UndamagedInv /\ [SealNext]_sealVars => (Inv /\ UndamagedInv)'
  BY EventJournalAssumption, SessionSealAssumption, SealKeeps
<1>3. Inv => ReplayComplete BY EventJournalAssumption, FinishedIsComplete
<1>. QED BY <1>1, <1>2, <1>3, PTL DEF SealSpec

-----------------------------------------------------------------------------
\* The steps of a seal, by their names.
LEMMA StepNames ==
  /\ Range(Steps) = {"checkpoint", "patch", "replay", "archive", "record"}
  /\ Steps[1] = "checkpoint"
  /\ After("checkpoint") = "patch" /\ After("patch") = "replay" /\ After("replay") = "archive"
  /\ After("archive") = "record"
<1> DEFINE at(pc) == CHOOSE i \in DOMAIN Steps : Steps[i] = pc
<1>1. /\ Len(Steps) = 5 /\ DOMAIN Steps = 1 .. 5
      /\ Steps[1] = "checkpoint" /\ Steps[2] = "patch" /\ Steps[3] = "replay"
      /\ Steps[4] = "archive" /\ Steps[5] = "record"
  BY DEF Steps
<1>2. \A i \in 1 .. 5 : i = 1 \/ i = 2 \/ i = 3 \/ i = 4 \/ i = 5 OBVIOUS
<1>3. at("checkpoint") = 1 /\ at("patch") = 2 /\ at("replay") = 3 /\ at("archive") = 4
  BY <1>1, <1>2
<1>4. \A pc : After(pc) = Steps[1 + at(pc)] BY DEF After
<1> HIDE DEF at
<1>5. /\ After("checkpoint") = "patch" /\ After("patch") = "replay"
      /\ After("replay") = "archive" /\ After("archive") = "record"
  BY <1>1, <1>3, <1>4
<1>6. Range(Steps) = {"checkpoint", "patch", "replay", "archive", "record"}
  BY <1>1, <1>2 DEF Range
<1>. QED BY <1>1, <1>5, <1>6

SealRecord == [pc : Range(Steps) \cup {"idle", "sealed", "failed", "missing"},
               ids : Seq(Nat), covers : Nat, taken : Nat, selected : Seq(Nat)]

\* Of the first k acknowledgements nothing changes when there are more.
LEMMA ToldIsKept ==
  ASSUME EventJournalAssumption, JournalInv, AckedMore, NEW k \in 0 .. Len(acked)
  PROVE  Told(k)' = Told(k)
<1>1. Len(acked) \in Nat /\ DOMAIN acked = 1 .. Len(acked) BY JournalTypes
<1>2. {i \in DOMAIN acked' : i <= k} = {i \in DOMAIN acked : i <= k}
  BY <1>1 DEF AckedMore
<1>3. \A i \in {i \in DOMAIN acked : i <= k} : acked'[i] = acked[i] BY <1>1 DEF AckedMore
<1>. QED BY <1>2, <1>3 DEF Told

\* So what covers them still does.
LEMMA CoversIsKept ==
  ASSUME EventJournalAssumption, JournalInv, AckedMore, NEW k \in 0 .. Len(acked), NEW es,
         Covers(es, k)
  PROVE  Covers(es, k)'
<1>1. Told(k)' = Told(k) BY ToldIsKept
<1>. QED BY <1>1 DEF Covers

\* A step of the journal acknowledges at most the id it draws, and an intact file only
\* gets longer.
LEMMA JournalGoesOn ==
  ASSUME EventJournalAssumption, JournalInv, Journal
  PROVE  /\ AckedMore
         /\ Intact' => /\ Intact
                       /\ \A i \in DOMAIN file : i \in DOMAIN file' /\ file'[i] = file[i]
<1>1. acked' = acked \/ acked' = Append(acked, next)
  BY DEF Journal, AppendOk, AppendFails, Crash, Restart, StartReplay, ReadPage, ReadFails
<1>2. CASE WrittenOnce
  <2>1. Intact' => /\ Intact /\ Len(file) <= Len(file')
                   /\ \A i \in 1 .. Len(file) : file'[i] = file[i]
    BY <1>2, WriteFacts DEF JournalInv
  <2>2. file \in Seq(Lines) /\ file' \in Seq(Lines)
    BY <1>2, WriteFacts, JournalTypes DEF JournalInv, FileTypes
  <2>3. DOMAIN file = 1 .. Len(file) /\ DOMAIN file' = 1 .. Len(file') BY <2>2
  <2>4. Len(file) \in Nat /\ Len(file') \in Nat BY <2>2
  <2>. QED BY <1>1, <2>1, <2>3, <2>4, AckedOnce
<1>3. CASE UNCHANGED file
  <2>1. Intact' <=> Intact BY <1>3 DEF Intact, Verified
  <2>. QED BY <1>1, <1>3, <2>1, AckedOnce
<1>4. WrittenOnce \/ UNCHANGED file
  <2>1. AppendOk => WrittenOnce BY DEF AppendOk, WrittenOnce, Kinds
  <2>2. AppendFails => WrittenOnce BY DEF AppendFails, Partial, WrittenOnce, Kinds
  <2>3. Crash => WrittenOnce \/ UNCHANGED file BY DEF Crash, WrittenOnce, Kinds
  <2>4. Restart \/ (\E r \in Readers : StartReplay(r) \/ ReadPage(r) \/ ReadFails(r))
           => UNCHANGED file
    BY DEF Restart, StartReplay, ReadPage, ReadFails
  <2>. QED BY <2>1, <2>2, <2>3, <2>4, SessionSealAssumption DEF Journal
<1>. QED BY <1>2, <1>3, <1>4

\* Of the reader that serves the seal such a step moves only one that is reading, and
\* when that comes to its end it has the whole file.
LEMMA SessionGoesOn ==
  ASSUME EventJournalAssumption, SessionSealAssumption, JournalInv, Journal
  PROVE  /\ reader'[Session].known = reader[Session].known
         /\ reader[Session].pc = "no" => reader'[Session].pc = "no"
         /\ reader'[Session].pc = "no" => reader[Session].pc = "no"
         /\ reader'[Session].pc = "done" =>
              \/ reader[Session].pc = "done" /\ reader'[Session].got = reader[Session].got
              \/ Intact /\ UNCHANGED file
                 /\ DOMAIN reader'[Session].got = DOMAIN file
                 /\ \A i \in DOMAIN file : reader'[Session].got[i].id = file[i].id
<1>1. /\ Session \in Readers /\ Caller \in Readers /\ Caller # Session
      /\ reader \in [Readers -> ReaderRecord] /\ reader[Session] \in ReaderRecord
  BY DEF SessionSealAssumption, JournalInv, TypeOK, ReaderRecord
<1>2. CASE reader'[Session] = reader[Session]
  BY <1>2
<1>3. CASE ReadPage(Session)
  <2> DEFINE old == reader[Session]
             out == Page(old.after)
  <2>1. /\ old.pc = "reading"
        /\ reader'[Session] = IF ~ Intact THEN [old EXCEPT !.pc = "error"]
                              ELSE IF out = <<>> THEN [old EXCEPT !.pc = "done"]
                              ELSE [old EXCEPT !.after = old.after + Len(out),
                                               !.got = old.got \o out]
    BY <1>1, <1>3 DEF ReadPage
  <2> HIDE DEF old, out
  <2>2. old \in ReaderRecord BY <1>1 DEF old
  <2>3. reader'[Session].known = old.known /\ reader'[Session].pc # "no"
    BY <2>1, <2>2 DEF ReaderRecord
  <2>4. UNCHANGED file BY <1>3 DEF ReadPage
  <2>5. reader'[Session].pc = "done" =>
          /\ Intact /\ DOMAIN reader'[Session].got = DOMAIN file
          /\ \A i \in DOMAIN file : reader'[Session].got[i].id = file[i].id
    BY <1>1, <1>3, PageEnds
  <2>. QED BY <2>1, <2>3, <2>4, <2>5 DEF old
<1>4. CASE ReadFails(Session)
  <2>1. reader[Session].pc = "reading" /\ reader'[Session] = [reader[Session] EXCEPT !.pc = "error"]
    BY <1>1, <1>4 DEF ReadFails
  <2>. QED BY <1>1, <2>1 DEF ReaderRecord
<1>5. \/ reader'[Session] = reader[Session] \/ ReadPage(Session) \/ ReadFails(Session)
  <2>1. CASE AppendOk \/ AppendFails \/ Crash \/ Restart
    BY <2>1 DEF AppendOk, AppendFails, Crash, Restart
  <2>2. CASE StartReplay(Caller)
    BY <1>1, <2>2 DEF StartReplay
  <2>3. ASSUME NEW r \in Readers, r # Session, ReadPage(r) \/ ReadFails(r)
        PROVE  reader'[Session] = reader[Session]
    <3>1. \E v : reader' = [reader EXCEPT ![r] = v]
      <4>1. ReadPage(r) => \E v : reader' = [reader EXCEPT ![r] = v] BY DEF ReadPage
      <4>2. ReadFails(r) => \E v : reader' = [reader EXCEPT ![r] = v] BY <1>1 DEF ReadFails
      <4>. QED BY <2>3, <4>1, <4>2
    <3>. QED BY <1>1, <2>3, <3>1
  <2>. QED BY <2>1, <2>2, <2>3 DEF Journal
<1>. QED BY <1>2, <1>3, <1>4, <1>5

\* A step of the journal changes nothing that a seal relies on.
LEMMA JournalSteps ==
  ASSUME EventJournalAssumption, SessionSealAssumption, JournalInv, SealHolds, Journal
  PROVE  SealHolds'
<1>1. /\ UNCHANGED <<seal, asked, blobs, records>> /\ AckedMore
      /\ Intact' => /\ Intact
                    /\ \A i \in DOMAIN file : i \in DOMAIN file' /\ file'[i] = file[i]
  BY JournalGoesOn DEF Journal, sealing
<1>2. /\ Len(acked) \in Nat /\ Len(acked') \in Nat /\ Len(acked) <= Len(acked')
      /\ seal.covers \in Nat /\ seal.taken \in Nat
      /\ seal.covers <= Len(acked) /\ seal.taken <= Len(acked)
      /\ seal \in SealRecord
  BY <1>1, JournalTypes DEF SealHolds, SealTypes, SealRecord, IdsInv, StepInv, AckedMore
<1>3. SealTypes' BY <1>1 DEF SealHolds, SealTypes
<1>4. NothingVanishes' BY <1>1 DEF SealHolds, NothingVanishes
<1>5. ASSUME NEW s, Promised(s), s.taken \in 0 .. Len(acked), s.covers \in 0 .. Len(acked)
      PROVE  Promised(s)'
  BY <1>1, <1>5, CoversIsKept DEF Promised
<1>6. IdsInv'
  <2>1. seal.ids # <<>> => Covers(seal.ids, seal.covers)'
    <3>1. seal.covers \in 0 .. Len(acked) BY <1>2
    <3>. QED BY <1>1, <3>1, CoversIsKept DEF SealHolds, IdsInv
  <2>2. Intact' => Range(seal.ids) \subseteq Range(Ids(file'))
    <3>1. Intact' => Range(Ids(file)) \subseteq Range(Ids(file'))
      BY <1>1 DEF Range, Ids
    <3>. QED BY <1>1, <3>1 DEF SealHolds, IdsInv
  <2>3. reader'[Session].pc = "done" =>
          Range(seal.ids) \subseteq Range(Ids(reader'[Session].got))
    <3>1. CASE reader[Session].pc = "done" /\ reader'[Session].got = reader[Session].got
      BY <3>1 DEF SealHolds, IdsInv, Finished
    <3>2. CASE /\ Intact /\ DOMAIN reader'[Session].got = DOMAIN file
               /\ \A i \in DOMAIN file : reader'[Session].got[i].id = file[i].id
      <4>1. Range(Ids(file)) \subseteq Range(Ids(reader'[Session].got))
        BY <3>2 DEF Range, Ids
      <4>. QED BY <3>2, <4>1 DEF SealHolds, IdsInv
    <3>. QED BY <3>1, <3>2, SessionGoesOn
  <2>4. seal.covers <= Len(acked') BY <1>2
  <2>6. /\ Range(Ids(file))' = Range(Ids(file'))
        /\ Range(Ids(reader[Session].got))' = Range(Ids(reader'[Session].got))
    BY DEF Range, Ids
  <2>7. Finished(Session)' <=> reader'[Session].pc = "done" BY DEF Finished
  <2>. QED BY <1>1, <2>1, <2>2, <2>3, <2>4, <2>6, <2>7 DEF IdsInv
<1>7. StepInv'
  <2>1. seal.taken <= Len(acked') BY <1>2
  <2>2. seal.pc \in {"archive", "record"} => Promised(seal)'
    <3>1. seal.taken \in 0 .. Len(acked) /\ seal.covers \in 0 .. Len(acked) BY <1>2
    <3>2. UNCHANGED seal BY <1>1
    <3>. QED BY <1>5, <3>1, <3>2 DEF SealHolds, StepInv, Promised
  <2>3. seal.pc \in {"checkpoint", "patch"} => reader'[Session].pc = "no"
    BY SessionGoesOn DEF SealHolds, StepInv
  <2>4. seal.pc = "replay" => reader'[Session].pc = "no" \/ seal.taken <= reader'[Session].known
    BY SessionGoesOn DEF SealHolds, StepInv
  <2>. QED BY <1>1, <2>1, <2>2, <2>3, <2>4 DEF SealHolds, StepInv
<1>8. ASSUME NEW r \in records
      PROVE  /\ Promised(r)' /\ {<<r.pc, "patch">>, <<r.pc, "archive">>} \subseteq blobs
             /\ r.taken \in 0 .. Len(acked') /\ r.covers \in 0 .. Len(acked')
  <2>1. /\ Promised(r) /\ {<<r.pc, "patch">>, <<r.pc, "archive">>} \subseteq blobs
        /\ r.taken \in 0 .. Len(acked) /\ r.covers \in 0 .. Len(acked)
    BY DEF SealHolds, SealCovers, RecordsInv
  <2>. QED BY <1>2, <1>5, <2>1
<1>9. SealCovers' /\ RecordsInv' BY <1>1, <1>8 DEF SealCovers, RecordsInv
<1>. QED BY <1>3, <1>4, <1>6, <1>7, <1>9 DEF SealHolds

\* A step of the plugin of the sessions, while the journal does nothing: the request
\* stays the same, and goes to a step of which the invariant says what it has by then.
LEMMA RequestGoesOn ==
  ASSUME SealHolds, UNCHANGED <<file, acked, asked>>,
         seal' \in SealRecord, seal'.pc # "missing",
         seal'.ids = seal.ids, seal'.covers = seal.covers,
         reader'[Session].pc = "done" =>
            reader[Session].pc = "done" /\ reader'[Session].got = reader[Session].got,
         StepInv', SealCovers', RecordsInv'
  PROVE  SealHolds'
<1>1. SealTypes' BY DEF SealHolds, SealTypes, SealRecord
<1>2. NothingVanishes' BY DEF NothingVanishes
<1>3. IdsInv'
  <2>1. /\ seal.covers <= Len(acked)
        /\ seal.ids # <<>> => Covers(seal.ids, seal.covers)
        /\ Intact => Range(seal.ids) \subseteq Range(Ids(file))
        /\ reader[Session].pc = "done" =>
              Range(seal.ids) \subseteq Range(Ids(reader[Session].got))
    BY DEF SealHolds, IdsInv, Finished
  <2>2. (Intact' <=> Intact) /\ Range(Ids(file))' = Range(Ids(file))
    BY DEF Intact, Verified, Range, Ids
  <2>3. (Covers(seal.ids, seal.covers))' <=> Covers(seal.ids, seal.covers)
    BY DEF Covers, Told, Range, Grows
  <2>4. reader'[Session].pc = "done" =>
          Range(seal.ids) \subseteq Range(Ids(reader'[Session].got))
    BY <2>1
  <2>5. /\ Range(Ids(reader[Session].got))' = Range(Ids(reader'[Session].got))
        /\ Range(seal.ids)' = Range(seal.ids)
    BY DEF Range, Ids
  <2>. QED BY <2>1, <2>2, <2>3, <2>4, <2>5 DEF IdsInv, Finished
<1>. QED BY <1>1, <1>2, <1>3 DEF SealHolds

\* What was sealed stays sealed while no request is.
LEMMA RecordsStay ==
  ASSUME SealHolds, UNCHANGED <<acked, records>>, blobs \subseteq blobs'
  PROVE  SealCovers' /\ RecordsInv'
<1>1. \A r \in records : Promised(r)' <=> Promised(r)
  BY DEF Promised, Covers, Told
<1>2. SealCovers' BY <1>1 DEF SealHolds, SealCovers
<1>. QED BY <1>2 DEF SealHolds, RecordsInv

\* The events a replay has brought are taken in the order of their ids, and a replay
\* that has come to its end has all that was acknowledged before it began.
LEMMA ReplaySelects ==
  ASSUME EventJournalAssumption, Inv, NEW r \in Readers, reader[r].pc = "done",
         NEW k \in Nat, k <= reader[r].known
  PROVE  LET es == Ids(reader[r].got)
         IN  es \in Seq(Nat) /\ SelectOurs(es) \in Seq(Nat) /\ Covers(SelectOurs(es), k)
             /\ Range(SelectOurs(es)) \subseteq Range(es)
<1> DEFINE es == Ids(reader[r].got)
<1>1. ReaderInv(r) BY ReplayParts DEF Inv
<1>2. /\ Len(reader[r].got) \in Nat /\ DOMAIN reader[r].got = 1 .. Len(reader[r].got)
      /\ \A i \in 1 .. Len(reader[r].got) : reader[r].got[i].id \in Nat
      /\ reader[r].known \in Nat
      /\ Len(acked) \in Nat /\ DOMAIN acked = 1 .. Len(acked)
  BY JournalTypes DEF Inv
<1>3. es \in Seq(Nat)
  <2>1. es \in [1 .. Len(reader[r].got) -> Nat] BY <1>2 DEF Ids
  <2>2. Len(reader[r].got) \in Nat BY <1>2
  <2> HIDE DEF es
  <2>. QED BY <2>1, <2>2
<1>4. Grows(es) BY <1>1 DEF ReaderInv, Reads
<1>5. \A i \in DOMAIN acked : i <= k => acked[i] \in Range(es)
  <2> SUFFICES ASSUME NEW i \in DOMAIN acked, i <= k PROVE acked[i] \in Range(es) OBVIOUS
  <2>1. i \in 1 .. reader[r].known BY <1>2
  <2>2. PICK j \in DOMAIN reader[r].got : reader[r].got[j].id = acked[i]
    BY <1>1, <2>1 DEF ReaderInv, Finished, HasKnown
  <2>. QED BY <2>2 DEF Range, Ids
<1> HIDE DEF es
<1>6. /\ SelectOurs(es) \in Seq(Nat) /\ Range(SelectOurs(es)) = Range(es) \cap Ours
      /\ Grows(SelectOurs(es))
  BY <1>3, <1>4, SelectionFacts
<1>7. Told(k) \subseteq Range(es) BY <1>5 DEF Told
<1>8. Covers(SelectOurs(es), k) BY <1>6, <1>7 DEF Covers
<1>. QED BY <1>3, <1>6, <1>8 DEF es

\* What the request is.
LEMMA SealFields ==
  ASSUME SealHolds
  PROVE  /\ seal \in SealRecord /\ seal.pc \in Range(Steps) \cup {"idle", "sealed", "failed", "missing"}
         /\ seal.ids \in Seq(Nat) /\ seal.covers \in Nat /\ seal.taken \in Nat
         /\ seal.selected \in Seq(Nat)
BY DEF SealHolds, SealTypes, SealRecord

\* A request that fails, or whose plugin dies, leaves its blobs.
LEMMA FailingSteps ==
  ASSUME EventJournalAssumption, Inv, SealHolds, UNCHANGED <<vars, asked, records>>,
         seal' = [seal EXCEPT !.pc = "failed"], blobs \subseteq blobs'
  PROVE  SealHolds'
<1>1. /\ seal' \in SealRecord /\ seal'.pc = "failed" /\ seal'.ids = seal.ids
      /\ seal'.covers = seal.covers /\ seal'.taken = seal.taken
  BY SealFields DEF SealRecord
<1>2. UNCHANGED <<file, acked, reader>> BY DEF vars
<1>3. StepInv' BY <1>1, <1>2 DEF SealHolds, StepInv
<1>. QED BY <1>1, <1>2, <1>3, RequestGoesOn, RecordsStay

\* A request begins with nothing, or with the ids of a replay the caller has finished.
LEMMA AskSteps ==
  ASSUME EventJournalAssumption, SessionSealAssumption, Inv, SealHolds, AskSeal
  PROVE  SealHolds'
<1>1. /\ UNCHANGED <<file, acked, blobs, records>> /\ asked' = asked + 1 /\ asked < MaxSeals
      /\ reader' = [reader EXCEPT ![Session] = Unread]
  BY DEF AskSeal, journal
<1>2. reader'[Session] = Unread /\ Unread.pc = "no"
  BY <1>1 DEF Inv, JournalInv, TypeOK, SessionSealAssumption, Unread
<1>3. PICK ids \in Seq(Nat), covers \in Nat :
        /\ seal' = Request(ids, covers) /\ covers <= Len(acked)
        /\ ids # <<>> => Covers(ids, covers)
        /\ Intact => Range(ids) \subseteq Range(Ids(file))
  <2>1. CASE seal' = Request(<<>>, 0)
    <3>1. Len(acked) \in Nat BY JournalTypes DEF Inv
    <3>2. Range(<<>>) = {} /\ <<>> \in Seq(Nat) /\ 0 \in Nat BY DEF Range
    <3>3. /\ seal' = Request(<<>>, 0) /\ 0 <= Len(acked)
          /\ <<>> # <<>> => Covers(<<>>, 0)
          /\ Intact => Range(<<>>) \subseteq Range(Ids(file))
      BY <2>1, <3>1, <3>2
    <3>. QED BY <3>2, <3>3, Zenon
  <2>2. CASE /\ reader[Caller].pc = "done"
             /\ seal' = Request(SelectOurs(Ids(reader[Caller].got)), reader[Caller].known)
    <3> DEFINE es == Ids(reader[Caller].got)
               known == reader[Caller].known
    <3>1. Caller \in Readers /\ known \in Nat /\ known <= Len(acked)
      BY JournalTypes DEF SessionSealAssumption, Inv, ReplayInv
    <3>2. /\ SelectOurs(es) \in Seq(Nat) /\ Covers(SelectOurs(es), known)
          /\ Range(SelectOurs(es)) \subseteq Range(es)
      BY <2>2, <3>1, ReplaySelects
    <3>3. Intact => Range(es) \subseteq Range(Ids(file))
      <4>1. Intact => /\ Len(reader[Caller].got) <= Len(file)
                      /\ \A i \in DOMAIN reader[Caller].got : reader[Caller].got[i].id = file[i].id
        BY <2>2, <3>1 DEF Inv, JournalInv, ReadIsOnDisk, Reads
      <4>2. /\ Len(file) \in Nat /\ DOMAIN file = 1 .. Len(file)
            /\ Len(reader[Caller].got) \in Nat
            /\ DOMAIN reader[Caller].got = 1 .. Len(reader[Caller].got)
        BY <3>1, JournalTypes DEF Inv
      <4>3. Intact => \A i \in DOMAIN reader[Caller].got :
                         i \in DOMAIN file /\ reader[Caller].got[i].id = file[i].id
        BY <4>1, <4>2
      <4>. QED BY <4>3 DEF Range, Ids
    <3> HIDE DEF es, known
    <3>4. seal' = Request(SelectOurs(es), known) BY <2>2 DEF es, known
    <3>. QED BY <3>1, <3>2, <3>3, <3>4
  <2>. QED BY <2>1, <2>2 DEF AskSeal
<1>4. /\ seal' = [pc |-> "checkpoint", ids |-> ids, covers |-> covers, taken |-> 0,
                  selected |-> <<>>]
      /\ seal' \in SealRecord /\ seal'.pc = "checkpoint" /\ seal'.ids = ids
      /\ seal'.covers = covers /\ seal'.taken = 0
  <2>1. <<>> \in Seq(Nat) /\ 0 \in Nat OBVIOUS
  <2>. QED BY <1>3, <2>1, StepNames DEF Request, SealRecord
<1>5. SealTypes'
  <2>1. asked' \in 0 .. MaxSeals BY <1>1 DEF SealHolds, SealTypes, SessionSealAssumption
  <2>. QED BY <1>4, <2>1 DEF SealTypes, SealRecord
<1>6. NothingVanishes' BY <1>4 DEF NothingVanishes
<1>7. IdsInv'
  <2>1. (Intact' <=> Intact) /\ Range(Ids(file))' = Range(Ids(file))
    BY <1>1 DEF Intact, Verified, Range, Ids
  <2>2. (Covers(seal.ids, seal.covers))' <=> Covers(ids, covers)
    BY <1>1, <1>4 DEF Covers, Told, Range, Grows
  <2>3. ~ Finished(Session)' BY <1>2 DEF Finished
  <2>4. Range(seal.ids)' = Range(ids) BY <1>4 DEF Range
  <2>. QED BY <1>1, <1>3, <1>4, <2>1, <2>2, <2>3, <2>4 DEF IdsInv
<1>8. StepInv'
  <2>1. 0 <= Len(acked) BY JournalTypes DEF Inv
  <2>. QED BY <1>1, <1>2, <1>4, <2>1 DEF StepInv
<1>9. SealCovers' /\ RecordsInv' BY <1>1, RecordsStay
<1>. QED BY <1>5, <1>6, <1>7, <1>8, <1>9 DEF SealHolds

\* buildCheckpoint, before any replay for the request has begun.
LEMMA CheckpointSteps ==
  ASSUME EventJournalAssumption, Inv, SealHolds, Checkpoint
  PROVE  SealHolds'
<1>1. UNCHANGED <<vars, asked, blobs, records>> /\ seal.pc = "checkpoint" BY DEF Checkpoint
<1>2. CASE Goto("failed") BY <1>1, <1>2, FailingSteps DEF Goto
<1>3. CASE seal' = [seal EXCEPT !.pc = After("checkpoint"), !.taken = Len(acked)]
  <2>1. Len(acked) \in Nat BY JournalTypes DEF Inv
  <2>2. seal' = [seal EXCEPT !.pc = "patch", !.taken = Len(acked)] BY <1>3, StepNames
  <2>3. /\ seal' \in SealRecord /\ seal'.pc = "patch" /\ seal'.ids = seal.ids
        /\ seal'.covers = seal.covers /\ seal'.taken = Len(acked)
    BY <2>1, <2>2, SealFields, StepNames DEF SealRecord
  <2>4. UNCHANGED <<file, acked, reader>> BY <1>1 DEF vars
  <2>5. reader[Session].pc = "no" BY <1>1 DEF SealHolds, StepInv
  <2>6. StepInv' BY <2>1, <2>3, <2>4, <2>5 DEF StepInv
  <2>. QED BY <1>1, <2>3, <2>4, <2>6, RequestGoesOn, RecordsStay
<1>. QED BY <1>2, <1>3 DEF Checkpoint

\* blob.put.
LEMMA BlobSteps ==
  ASSUME EventJournalAssumption, Inv, SealHolds, NEW pc \in {"patch", "archive"}, PutBlob(pc)
  PROVE  SealHolds'
<1>1. UNCHANGED <<vars, asked, records>> /\ seal.pc = pc /\ blobs \subseteq blobs'
  BY DEF PutBlob
<1>2. CASE Goto("failed") BY <1>1, <1>2, FailingSteps DEF Goto
<1>3. CASE blobs' = blobs \cup {<<asked, pc>>} /\ Goto(After(pc))
  <2>1. /\ seal' \in SealRecord /\ seal'.pc = After(pc) /\ seal'.ids = seal.ids
        /\ seal'.covers = seal.covers /\ seal'.taken = seal.taken
        /\ seal'.selected = seal.selected
    BY <1>3, SealFields, StepNames DEF SealRecord, Goto
  <2>2. UNCHANGED <<file, acked, reader>> BY <1>1 DEF vars
  <2>3. Promised(seal)' <=> Promised(seal)
    BY <2>1, <2>2 DEF Promised, Covers, Told, Range, Grows
  <2>4. CASE pc = "patch"
    <3>1. seal'.pc = "replay" /\ reader[Session].pc = "no" /\ <<asked, "patch">> \in blobs'
      BY <1>1, <1>3, <2>1, <2>4, StepNames DEF SealHolds, StepInv
    <3>2. StepInv' BY <1>1, <2>1, <2>2, <3>1 DEF SealHolds, StepInv
    <3>. QED BY <1>1, <2>1, <2>2, <3>1, <3>2, RequestGoesOn, RecordsStay
  <2>5. CASE pc = "archive"
    <3>1. /\ seal'.pc = "record" /\ <<asked, "archive">> \in blobs'
          /\ <<asked, "patch">> \in blobs' /\ Promised(seal)
      BY <1>1, <1>3, <2>1, <2>5, StepNames DEF SealHolds, StepInv
    <3>2. StepInv' BY <1>1, <2>1, <2>2, <2>3, <3>1 DEF SealHolds, StepInv
    <3>. QED BY <1>1, <2>1, <2>2, <3>1, <3>2, RequestGoesOn, RecordsStay
  <2>. QED BY <2>4, <2>5
<1>. QED BY <1>2, <1>3 DEF PutBlob

\* The replay of a seal begins after its checkpoint.
LEMMA BeginSteps ==
  ASSUME EventJournalAssumption, SessionSealAssumption, Inv, SealHolds, BeginReplay
  PROVE  SealHolds'
<1>1. /\ UNCHANGED <<seal, asked, blobs, records, file, acked>> /\ seal.pc = "replay"
      /\ reader' = [reader EXCEPT ![Session].pc = "reading", ![Session].known = Len(acked)]
  BY DEF BeginReplay, StartReplay, sealing
<1>2. reader'[Session].pc = "reading" /\ reader'[Session].known = Len(acked)
  BY <1>1 DEF Inv, JournalInv, TypeOK, SessionSealAssumption
<1>3. StepInv' BY <1>1, <1>2 DEF SealHolds, StepInv
<1>. QED BY <1>1, <1>2, <1>3, SealFields, RequestGoesOn, RecordsStay

\* What is selected, from a replay that has come to its end.
LEMMA SelectSteps ==
  ASSUME EventJournalAssumption, SessionSealAssumption, Inv, SealHolds, Select
  PROVE  SealHolds'
<1> DEFINE es == Ids(reader[Session].got)
<1>1. /\ UNCHANGED <<vars, asked, blobs, records>> /\ seal.pc = "replay"
      /\ reader[Session].pc = "done"
  BY DEF Select
<1>2. UNCHANGED <<file, acked, reader>> BY <1>1 DEF vars
<1>3. Session \in Readers BY SessionSealAssumption DEF SessionSealAssumption
<1>4. /\ seal.taken \in Nat /\ seal.taken <= reader[Session].known
      /\ <<asked, "patch">> \in blobs /\ seal.taken <= Len(acked)
      /\ seal.ids # <<>> => Covers(seal.ids, seal.covers)
      /\ Range(seal.ids) \subseteq Range(es)
  BY <1>1, SealFields DEF SealHolds, StepInv, IdsInv, Finished
<1>5. SelectOurs(es) \in Seq(Nat) /\ Covers(SelectOurs(es), seal.taken)
  BY <1>1, <1>3, <1>4, ReplaySelects
<1>6. ASSUME NEW chosen \in Seq(Nat),
             Covers(chosen, IF seal.ids = <<>> THEN seal.taken ELSE seal.covers),
             seal' = [seal EXCEPT !.pc = "archive", !.selected = chosen]
      PROVE  SealHolds'
  <2>1. /\ seal' \in SealRecord /\ seal'.pc = "archive" /\ seal'.ids = seal.ids
        /\ seal'.covers = seal.covers /\ seal'.taken = seal.taken /\ seal'.selected = chosen
    BY <1>6, SealFields, StepNames DEF SealRecord
  <2>2. Promised(seal)'
    BY <1>2, <1>6, <2>1 DEF Promised, Covers, Told, Range, Grows
  <2>3. StepInv' BY <1>1, <1>2, <1>4, <2>1, <2>2 DEF StepInv
  <2>. QED BY <1>1, <1>2, <2>1, <2>3, RequestGoesOn, RecordsStay
<1> HIDE DEF es
<1>7. CASE seal.ids = <<>>
  <2>1. seal' = [seal EXCEPT !.pc = "archive", !.selected = SelectOurs(es)]
    BY <1>7, StepNames DEF Select, es
  <2>. QED BY <1>5, <1>6, <1>7, <2>1
<1>8. CASE seal.ids # <<>>
  <2>1. \A i \in DOMAIN seal.ids : \E j \in DOMAIN es : es[j] = seal.ids[i]
    BY <1>4 DEF Range
  <2>2. seal' = [seal EXCEPT !.pc = "archive", !.selected = seal.ids]
    BY <1>8, <2>1, StepNames DEF Select, es
  <2>. QED BY <1>4, <1>6, <1>8, <2>2, SealFields
<1>. QED BY <1>7, <1>8

\* Store.Record: what is recorded is what was promised.
LEMMA RecordSteps ==
  ASSUME EventJournalAssumption, Inv, SealHolds, Record
  PROVE  SealHolds'
<1>1. UNCHANGED <<vars, asked, blobs>> /\ seal.pc = "record" BY DEF Record
<1>2. CASE Goto("failed") /\ UNCHANGED records BY <1>1, <1>2, FailingSteps DEF Goto
<1>3. CASE records' = records \cup {[seal EXCEPT !.pc = asked]} /\ Goto("sealed")
  <2> DEFINE new == [seal EXCEPT !.pc = asked]
  <2>1. /\ seal' \in SealRecord /\ seal'.pc = "sealed" /\ seal'.ids = seal.ids
        /\ seal'.covers = seal.covers /\ seal'.taken = seal.taken
    BY <1>3, SealFields DEF SealRecord, Goto
  <2>2. /\ new.pc = asked /\ new.ids = seal.ids /\ new.covers = seal.covers
        /\ new.taken = seal.taken /\ new.selected = seal.selected
    BY SealFields DEF SealRecord
  <2> HIDE DEF new
  <2>3. UNCHANGED <<file, acked, reader>> BY <1>1 DEF vars
  <2>4. /\ Promised(seal) /\ <<asked, "patch">> \in blobs /\ <<asked, "archive">> \in blobs
    BY <1>1 DEF SealHolds, StepInv
  <2>5. Promised(new) BY <2>2, <2>4 DEF Promised
  <2>6. \A r \in records \cup {new} :
          Promised(r) /\ {<<r.pc, "patch">>, <<r.pc, "archive">>} \subseteq blobs
    BY <2>2, <2>4, <2>5 DEF SealHolds, SealCovers
  <2>7. \A r : Promised(r)' <=> Promised(r) BY <2>3 DEF Promised, Covers, Told
  <2>8. records' = records \cup {new} BY <1>3 DEF new
  <2>9. SealCovers' BY <1>1, <2>6, <2>7, <2>8 DEF SealCovers
  <2>10. RecordsInv'
    <3>1. seal.taken \in 0 .. Len(acked) /\ seal.covers \in 0 .. Len(acked)
      BY SealFields, JournalTypes DEF SealHolds, StepInv, IdsInv, Inv
    <3>. QED BY <2>2, <2>3, <2>8, <3>1 DEF SealHolds, RecordsInv
  <2>11. StepInv' BY <2>1, <2>3 DEF SealHolds, StepInv
  <2>. QED BY <1>1, <2>1, <2>3, <2>9, <2>10, <2>11, RequestGoesOn
<1>. QED BY <1>2, <1>3 DEF Record

\* Every step, of the journal or of a seal.
LEMMA EachStepSeals ==
  ASSUME EventJournalAssumption, SessionSealAssumption, Inv, SealHolds, [SealNext]_sealVars
  PROVE  SealHolds'
<1>1. CASE Journal BY <1>1, JournalSteps DEF Inv
<1>2. CASE ReplayFails \/ PluginDies
  BY <1>2, FailingSteps DEF ReplayFails, PluginDies, Goto
<1>3. CASE UNCHANGED sealVars
  <2>1. UNCHANGED <<file, acked, reader, seal, asked, blobs, records>>
    BY <1>3 DEF sealVars, vars, sealing
  <2>2. StepInv'
    <3>1. Promised(seal)' <=> Promised(seal) BY <2>1 DEF Promised, Covers, Told, Range, Grows
    <3>. QED BY <2>1, <3>1 DEF SealHolds, StepInv
  <2>3. seal.pc # "missing" BY DEF SealHolds, NothingVanishes
  <2>. QED BY <2>1, <2>2, <2>3, SealFields, RequestGoesOn, RecordsStay
<1>. QED BY <1>1, <1>2, <1>3, AskSteps, CheckpointSteps, BlobSteps, BeginSteps, SelectSteps,
            RecordSteps DEF SealNext, Seal

\* Nothing is sealed at first.
LEMMA SealStarts ==
  ASSUME EventJournalAssumption, SessionSealAssumption, SealInit
  PROVE  SealHolds
<1>1. /\ seal = [Request(<<>>, 0) EXCEPT !.pc = "idle"] /\ asked = 0 /\ records = {}
      /\ reader = [r \in Readers |-> [pc |-> "no", after |-> 0, got |-> <<>>, known |-> 0]]
      /\ acked = <<>>
  BY DEF SealInit, Init
<1>2. <<>> \in Seq(Nat) /\ Len(<<>>) = 0 /\ Range(<<>>) = {} BY DEF Range
<1>3. /\ seal \in SealRecord /\ seal.pc = "idle" /\ seal.ids = <<>> /\ seal.covers = 0
      /\ seal.taken = 0
  BY <1>1, <1>2, StepNames DEF Request, SealRecord
<1>4. SealTypes BY <1>1, <1>3 DEF SealTypes, SealRecord, SessionSealAssumption
<1>5. NothingVanishes /\ SealCovers /\ RecordsInv
  BY <1>1, <1>3 DEF NothingVanishes, SealCovers, RecordsInv
<1>6. IdsInv BY <1>1, <1>2, <1>3 DEF IdsInv
<1>7. StepInv BY <1>1, <1>2, <1>3 DEF StepInv
<1>. QED BY <1>4, <1>5, <1>6, <1>7 DEF SealHolds

\* A session that is sealed can be trusted: its archive covers all reported work that its
\* checkpoint shows, its blobs are there, and no seal is refused for an event that was
\* replayed before (sealOnce, sealHandler).
THEOREM SealsCanBeTrusted == SealSpec => []SealHolds
<1>1. SealInit => Inv /\ UndamagedInv /\ SealHolds
  BY EventJournalAssumption, SessionSealAssumption, Initially, ReplayStarts, SealStarts
     DEF SealInit, Inv
<1>2. Inv /\ UndamagedInv /\ SealHolds /\ [SealNext]_sealVars
        => (Inv /\ UndamagedInv /\ SealHolds)'
  BY EventJournalAssumption, SessionSealAssumption, SealKeeps, EachStepSeals
<1>. QED BY <1>1, <1>2, PTL DEF SealSpec
=============================================================================
