-------------------------- MODULE WorkRegistryProofs --------------------------
(***************************************************************************)
(* The storage of an authority, for any set of records and any number of   *)
(* lines, torn writes and deaths; and the work registry on top of it, for  *)
(* any tasks, keys, pieces of evidence and clients.                        *)
(***************************************************************************)
EXTENDS WorkRegistry, FiniteSetTheorems, WellFoundedInduction, TLAPS

\* The log with records of any kind: of what a record is, only the registry speaks.
LogOf(R) == INSTANCE RecordLog WITH Record <- R

USE LogBoundsAssumption DEF LogOf!SyncedUpTo, LogOf!NextSeq

(* The fields of lines and entries, and of the ones in the sequences. *)
LEMMA LineFields ==
    ASSUME NEW R
    PROVE
    /\ \A l \in LogOf(R)!Line : l.rec \in R /\ l.seq \in Nat /\ l.ok \in BOOLEAN
    /\ \A r \in R, n \in Nat, b \in BOOLEAN : [rec |-> r, seq |-> n, ok |-> b] \in LogOf(R)!Line
    /\ \A e \in LogOf(R)!Entry : e.rec \in R /\ e.seq \in Nat /\ e = [rec |-> e.rec, seq |-> e.seq]
    /\ \A r \in R, n \in Nat : [rec |-> r, seq |-> n] \in LogOf(R)!Entry
BY DEF LogOf!Line, LogOf!Entry

(* Every line of the file and every entry of the memory is one of its type. *)
LEMMA Members ==
    ASSUME NEW R, LogOf(R)!TypeOK
    PROVE  /\ Len(file) \in Nat /\ Len(acked) \in Nat /\ Len(mem) \in Nat
           /\ file \in Seq(LogOf(R)!Line)
           /\ acked \in Seq(LogOf(R)!Entry) /\ mem \in Seq(LogOf(R)!Entry)
           /\ \A i \in 1..Len(file) :
                /\ file[i] \in LogOf(R)!Line
                /\ file[i].rec \in R /\ file[i].seq \in Nat /\ file[i].ok \in BOOLEAN
           /\ \A k \in 1..Len(acked) : acked[k] \in LogOf(R)!Entry /\ acked[k].seq \in Nat
<1>1. file \in Seq(LogOf(R)!Line) /\ acked \in Seq(LogOf(R)!Entry) /\ mem \in Seq(LogOf(R)!Entry)
  BY DEF LogOf!TypeOK
<1>2. Len(file) \in Nat /\ Len(acked) \in Nat /\ Len(mem) \in Nat
  BY <1>1
<1>3. \A i \in 1..Len(file) : file[i] \in LogOf(R)!Line
  BY <1>1
<1>4. \A k \in 1..Len(acked) : acked[k] \in LogOf(R)!Entry
  BY <1>1
<1> QED BY <1>1, <1>2, <1>3, <1>4, LineFields

(* The instance counts as the standard module does. *)
LEMMA Count == ASSUME NEW R, NEW S PROVE LogOf(R)!Cardinality(S) = Cardinality(S)
BY DEF LogOf!Cardinality, Cardinality

(* A sequence and the same with one element more. *)
LEMMA AppendFacts ==
    ASSUME NEW S, NEW s \in Seq(S), NEW e \in S
    PROVE  /\ Append(s, e) \in Seq(S)
           /\ Len(s) \in Nat
           /\ Len(Append(s, e)) = Len(s) + 1
           /\ \A k \in 1..Len(s) : Append(s, e)[k] = s[k]
           /\ Append(s, e)[Len(s) + 1] = e
OBVIOUS

(* What the three ways of writing a line do to the file. *)
LEMMA PutFacts ==
    ASSUME NEW R, LogOf(R)!TypeOK, LogOf(R)!SyncInv, NEW r \in R, NEW ok \in BOOLEAN,
           LogOf(R)!CanAppend, file' = LogOf(R)!Written(r, ok)
    PROVE  /\ file' \in Seq(LogOf(R)!Line)
           /\ Len(file') >= synced
           /\ Len(file') > 0
           /\ \A i \in 1..synced : file'[i] = file[i]
           /\ \A i \in 1..Len(file) : i # Len(file') => file'[i] = file[i]
           /\ ended => /\ Len(file') = Len(file) + 1
                       /\ file'[Len(file')].rec = r /\ file'[Len(file')].seq = seq + 1
                       /\ ok => file'[Len(file')].ok
           /\ ~ended => /\ Len(file') = Len(file) /\ ~file'[Len(file')].ok
                        /\ file'[Len(file)].rec = file[Len(file)].rec
                        /\ file'[Len(file)].seq = file[Len(file)].seq
<1> DEFINE l == [rec |-> r, seq |-> seq + 1, ok |-> ok]
<1>0. /\ l \in LogOf(R)!Line /\ file' = LogOf(R)!Put(l)
      /\ file \in Seq(LogOf(R)!Line) /\ synced \in 0..Len(file) /\ Len(file) \in Nat
  <2>1. /\ seq + 1 \in Nat
        /\ file \in Seq(LogOf(R)!Line) /\ synced \in 0..Len(file) /\ Len(file) \in Nat
    BY DEF LogOf!TypeOK
  <2>2. l \in LogOf(R)!Line
    BY <2>1, LineFields
  <2>3. file' = LogOf(R)!Put(l)
    BY DEF LogOf!Written
  <2> QED BY <2>1, <2>2, <2>3
<1> HIDE DEF l
<1>1. CASE ended
  <2>1. file' = Append(file, l)
    BY <1>0, <1>1 DEF LogOf!Put
  <2>2. file' \in Seq(LogOf(R)!Line) /\ Len(file') = Len(file) + 1 /\ file'[Len(file')] = l
    BY <1>0, <2>1
  <2>3. \A i \in 1..Len(file) : file'[i] = file[i]
    BY <1>0, <2>1
  <2>4. 1..synced \subseteq 1..Len(file)
    BY <1>0
  <2>5. l.rec = r /\ l.seq = seq + 1 /\ (ok => l.ok)
    BY DEF l
  <2> QED BY <1>0, <1>1, <2>2, <2>3, <2>4, <2>5
<1>2. CASE ~ended
  <2>1. synced < Len(file) /\ Len(file) \in 1..Len(file)
    BY <1>2 DEF LogOf!TypeOK, LogOf!SyncInv
  <2>2. file' = [file EXCEPT ![Len(file)] = LogOf(R)!Spoiled(file[Len(file)])]
    BY <1>0, <1>2 DEF LogOf!Put
  <2>6. /\ LogOf(R)!Spoiled(file[Len(file)]) \in LogOf(R)!Line
        /\ ~LogOf(R)!Spoiled(file[Len(file)]).ok
        /\ LogOf(R)!Spoiled(file[Len(file)]).rec = file[Len(file)].rec
        /\ LogOf(R)!Spoiled(file[Len(file)]).seq = file[Len(file)].seq
    BY <1>0, <2>1, LineFields, Members DEF LogOf!Spoiled
  <2>3. file' \in Seq(LogOf(R)!Line) /\ Len(file') = Len(file)
    BY <1>0, <2>1, <2>2, <2>6
  <2>4. \A i \in 1..Len(file) : i # Len(file) => file'[i] = file[i]
    BY <1>0, <2>1, <2>2
  <2>5. file'[Len(file')] = LogOf(R)!Spoiled(file[Len(file)])
    BY <1>0, <2>1, <2>2, <2>3, <2>6
  <2>7. \A i \in 1..synced : i \in 1..Len(file) /\ i # Len(file)
    BY <1>0, <2>1
  <2> QED BY <1>0, <1>2, <2>1, <2>3, <2>4, <2>5, <2>6, <2>7
<1> QED BY <1>1, <1>2 DEF LogOf!TypeOK

(* The torn lines are some of the file's, so they can be counted. *)
LEMMA TornFinite ==
    ASSUME NEW R, LogOf(R)!TypeOK
    PROVE  IsFiniteSet(LogOf(R)!Torn) /\ Cardinality(LogOf(R)!Torn) \in Nat
<1>1. Len(file) \in Nat BY DEF LogOf!TypeOK
<1>2. IsFiniteSet(1..Len(file)) BY <1>1, FS_Interval
<1>3. LogOf(R)!Torn \in SUBSET (1..Len(file)) BY DEF LogOf!Torn
<1>4. IsFiniteSet(LogOf(R)!Torn) BY <1>2, <1>3, FS_Subset
<1> QED BY <1>4, FS_CardinalityType

(* Lines that heal, or are cut off, cost no tear. *)
LEMMA TornShrinks ==
    ASSUME NEW R, LogOf(R)!TypeOK, LogOf(R)!TornInv,
           LogOf(R)!Torn' \subseteq LogOf(R)!Torn, tears' = tears
    PROVE  LogOf(R)!TornInv'
<1>1. IsFiniteSet(LogOf(R)!Torn) /\ Cardinality(LogOf(R)!Torn) \in Nat BY TornFinite
<1>2. LogOf(R)!Torn' \in SUBSET LogOf(R)!Torn OBVIOUS
<1>3. /\ IsFiniteSet(LogOf(R)!Torn')
      /\ Cardinality(LogOf(R)!Torn') <= Cardinality(LogOf(R)!Torn)
  BY <1>1, <1>2, FS_Subset
<1>4. Cardinality(LogOf(R)!Torn') \in Nat BY <1>3, FS_CardinalityType
<1>5. tears \in Nat BY DEF LogOf!TypeOK
<1> QED BY <1>1, <1>3, <1>4, <1>5, Count DEF LogOf!TornInv

(* A tear is paid for the one line it breaks. *)
LEMMA TornGrows ==
    ASSUME NEW R, LogOf(R)!TypeOK, LogOf(R)!TornInv, NEW x,
           LogOf(R)!Torn' \subseteq LogOf(R)!Torn \cup {x}, tears' = tears + 1
    PROVE  LogOf(R)!TornInv'
<1> DEFINE T == LogOf(R)!Torn \cup {x}
<1>1. IsFiniteSet(LogOf(R)!Torn) /\ Cardinality(LogOf(R)!Torn) \in Nat BY TornFinite
<1>2. /\ IsFiniteSet(T)
      /\ Cardinality(T) = IF x \in LogOf(R)!Torn THEN Cardinality(LogOf(R)!Torn)
                          ELSE Cardinality(LogOf(R)!Torn) + 1
  BY <1>1, FS_AddElement
<1>3. Cardinality(T) \in Nat /\ Cardinality(T) <= Cardinality(LogOf(R)!Torn) + 1
  BY <1>1, <1>2
<1>4. LogOf(R)!Torn' \in SUBSET T OBVIOUS
<1> HIDE DEF T
<1>5. IsFiniteSet(LogOf(R)!Torn') /\ Cardinality(LogOf(R)!Torn') <= Cardinality(T)
  BY <1>2, <1>4, FS_Subset
<1>6. Cardinality(LogOf(R)!Torn') \in Nat BY <1>5, FS_CardinalityType
<1>7. tears \in Nat BY DEF LogOf!TypeOK
<1> QED BY <1>1, <1>3, <1>5, <1>6, <1>7, Count DEF LogOf!TornInv

(* Writing a line makes no other line a torn one, nor its own if it is whole. *)
LEMMA TornByPut ==
    ASSUME NEW R, LogOf(R)!TypeOK, LogOf(R)!SyncInv, NEW r \in R, NEW ok \in BOOLEAN,
           LogOf(R)!CanAppend, file' = LogOf(R)!Written(r, ok), ended' \in BOOLEAN
    PROVE  /\ LogOf(R)!Torn' \subseteq LogOf(R)!Torn \cup {Len(file')}
           /\ ok /\ ended' => LogOf(R)!Torn' \subseteq LogOf(R)!Torn
<1>1. /\ Len(file) \in Nat /\ synced \in Nat /\ ended \in BOOLEAN
      /\ ~ended => Len(file) \in 1..Len(file)
  BY DEF LogOf!TypeOK, LogOf!SyncInv
<1>2. /\ \A i \in 1..Len(file) : i # Len(file') => file'[i] = file[i]
      /\ ended => /\ Len(file') = Len(file) + 1
                  /\ ok => file'[Len(file')].ok
      /\ ~ended => Len(file') = Len(file)
  BY PutFacts
<1>3. ASSUME NEW i \in LogOf(R)!Torn', i # Len(file') PROVE i \in LogOf(R)!Torn
  <2>1. i \in 1..Len(file') /\ ~file'[i].ok BY <1>3 DEF LogOf!Torn
  <2>2. i \in 1..Len(file) BY <1>1, <1>2, <1>3, <2>1
  <2> QED BY <1>2, <1>3, <2>1, <2>2 DEF LogOf!Torn
<1>4. ASSUME ok, ended', Len(file') \in LogOf(R)!Torn' PROVE Len(file') \in LogOf(R)!Torn
  <2>1. ~file'[Len(file')].ok BY <1>4 DEF LogOf!Torn
  <2>2. ~ended BY <1>2, <1>4, <2>1
  <2> QED BY <1>1, <1>2, <2>2 DEF LogOf!Torn
<1> QED BY <1>3, <1>4

(* An acknowledged append keeps the invariant. *)
LEMMA AppendRecordStep ==
    ASSUME NEW R, LogOf(R)!IInv, NEW r \in R, LogOf(R)!AppendRecord(r)
    PROVE  LogOf(R)!IInv'
<1> DEFINE e == [rec |-> r, seq |-> seq + 1]
<1>1. /\ file' \in Seq(LogOf(R)!Line)
      /\ Len(file') > synced
      /\ Len(file') > 0
      /\ \A i \in 1..synced : file'[i] = file[i]
      /\ ended => /\ Len(file') = Len(file) + 1
                  /\ file'[Len(file')].rec = r /\ file'[Len(file')].seq = seq + 1
                  /\ file'[Len(file')].ok
      /\ ~ended => Len(file') = Len(file) /\ ~file'[Len(file')].ok
  <2>1. /\ LogOf(R)!CanAppend /\ file' = LogOf(R)!Written(r, TRUE)
        /\ LogOf(R)!TypeOK /\ LogOf(R)!SyncInv
    BY DEF LogOf!IInv, LogOf!AppendRecord
  <2>2. /\ file' \in Seq(LogOf(R)!Line)
        /\ Len(file') >= synced
        /\ Len(file') > 0
        /\ \A i \in 1..synced : file'[i] = file[i]
        /\ ended => /\ Len(file') = Len(file) + 1
                    /\ file'[Len(file')].rec = r /\ file'[Len(file')].seq = seq + 1
                    /\ file'[Len(file')].ok
        /\ ~ended => Len(file') = Len(file) /\ ~file'[Len(file')].ok
    BY <2>1, PutFacts
  <2>3. Len(file) \in Nat /\ synced \in 0..Len(file) /\ (~ended => synced < Len(file))
    BY <2>1 DEF LogOf!TypeOK, LogOf!SyncInv
  <2> QED BY <2>2, <2>3
<1>2. /\ acked' = Append(acked, e) /\ mem' = Append(mem, e)
      /\ acked \in Seq(LogOf(R)!Entry) /\ mem \in Seq(LogOf(R)!Entry)
  BY DEF LogOf!AppendRecord, LogOf!IInv, LogOf!TypeOK
<1>3. e \in LogOf(R)!Entry /\ e.rec = r /\ e.seq = seq + 1 /\ seq + 1 \in Nat
  BY LineFields DEF LogOf!IInv, LogOf!TypeOK
<1>10. /\ acked' \in Seq(LogOf(R)!Entry) /\ mem' \in Seq(LogOf(R)!Entry)
       /\ Len(acked') = Len(acked) + 1 /\ Len(mem') = Len(mem) + 1
       /\ \A k \in 1..Len(acked) : acked'[k] = acked[k]
       /\ \A k \in 1..Len(mem) : mem'[k] = mem[k]
       /\ acked'[Len(acked) + 1].rec = r /\ acked'[Len(acked) + 1].seq = seq + 1
       /\ acked'[Len(acked) + 1] = mem'[Len(mem) + 1]
       /\ Len(acked) \in Nat /\ Len(mem) \in Nat
  <2> HIDE DEF e
  <2>1. /\ acked' \in Seq(LogOf(R)!Entry)
        /\ Len(acked) \in Nat
        /\ Len(acked') = Len(acked) + 1
        /\ \A k \in 1..Len(acked) : acked'[k] = acked[k]
        /\ acked'[Len(acked) + 1] = e
    BY <1>2, <1>3, AppendFacts
  <2>2. /\ mem' \in Seq(LogOf(R)!Entry)
        /\ Len(mem) \in Nat
        /\ Len(mem') = Len(mem) + 1
        /\ \A k \in 1..Len(mem) : mem'[k] = mem[k]
        /\ mem'[Len(mem) + 1] = e
    BY <1>2, <1>3, AppendFacts
  <2> QED BY <1>3, <2>1, <2>2
<1>11. \A k \in 1..Len(acked) : acked[k].seq \in Nat /\ acked[k].seq <= seq
  BY Members DEF LogOf!IInv, LogOf!SeqInv, LogOf!AppendRecord, LogOf!CanAppend
<1> HIDE DEF e
<1>4. LogOf(R)!TypeOK'
  <2>1. /\ seq' = seq + 1 /\ ended' = TRUE /\ synced' = Len(file')
        /\ UNCHANGED <<state, tears, deaths>>
    BY DEF LogOf!AppendRecord
  <2> QED BY <1>1, <1>3, <1>10, <2>1 DEF LogOf!IInv, LogOf!TypeOK
<1>5. LogOf(R)!SyncInv'
  BY DEF LogOf!SyncInv, LogOf!AppendRecord
<1>6. LogOf(R)!DurableInv'
  <2> SUFFICES ASSUME NEW k \in 1..Len(acked')
               PROVE  \E i \in 1..synced' :
                        \/ ~file'[i].ok
                        \/ file'[i].rec = acked'[k].rec /\ file'[i].seq = acked'[k].seq
    BY DEF LogOf!DurableInv
  <2>1. synced' = Len(file') /\ synced \in 0..Len(file)
    BY DEF LogOf!AppendRecord, LogOf!IInv, LogOf!TypeOK
  <2>2. CASE k \in 1..Len(acked)
    <3>1. acked'[k] = acked[k]
      BY <1>10, <2>2
    <3>2. PICK i \in 1..synced :
            ~file[i].ok \/ (file[i].rec = acked[k].rec /\ file[i].seq = acked[k].seq)
      BY <2>2 DEF LogOf!IInv, LogOf!DurableInv
    <3>3. i \in 1..synced'
      BY <1>1, <2>1
    <3> QED BY <1>1, <3>1, <3>2, <3>3
  <2>3. CASE k = Len(acked) + 1
    <3>1. acked'[k].rec = r /\ acked'[k].seq = seq + 1
      BY <1>10, <2>3
    <3>2. ~file'[Len(file')].ok \/ (file'[Len(file')].rec = r /\ file'[Len(file')].seq = seq + 1)
      BY <1>1
    <3>3. Len(file') \in 1..synced'
      BY <1>1, <2>1
    <3> QED BY <3>1, <3>2, <3>3
  <2> QED BY <1>10, <2>2, <2>3
<1>7. LogOf(R)!ServesAllAcked'
  <2> SUFFICES ASSUME NEW k \in 1..Len(acked')
               PROVE  \E i \in 1..Len(mem') : mem'[i] = acked'[k]
    BY DEF LogOf!ServesAllAcked
  <2>1. CASE k \in 1..Len(acked)
    <3>1. PICK i \in 1..Len(mem) : mem[i] = acked[k]
      BY <2>1 DEF LogOf!IInv, LogOf!ServesAllAcked, LogOf!AppendRecord, LogOf!CanAppend
    <3> QED BY <1>10, <2>1, <3>1
  <2>2. CASE k = Len(acked) + 1
    <3>1. Len(mem) + 1 \in 1..Len(mem') /\ mem'[Len(mem) + 1] = acked'[k]
      BY <1>10, <2>2
    <3> QED BY <3>1
  <2>3. k \in 1..Len(acked) \/ k = Len(acked) + 1
    BY <1>10
  <2> QED BY <2>1, <2>2, <2>3
<1>8. LogOf(R)!SeqInv'
  <2>1. seq' = seq + 1 /\ seq \in Nat
    BY DEF LogOf!AppendRecord, LogOf!IInv, LogOf!TypeOK
  <2>2. ASSUME NEW k \in 1..Len(acked') PROVE acked'[k].seq <= seq + 1
    <3>1. CASE k \in 1..Len(acked)
      BY <1>10, <1>11, <2>1, <3>1
    <3>2. CASE k = Len(acked) + 1
      BY <1>10, <2>1, <3>2
    <3> QED BY <1>10, <3>1, <3>2
  <2> QED BY <2>1, <2>2 DEF LogOf!SeqInv
<1>9. LogOf(R)!AckedSeqsGrow'
  <2>1. seq \in Nat
    BY DEF LogOf!IInv, LogOf!TypeOK
  <2>2. SUFFICES ASSUME NEW k \in 1..Len(acked'), NEW m \in 1..Len(acked'), k < m
                 PROVE  acked'[k].seq < acked'[m].seq
    BY DEF LogOf!AckedSeqsGrow
  <2>3. k \in 1..Len(acked) /\ acked'[k] = acked[k]
    BY <1>10, <2>2
  <2>4. CASE m \in 1..Len(acked)
    <3>1. acked'[m] = acked[m]
      BY <1>10, <2>4
    <3> QED BY <2>2, <2>3, <2>4, <3>1 DEF LogOf!IInv, LogOf!AckedSeqsGrow
  <2>5. CASE m = Len(acked) + 1
    <3>1. acked'[m].seq = seq + 1
      BY <1>10, <2>5
    <3>2. acked[k].seq \in Nat /\ acked[k].seq <= seq
      BY <1>11, <2>3
    <3> QED BY <2>1, <2>3, <3>1, <3>2
  <2> QED BY <1>10, <2>4, <2>5
<1>12. LogOf(R)!LinesInv'
  <2>1. synced' = Len(file') /\ synced \in Nat /\ Len(file') \in Nat
    <3>1. synced' = Len(file') /\ synced \in 0..Len(file)
      BY DEF LogOf!AppendRecord, LogOf!IInv, LogOf!TypeOK
    <3>2. Len(file) \in Nat /\ Len(file') \in Nat
      BY <1>1 DEF LogOf!IInv, LogOf!TypeOK
    <3> QED BY <3>1, <3>2
  <2>2. PICK at \in [1..Len(acked) -> 1..synced] :
          /\ \A k \in 1..Len(acked) : file[at[k]].ok => file[at[k]].rec = acked[k].rec
          /\ \A k, m \in 1..Len(acked) : at[k] = at[m] => k = m
    BY DEF LogOf!IInv, LogOf!LinesInv
  <2> DEFINE on == [k \in 1..Len(acked') |-> IF k \in 1..Len(acked) THEN at[k] ELSE Len(file')]
  <2>3. /\ \A k \in 1..Len(acked) : k \in 1..Len(acked') /\ on[k] = at[k] /\ on[k] \in 1..synced
        /\ Len(acked) + 1 \in 1..Len(acked') /\ on[Len(acked) + 1] = Len(file')
        /\ \A k \in 1..Len(acked') : k \in 1..Len(acked) \/ k = Len(acked) + 1
    BY <1>10
  <2>4. on \in [1..Len(acked') -> 1..synced']
    BY <1>1, <2>1, <2>3
  <2> HIDE DEF on
  <2>5. ASSUME NEW k \in 1..Len(acked'), file'[on[k]].ok PROVE file'[on[k]].rec = acked'[k].rec
    <3>1. CASE k \in 1..Len(acked)
      <4>1. on[k] = at[k] /\ at[k] \in 1..synced /\ acked'[k] = acked[k]
        BY <1>10, <2>3, <3>1
      <4>2. file'[at[k]] = file[at[k]]
        BY <1>1, <4>1
      <4>3. file[at[k]].ok => file[at[k]].rec = acked[k].rec
        BY <2>2, <3>1
      <4> QED BY <2>5, <4>1, <4>2, <4>3
    <3>2. CASE k = Len(acked) + 1
      BY <1>1, <1>10, <2>3, <2>5, <3>2 DEF LogOf!IInv, LogOf!TypeOK
    <3> QED BY <2>3, <3>1, <3>2
  <2>6. ASSUME NEW k \in 1..Len(acked'), NEW m \in 1..Len(acked'), on[k] = on[m] PROVE k = m
    <3>1. \A i \in 1..synced : i # Len(file')
      BY <1>1, <2>1
    <3> QED BY <2>2, <2>3, <2>6, <3>1
  <2> QED BY <2>4, <2>5, <2>6 DEF LogOf!LinesInv
<1>13. LogOf(R)!TornInv'
  <2>1. ended' = TRUE /\ tears' = tears
    BY DEF LogOf!AppendRecord
  <2>2. LogOf(R)!Torn' \subseteq LogOf(R)!Torn
    BY <2>1, TornByPut DEF LogOf!AppendRecord, LogOf!IInv
  <2> QED BY <2>1, <2>2, TornShrinks DEF LogOf!IInv
<1> QED BY <1>4, <1>5, <1>6, <1>7, <1>8, <1>9, <1>12, <1>13 DEF LogOf!IInv

(* A step that keeps the synced lines, the history of acknowledgements and  *)
(* the memory keeps what the invariant says of them.                        *)
LEMMA Frame ==
    ASSUME NEW R, LogOf(R)!IInv, UNCHANGED <<synced, acked>>,
           \A i \in 1..synced : file'[i] = file[i]
    PROVE  LogOf(R)!DurableInv' /\ LogOf(R)!AckedSeqsGrow' /\ LogOf(R)!LinesInv'
<1>1. LogOf(R)!DurableInv' /\ LogOf(R)!AckedSeqsGrow'
  BY DEF LogOf!IInv, LogOf!DurableInv, LogOf!AckedSeqsGrow
<1>2. PICK at \in [1..Len(acked) -> 1..synced] :
        /\ \A k \in 1..Len(acked) : file[at[k]].ok => file[at[k]].rec = acked[k].rec
        /\ \A k, m \in 1..Len(acked) : at[k] = at[m] => k = m
  BY DEF LogOf!IInv, LogOf!LinesInv
<1>3. \A k \in 1..Len(acked) : file'[at[k]] = file[at[k]]
  BY <1>2
<1> QED BY <1>1, <1>2, <1>3 DEF LogOf!LinesInv

(* A failed append, with a complete line (whole) or a part of one.          *)
LEMMA FailedAppendStep ==
    ASSUME NEW R, LogOf(R)!IInv, NEW r \in R,
           LogOf(R)!AppendUnsynced(r) \/ \E whole \in BOOLEAN : LogOf(R)!AppendTorn(r, whole)
    PROVE  LogOf(R)!IInv'
<1>1. PICK ok \in BOOLEAN : LogOf(R)!CanAppend /\ file' = LogOf(R)!Written(r, ok)
  BY DEF LogOf!AppendUnsynced, LogOf!AppendTorn
<1>2. /\ file' \in Seq(LogOf(R)!Line)
      /\ Len(file') >= synced
      /\ \A i \in 1..synced : file'[i] = file[i]
      /\ Len(file') > synced
  <2>1. /\ file' \in Seq(LogOf(R)!Line)
        /\ Len(file') >= synced
        /\ \A i \in 1..synced : file'[i] = file[i]
        /\ ended => Len(file') = Len(file) + 1
        /\ ~ended => Len(file') = Len(file)
    BY <1>1, PutFacts DEF LogOf!IInv
  <2>2. /\ Len(file) \in Nat /\ synced \in 0..Len(file) /\ ended \in BOOLEAN
        /\ ~ended => synced < Len(file)
    BY DEF LogOf!IInv, LogOf!SyncInv, LogOf!TypeOK
  <2> QED BY <2>1, <2>2
<1>3. UNCHANGED <<synced, state, mem, seq, acked, deaths>>
  BY DEF LogOf!AppendUnsynced, LogOf!AppendTorn, LogOf!store
<1>4. LogOf(R)!TypeOK'
  <2>1. tears \in 0..MaxTears /\ tears + 1 \in Nat
    BY DEF LogOf!IInv, LogOf!TypeOK
  <2>2. tears' \in 0..MaxTears /\ ended' \in BOOLEAN
    <3>1. ended' \in BOOLEAN
      BY DEF LogOf!AppendUnsynced, LogOf!AppendTorn
    <3>2. tears' = tears \/ (tears < MaxTears /\ tears' = tears + 1)
      BY DEF LogOf!AppendUnsynced, LogOf!AppendTorn
    <3> QED BY <2>1, <3>1, <3>2
  <2>3. synced' \in 0..Len(file')
    BY <1>2, <1>3 DEF LogOf!IInv, LogOf!TypeOK
  <2> QED BY <1>2, <1>3, <2>2, <2>3 DEF LogOf!IInv, LogOf!TypeOK
<1>5. LogOf(R)!SyncInv'
  BY <1>2, <1>3 DEF LogOf!SyncInv, LogOf!IInv, LogOf!TypeOK
<1>6. LogOf(R)!DurableInv' /\ LogOf(R)!AckedSeqsGrow' /\ LogOf(R)!LinesInv'
  BY <1>2, <1>3, Frame
<1>7. LogOf(R)!ServesAllAcked' /\ LogOf(R)!SeqInv'
  BY <1>3 DEF LogOf!IInv, LogOf!ServesAllAcked, LogOf!SeqInv
<1>8. LogOf(R)!TornInv'
  <2>1. CASE LogOf(R)!AppendUnsynced(r)
    <3>1. LogOf(R)!CanAppend /\ file' = LogOf(R)!Written(r, TRUE) /\ ended' = TRUE /\ tears' = tears
      BY <2>1 DEF LogOf!AppendUnsynced
    <3>2. LogOf(R)!Torn' \subseteq LogOf(R)!Torn
      BY <3>1, TornByPut DEF LogOf!IInv
    <3> QED BY <3>1, <3>2, TornShrinks DEF LogOf!IInv
  <2>2. CASE \E whole \in BOOLEAN : LogOf(R)!AppendTorn(r, whole)
    <3>1. PICK whole \in BOOLEAN : LogOf(R)!AppendTorn(r, whole)
      BY <2>2
    <3>2. /\ LogOf(R)!CanAppend /\ file' = LogOf(R)!Written(r, whole) /\ ended' = FALSE
          /\ tears' = tears + 1
      BY <3>1 DEF LogOf!AppendTorn
    <3>3. LogOf(R)!Torn' \subseteq LogOf(R)!Torn \cup {Len(file')}
      BY <3>2, TornByPut DEF LogOf!IInv
    <3> QED BY <3>2, <3>3, TornGrows DEF LogOf!IInv
  <2> QED BY <2>1, <2>2
<1> QED BY <1>4, <1>5, <1>6, <1>7, <1>8 DEF LogOf!IInv

(* The machine stops: the lines that are left of the file. *)
LEMMA PowerLossLines ==
    ASSUME NEW R, LogOf(R)!TypeOK, NEW n, NEW cut \in BOOLEAN, LogOf(R)!PowerLoss(n, cut)
    PROVE  /\ n \in Nat /\ n <= Len(file) /\ synced <= n
           /\ file' \in Seq(LogOf(R)!Line)
           /\ Len(file') = IF cut THEN n + 1 ELSE n
           /\ \A i \in 1..n : file'[i] = file[i]
           /\ cut => /\ n < Len(file)
                     /\ file'[n + 1].rec = file[n + 1].rec /\ ~file'[n + 1].ok
<1> DEFINE kept == SubSeq(file, 1, n)
<1>1. /\ n \in synced..Len(file)
      /\ file \in Seq(LogOf(R)!Line)
      /\ synced \in Nat
      /\ Len(file) \in Nat
  BY DEF LogOf!PowerLoss, LogOf!TypeOK
<1>2. /\ kept \in Seq(LogOf(R)!Line)
      /\ Len(kept) = n
      /\ \A i \in 1..n : kept[i] = file[i]
  BY <1>1
<1>3. CASE cut
  <2> DEFINE last == LogOf(R)!Spoiled(file[n + 1])
  <2>1. n + 1 \in 1..Len(file) /\ n < Len(file)
    BY <1>1, <1>3 DEF LogOf!PowerLoss
  <2>2. last \in LogOf(R)!Line /\ last.rec = file[n + 1].rec /\ ~last.ok
    BY <1>1, <2>1, LineFields, Members DEF LogOf!Spoiled
  <2>3. file' = Append(kept, last)
    BY <1>3 DEF LogOf!PowerLoss
  <2> HIDE DEF last, kept
  <2>4. /\ file' \in Seq(LogOf(R)!Line) /\ Len(file') = n + 1
        /\ \A i \in 1..n : file'[i] = kept[i]
        /\ file'[n + 1] = last
    BY <1>2, <2>2, <2>3, AppendFacts
  <2> QED BY <1>1, <1>2, <1>3, <2>1, <2>2, <2>4
<1>4. CASE ~cut
  <2>1. file' = kept
    BY <1>4 DEF LogOf!PowerLoss
  <2> QED BY <1>1, <1>2, <1>4, <2>1
<1> QED BY <1>3, <1>4

(* The synced lines are still there. *)
LEMMA PowerLossStep ==
    ASSUME NEW R, LogOf(R)!IInv, NEW n \in 0..MaxLines, NEW cut \in BOOLEAN,
           LogOf(R)!PowerLoss(n, cut)
    PROVE  LogOf(R)!IInv'
<1>1. /\ n \in synced..Len(file)
      /\ file \in Seq(LogOf(R)!Line)
      /\ synced \in Nat
      /\ Len(file) \in Nat
  BY DEF LogOf!PowerLoss, LogOf!IInv, LogOf!TypeOK
<1>3. /\ file' \in Seq(LogOf(R)!Line)
      /\ Len(file') \in n..(n + 1)
      /\ \A i \in 1..n : file'[i] = file[i]
      /\ Len(file') = IF cut THEN n + 1 ELSE n
      /\ n <= Len(file) /\ synced <= n
  BY <1>1, PowerLossLines DEF LogOf!IInv
<1>4. LogOf(R)!TypeOK'
  <2>9. /\ tears \in 0..MaxTears /\ deaths \in 0..MaxDeaths /\ ended \in BOOLEAN
        /\ tears + 1 \in Nat /\ deaths + 1 \in Nat
    BY DEF LogOf!IInv, LogOf!TypeOK
  <2>1. tears' \in 0..MaxTears /\ ended' \in BOOLEAN /\ deaths' \in 0..MaxDeaths
    <3>1. ended' \in BOOLEAN
      BY <2>9 DEF LogOf!PowerLoss
    <3>2. deaths < MaxDeaths /\ deaths' = deaths + 1
      BY DEF LogOf!PowerLoss
    <3>3. tears' = tears \/ (tears < MaxTears /\ tears' = tears + 1)
      BY DEF LogOf!PowerLoss
    <3> QED BY <2>9, <3>1, <3>2, <3>3
  <2>2. synced' \in 0..Len(file')
    BY <1>1, <1>3 DEF LogOf!PowerLoss
  <2>3. mem' = <<>> /\ seq' = 0 /\ state' = "down" /\ acked' = acked
    BY DEF LogOf!PowerLoss
  <2> QED BY <1>3, <2>1, <2>2, <2>3 DEF LogOf!IInv, LogOf!TypeOK
<1>5. LogOf(R)!SyncInv'
  <2>1. CASE n < Len(file)
    <3>1. ended' = ~cut /\ synced' = synced
      BY <2>1 DEF LogOf!PowerLoss
    <3>2. cut => Len(file') > synced
      BY <1>1, <1>3
    <3> QED BY <3>1, <3>2 DEF LogOf!SyncInv
  <2>2. CASE n = Len(file)
    <3>1. ended' = ended /\ synced' = synced /\ (~ended => synced < Len(file))
      BY <2>2 DEF LogOf!PowerLoss, LogOf!IInv, LogOf!SyncInv
    <3> QED BY <1>1, <1>3, <2>2, <3>1 DEF LogOf!SyncInv
  <2> QED BY <1>1, <2>1, <2>2
<1>6. LogOf(R)!DurableInv' /\ LogOf(R)!AckedSeqsGrow' /\ LogOf(R)!LinesInv'
  <2>1. UNCHANGED <<synced, acked>>
    BY DEF LogOf!PowerLoss
  <2>2. \A i \in 1..synced : i \in 1..n
    BY <1>1, <1>3
  <2> QED BY <1>3, <2>1, <2>2, Frame
<1>7. LogOf(R)!ServesAllAcked' /\ LogOf(R)!SeqInv'
  BY DEF LogOf!PowerLoss, LogOf!ServesAllAcked, LogOf!SeqInv
<1>8. LogOf(R)!TornInv'
  <2>1. /\ ended' = IF n < Len(file) THEN ~cut ELSE ended
        /\ tears' = IF cut THEN tears + 1 ELSE tears
        /\ cut => n < Len(file)
    BY DEF LogOf!PowerLoss
  <2>2. ASSUME NEW i \in LogOf(R)!Torn', i \in 1..n PROVE i \in LogOf(R)!Torn
    <3>1. file'[i] = file[i] /\ i \in 1..Len(file)
      BY <1>1, <1>3, <2>2
    <3>2. ~file'[i].ok \/ (i = Len(file') /\ ~ended')
      BY <2>2 DEF LogOf!Torn
    <3>3. CASE i = Len(file') /\ ~ended'
      <4>1. ~cut /\ i = n
        BY <1>1, <1>3, <2>2, <3>3
      <4>2. n = Len(file) /\ ~ended
        <5>1. ~(n < Len(file)) /\ ~ended
          BY <2>1, <3>3, <4>1
        <5> QED BY <1>1, <5>1
      <4> QED BY <3>1, <4>1, <4>2 DEF LogOf!Torn
    <3> QED BY <3>1, <3>2, <3>3 DEF LogOf!Torn
  <2>3. ASSUME NEW i \in LogOf(R)!Torn', i \notin 1..n PROVE cut /\ i = n + 1
    <3>1. i \in 1..Len(file')
      BY DEF LogOf!Torn
    <3> QED BY <1>1, <1>3, <2>3, <3>1
  <2>4. CASE cut
    <3>1. LogOf(R)!Torn' \subseteq LogOf(R)!Torn \cup {n + 1} /\ tears' = tears + 1
      BY <2>1, <2>2, <2>3, <2>4
    <3> QED BY <3>1, TornGrows DEF LogOf!IInv
  <2>5. CASE ~cut
    <3>1. LogOf(R)!Torn' \subseteq LogOf(R)!Torn /\ tears' = tears
      BY <2>1, <2>2, <2>3, <2>5
    <3> QED BY <3>1, TornShrinks DEF LogOf!IInv
  <2> QED BY <2>4, <2>5
<1> QED BY <1>4, <1>5, <1>6, <1>7, <1>8 DEF LogOf!IInv

(* A replay that is not refused has met every acknowledged record. *)
LEMMA LoadStep ==
    ASSUME NEW R, LogOf(R)!IInv, LogOf(R)!Load
    PROVE  LogOf(R)!IInv'
<1>1. /\ file \in Seq(LogOf(R)!Line)
      /\ Len(file) \in Nat
      /\ synced \in 0..Len(file)
      /\ UNCHANGED <<file, ended, synced, acked, tears, deaths>>
      /\ state' = "up"
  BY DEF LogOf!Load, LogOf!disk, LogOf!IInv, LogOf!TypeOK
<1>2. \A i \in 1..Len(file) : ~file[i].ok => i = Len(file) /\ ~ended
  BY DEF LogOf!Load, LogOf!Broken, LogOf!Tolerated
<1>3. \A i \in 1..synced : file[i].ok
  BY <1>1, <1>2 DEF LogOf!IInv, LogOf!SyncInv
<1>4. LogOf(R)!Readable \in 0..Len(file) /\ synced <= LogOf(R)!Readable
  <2>1. CASE LogOf(R)!Broken = {}
    BY <1>1, <2>1 DEF LogOf!Readable
  <2>2. CASE LogOf(R)!Broken # {}
    <3>1. Len(file) \in 1..Len(file) /\ ~ended
      BY <1>1, <1>2, <2>2 DEF LogOf!Broken
    <3> QED BY <1>1, <2>2, <3>1 DEF LogOf!Readable, LogOf!IInv, LogOf!SyncInv
  <2> QED BY <2>1, <2>2
<1>5. mem' = [i \in 1..LogOf(R)!Readable |-> [rec |-> file[i].rec, seq |-> file[i].seq]]
  BY DEF LogOf!Load
<1>6. mem' \in Seq(LogOf(R)!Entry) /\ Len(mem') = LogOf(R)!Readable
  <2>1. \A i \in 1..LogOf(R)!Readable :
          [rec |-> file[i].rec, seq |-> file[i].seq] \in LogOf(R)!Entry
    BY <1>1, <1>4, LineFields, Members DEF LogOf!IInv
  <2> QED BY <1>1, <1>4, <1>5, <2>1
<1>7. seq' \in Nat /\ \A i \in 1..LogOf(R)!Readable : file[i].seq <= seq'
  <2>1. \A i \in 1..LogOf(R)!Readable : file[i].seq \in Nat
    BY <1>1, <1>4, Members DEF LogOf!IInv
  <2>2. /\ seq' \in {0} \cup {file[i].seq : i \in 1..LogOf(R)!Readable}
        /\ \A i \in 1..LogOf(R)!Readable : file[i].seq <= seq'
    BY DEF LogOf!Load, LogOf!ReplayedSeq
  <2> QED BY <2>1, <2>2
<1>8. LogOf(R)!TypeOK'
  BY <1>1, <1>6, <1>7 DEF LogOf!IInv, LogOf!TypeOK
<1>9. LogOf(R)!SyncInv' /\ LogOf(R)!DurableInv' /\ LogOf(R)!AckedSeqsGrow' /\ LogOf(R)!LinesInv'
  BY <1>1, Frame DEF LogOf!IInv, LogOf!SyncInv
<1>13. LogOf(R)!TornInv'
  BY <1>1 DEF LogOf!IInv, LogOf!TornInv, LogOf!Torn
<1>10. \A k \in 1..Len(acked) : \E i \in 1..LogOf(R)!Readable :
          file[i].rec = acked[k].rec /\ file[i].seq = acked[k].seq
  <2> SUFFICES ASSUME NEW k \in 1..Len(acked)
               PROVE  \E i \in 1..LogOf(R)!Readable :
                        file[i].rec = acked[k].rec /\ file[i].seq = acked[k].seq
    OBVIOUS
  <2>1. PICK i \in 1..synced :
          ~file[i].ok \/ (file[i].rec = acked[k].rec /\ file[i].seq = acked[k].seq)
    BY DEF LogOf!IInv, LogOf!DurableInv
  <2> QED BY <1>1, <1>3, <1>4, <2>1
<1>11. LogOf(R)!ServesAllAcked'
  <2> SUFFICES ASSUME NEW k \in 1..Len(acked)
               PROVE  \E i \in 1..Len(mem') : mem'[i] = acked[k]
    BY <1>1 DEF LogOf!ServesAllAcked
  <2>1. PICK i \in 1..LogOf(R)!Readable : file[i].rec = acked[k].rec /\ file[i].seq = acked[k].seq
    BY <1>10
  <2>2. mem'[i] = [rec |-> acked[k].rec, seq |-> acked[k].seq]
    BY <1>5, <2>1
  <2>3. acked[k] = [rec |-> acked[k].rec, seq |-> acked[k].seq]
    BY Members, LineFields DEF LogOf!IInv
  <2> QED BY <1>4, <1>6, <2>2, <2>3
<1>12. LogOf(R)!SeqInv'
  BY <1>1, <1>7, <1>10 DEF LogOf!SeqInv, LogOf!IInv, LogOf!TypeOK
<1> QED BY <1>8, <1>9, <1>11, <1>12, <1>13 DEF LogOf!IInv

(* An empty file and an empty memory satisfy the inductive invariant. *)
LEMMA LogStarts ==
    ASSUME NEW R, LogOf(R)!Init
    PROVE  LogOf(R)!IInv
<1>1. LogOf(R)!TypeOK /\ LogOf(R)!SyncInv /\ LogOf(R)!DurableInv
  BY DEF LogOf!Init, LogOf!TypeOK, LogOf!SyncInv, LogOf!DurableInv
<1>2. LogOf(R)!ServesAllAcked /\ LogOf(R)!SeqInv /\ LogOf(R)!AckedSeqsGrow
  BY DEF LogOf!Init, LogOf!ServesAllAcked, LogOf!SeqInv, LogOf!AckedSeqsGrow
<1>3. LogOf(R)!LinesInv
  <2>1. [k \in 1..Len(acked) |-> 1] \in [1..Len(acked) -> 1..synced]
    BY DEF LogOf!Init
  <2>2. \A k \in 1..Len(acked) : FALSE
    BY DEF LogOf!Init
  <2> QED BY <2>1, <2>2 DEF LogOf!LinesInv
<1>4. LogOf(R)!TornInv
  <2>1. LogOf(R)!Torn = {}
    BY DEF LogOf!Init, LogOf!Torn
  <2> QED BY <2>1, FS_EmptySet, Count DEF LogOf!Init, LogOf!TornInv
<1> QED BY <1>1, <1>2, <1>3, <1>4 DEF LogOf!IInv

(* The process ends: the file is as it was. *)
LEMMA ExitStep ==
    ASSUME NEW R, LogOf(R)!IInv, LogOf(R)!Exit
    PROVE  LogOf(R)!IInv'
<1>1. /\ UNCHANGED <<file, ended, synced, acked, tears>>
      /\ state' = "down" /\ mem' = <<>> /\ seq' = 0
  BY DEF LogOf!Exit, LogOf!disk
<1>2. deaths' \in 0..MaxDeaths
  <2>1. deaths \in 0..MaxDeaths /\ deaths < MaxDeaths /\ deaths' = deaths + 1
    BY DEF LogOf!Exit, LogOf!IInv, LogOf!TypeOK
  <2> QED BY <2>1
<1>3. LogOf(R)!TypeOK'
  BY <1>1, <1>2 DEF LogOf!IInv, LogOf!TypeOK
<1>4. LogOf(R)!SyncInv' /\ LogOf(R)!DurableInv' /\ LogOf(R)!AckedSeqsGrow' /\ LogOf(R)!LinesInv'
  BY <1>1, Frame DEF LogOf!IInv, LogOf!SyncInv
<1>5. LogOf(R)!ServesAllAcked' /\ LogOf(R)!SeqInv' /\ LogOf(R)!TornInv'
  BY <1>1 DEF LogOf!IInv, LogOf!ServesAllAcked, LogOf!SeqInv, LogOf!TornInv, LogOf!Torn
<1> QED BY <1>3, <1>4, <1>5 DEF LogOf!IInv

(* What the authority on top of the log may do with it in one step. *)
LEMMA LogStep ==
    ASSUME NEW R, LogOf(R)!IInv,
           \/ UNCHANGED <<file, ended, synced, state, mem, seq, acked, tears, deaths>>
           \/ \E r \in R : \/ LogOf(R)!AppendRecord(r) \/ LogOf(R)!AppendUnsynced(r)
                           \/ \E whole \in BOOLEAN : LogOf(R)!AppendTorn(r, whole)
           \/ LogOf(R)!Exit \/ LogOf(R)!Load \/ LogOf(R)!LoadRefused
           \/ \E n \in 0..MaxLines, cut \in BOOLEAN : LogOf(R)!PowerLoss(n, cut)
    PROVE  LogOf(R)!IInv'
<1>1. ASSUME UNCHANGED <<file, ended, synced, mem, seq, acked, tears, deaths>>,
             state' = state \/ state' = "refused"
      PROVE  LogOf(R)!IInv'
  <2>1. LogOf(R)!TypeOK' /\ LogOf(R)!SyncInv' /\ LogOf(R)!ServesAllAcked' /\ LogOf(R)!SeqInv'
    BY <1>1 DEF LogOf!IInv, LogOf!TypeOK, LogOf!SyncInv, LogOf!ServesAllAcked, LogOf!SeqInv
  <2>2. LogOf(R)!DurableInv' /\ LogOf(R)!AckedSeqsGrow' /\ LogOf(R)!LinesInv'
    BY <1>1, Frame
  <2>3. LogOf(R)!TornInv'
    BY <1>1 DEF LogOf!IInv, LogOf!TornInv, LogOf!Torn
  <2> QED BY <2>1, <2>2, <2>3 DEF LogOf!IInv
<1>2. CASE LogOf(R)!LoadRefused
  BY <1>1, <1>2 DEF LogOf!LoadRefused, LogOf!disk
<1> QED BY <1>1, <1>2, AppendRecordStep, FailedAppendStep, ExitStep, LoadStep, PowerLossStep

(* The inductive invariant of the record log holds in every reachable state. *)
THEOREM LogInvariance == ASSUME NEW R PROVE LogOf(R)!Spec => []LogOf(R)!IInv
<1>1. LogOf(R)!IInv /\ [LogOf(R)!Next]_(LogOf(R)!vars) => LogOf(R)!IInv'
  BY LogStep DEF LogOf!Next, LogOf!Mutate, LogOf!vars
<1> QED BY <1>1, LogStarts, PTL DEF LogOf!Spec

(* A store that serves has in memory every record it ever acknowledged,     *)
(* through failed syncs, torn writes, deaths and replays (store.go: append  *)
(* and Load).                                                               *)
THEOREM NothingAcknowledgedIsMissing ==
    ASSUME NEW R PROVE LogOf(R)!Spec => []LogOf(R)!ServesAllAcked
<1>1. LogOf(R)!IInv => LogOf(R)!ServesAllAcked
  BY DEF LogOf!IInv
<1> QED BY <1>1, LogInvariance, PTL

(* Acknowledged records carry strictly growing sequence numbers, across      *)
(* restarts and failed appends (store.go: append and Load).                  *)
THEOREM SequenceNumbersGrow ==
    ASSUME NEW R PROVE LogOf(R)!Spec => []LogOf(R)!AckedSeqsGrow
<1>1. LogOf(R)!IInv => LogOf(R)!AckedSeqsGrow
  BY DEF LogOf!IInv
<1> QED BY <1>1, LogInvariance, PTL

(* What the lines of acknowledged records are broken by is torn writes, and *)
(* each record has a line of its own.                                       *)
LEMMA LossIsBounded ==
    ASSUME NEW R, LogOf(R)!IInv
    PROVE  LogOf(R)!LossBoundedByTears
<1> DEFINE Lost == {k \in 1..Len(acked) : ~LogOf(R)!OnDisk(acked[k])}
<1>1. PICK at \in [1..Len(acked) -> 1..synced] :
        /\ \A k \in 1..Len(acked) : file[at[k]].ok => file[at[k]].rec = acked[k].rec
        /\ \A k, m \in 1..Len(acked) : at[k] = at[m] => k = m
  BY DEF LogOf!IInv, LogOf!LinesInv
<1>2. \A k \in 1..Len(acked) : at[k] \in 1..Len(file)
  <2>1. Len(file) \in Nat /\ synced \in 0..Len(file) BY DEF LogOf!IInv, LogOf!TypeOK
  <2> QED BY <1>1, <2>1
<1>3. \A k \in Lost : at[k] \in LogOf(R)!Torn
  BY <1>1, <1>2 DEF LogOf!OnDisk, LogOf!Torn
<1> DEFINE of == [k \in Lost |-> at[k]]
<1>4. of \in Injection(Lost, LogOf(R)!Torn)
  <2>1. of \in [Lost -> LogOf(R)!Torn] BY <1>3
  <2>2. \A k, m \in Lost : of[k] = of[m] => k = m BY <1>1
  <2> HIDE DEF of, Lost
  <2> QED BY <2>1, <2>2 DEF Injection, IsInjective
<1>5. IsFiniteSet(LogOf(R)!Torn) /\ Cardinality(LogOf(R)!Torn) \in Nat
  BY TornFinite DEF LogOf!IInv
<1>6. IsFiniteSet(Lost) /\ Cardinality(Lost) <= Cardinality(LogOf(R)!Torn)
  <2> HIDE DEF of, Lost
  <2> QED BY <1>4, <1>5, FS_Injection
<1>7. Cardinality(Lost) \in Nat
  <2> HIDE DEF Lost
  <2> QED BY <1>6, FS_CardinalityType
<1>8. tears \in Nat /\ Cardinality(LogOf(R)!Torn) <= tears
  BY Count DEF LogOf!IInv, LogOf!TypeOK, LogOf!TornInv
<1> QED BY <1>5, <1>6, <1>7, <1>8, Count DEF LogOf!LossBoundedByTears

(* Each torn write costs at most one acknowledged record (store.go: append). *)
THEOREM TearsBoundLoss ==
    ASSUME NEW R PROVE LogOf(R)!Spec => []LogOf(R)!LossBoundedByTears
<1> QED BY LossIsBounded, LogInvariance, PTL

-----------------------------------------------------------------------------
(* A set of natural numbers has a least one. *)
LEMMA Least ==
    ASSUME NEW T, T \subseteq Nat, T # {}
    PROVE  \E x \in T : \A y \in T : x <= y
<1> DEFINE R == OpToRel(<, Nat)
<1>1. IsWellFoundedOn(R, Nat)
  BY NatLessThanWellFounded
<1>2. \A a, b \in Nat : <<a, b>> \in R <=> a < b
  BY DEF OpToRel
<1> HIDE DEF R
<1>3. PICK x \in T : \A y \in T : <<y, x>> \notin R
  BY <1>1, WFMin
<1>4. \A y \in T : ~(y < x)
  BY <1>2, <1>3
<1>5. \A y \in T : x <= y
  BY <1>4
<1> QED BY <1>5

(* Induction over a set: what holds for 0 and goes from n to n + 1. *)
LEMMA Induction ==
    ASSUME NEW S, 0 \in S, \A n \in Nat : n \in S => n + 1 \in S
    PROVE  \A n \in Nat : n \in S
<1> SUFFICES ASSUME NEW T, T = Nat \ S, T # {} PROVE FALSE
  OBVIOUS
<1>1. PICK x \in T : \A y \in T : x <= y
  BY Least
<1>2. x \in Nat /\ x # 0
  OBVIOUS
<1>3. x - 1 \in Nat /\ x - 1 \notin T
  BY <1>1, <1>2
<1> QED BY <1>2, <1>3

(* The states of the reducer along the entries. *)
Steps(f, entries, n) ==
    /\ f[0] = Empty
    /\ \A i \in 1..n : f[i] = Apply(f[i - 1], entries[i])

(* The reducer looks at the record of an entry and at nothing else. *)
LEMMA ApplyByRecord ==
    ASSUME NEW p, NEW a, NEW b, a.rec = b.rec
    PROVE  Apply(p, a) = Apply(p, b)
BY DEF Apply

(* The recursive definition has a solution for every length. *)
LEMMA StepsExist ==
    ASSUME NEW entries, NEW n \in Nat
    PROVE  \E f : f = [i \in 0..n |-> IF i = 0 THEN Empty ELSE Apply(f[i - 1], entries[i])]
<1> DEFINE Solves(f, m) ==
      f = [i \in 0..m |-> IF i = 0 THEN Empty ELSE Apply(f[i - 1], entries[i])]
<1> DEFINE S == {m \in Nat : \E f : Solves(f, m)}
<1>1. 0 \in S
  <2> DEFINE f == [i \in 0..0 |-> Empty]
  <2>1. Solves(f, 0) OBVIOUS
  <2> QED BY <2>1
<1>2. ASSUME NEW m \in Nat, m \in S PROVE m + 1 \in S
  <2>1. PICK f : Solves(f, m) BY <1>2
  <2> DEFINE next == Apply(f[m], entries[m + 1])
  <2> HIDE DEF next
  <2> DEFINE g == [i \in 0..(m + 1) |-> IF i = m + 1 THEN next ELSE f[i]]
  <2>2. \A i \in 0..m : g[i] = f[i] OBVIOUS
  <2>3. \A i \in 0..m : f[i] = IF i = 0 THEN Empty ELSE Apply(f[i - 1], entries[i])
    BY <2>1
  <2>4. ASSUME NEW i \in 0..(m + 1)
        PROVE  g[i] = IF i = 0 THEN Empty ELSE Apply(g[i - 1], entries[i])
    <3>1. CASE i = m + 1
      <4>1. g[i] = next /\ i # 0 /\ i - 1 = m BY <3>1
      <4>2. g[i - 1] = f[m] BY <2>2, <4>1
      <4> QED BY <3>1, <4>1, <4>2 DEF next
    <3>2. CASE i \in 0..m
      <4>1. g[i] = f[i] BY <2>2, <3>2
      <4>2. CASE i = 0 BY <2>3, <4>1, <4>2
      <4>3. CASE i # 0
        <5>1. g[i - 1] = f[i - 1] BY <2>2, <3>2, <4>3
        <5> QED BY <2>3, <3>2, <4>1, <4>3, <5>1
      <4> QED BY <4>2, <4>3
    <3> QED BY <3>1, <3>2
  <2>5. g = [i \in 0..(m + 1) |-> g[i]] OBVIOUS
  <2> HIDE DEF g
  <2>6. Solves(g, m + 1)
    BY <2>4, <2>5
  <2> QED BY <2>6
<1> HIDE DEF S
<1>3. n \in S BY <1>1, <1>2, Induction
<1> QED BY <1>3 DEF S

(* Two runs of the reducer over the same records are in the same states. *)
LEMMA StepsUnique ==
    ASSUME NEW f, NEW g, NEW a, NEW b, NEW n \in Nat, Steps(f, a, n), Steps(g, b, n),
           \A i \in 1..n : a[i].rec = b[i].rec
    PROVE  f[n] = g[n]
<1> DEFINE S == {m \in Nat : m <= n => f[m] = g[m]}
<1>1. 0 \in S BY DEF Steps
<1>2. ASSUME NEW m \in Nat, m \in S PROVE m + 1 \in S
  <2> SUFFICES ASSUME m + 1 <= n PROVE f[m + 1] = g[m + 1]
    OBVIOUS
  <2>1. f[m] = g[m] BY <1>2
  <2>2. m + 1 \in 1..n /\ m + 1 - 1 = m OBVIOUS
  <2>3. f[m + 1] = Apply(f[m], a[m + 1]) /\ g[m + 1] = Apply(g[m], b[m + 1])
    BY <2>2 DEF Steps
  <2>4. Apply(f[m], a[m + 1]) = Apply(f[m], b[m + 1])
    BY <2>2, ApplyByRecord
  <2> QED BY <2>1, <2>3, <2>4
<1> HIDE DEF S
<1>3. n \in S BY <1>1, <1>2, Induction
<1> QED BY <1>3 DEF S

(* The projection is where the run over the entries ends. *)
LEMMA ProjectionSteps ==
    ASSUME NEW entries, Len(entries) \in Nat
    PROVE  \E f : Steps(f, entries, Len(entries)) /\ Projection(entries) = f[Len(entries)]
<1> DEFINE after[n \in 0..Len(entries)] ==
             IF n = 0 THEN Empty ELSE Apply(after[n - 1], entries[n])
<1>1. Projection(entries) = after[Len(entries)]
  BY DEF Projection
<1>2. \E f : f = [i \in 0..Len(entries) |->
                    IF i = 0 THEN Empty ELSE Apply(f[i - 1], entries[i])]
  BY StepsExist
<1>3. after = [i \in 0..Len(entries) |->
                    IF i = 0 THEN Empty ELSE Apply(after[i - 1], entries[i])]
  BY <1>2
<1> HIDE DEF after
<1>4. Steps(after, entries, Len(entries))
  BY <1>3 DEF Steps
<1> QED BY <1>1, <1>4

(* Nothing has happened in an empty sequence. *)
LEMMA ProjectionOfNone ==
    ASSUME NEW entries, Len(entries) = 0
    PROVE  Projection(entries) = Empty
BY ProjectionSteps DEF Steps

(* The projection depends on the records alone. *)
LEMMA ProjectionByRecords ==
    ASSUME NEW a, NEW b, Len(a) \in Nat, Len(b) = Len(a),
           \A i \in 1..Len(a) : a[i].rec = b[i].rec
    PROVE  Projection(a) = Projection(b)
<1>1. PICK f : Steps(f, a, Len(a)) /\ Projection(a) = f[Len(a)] BY ProjectionSteps
<1>2. PICK g : Steps(g, b, Len(a)) /\ Projection(b) = g[Len(a)] BY ProjectionSteps
<1>3. f[Len(a)] = g[Len(a)] BY <1>1, <1>2, StepsUnique
<1> QED BY <1>1, <1>2, <1>3

(* One entry more is one application of the reducer more. *)
LEMMA ProjectionOfNext ==
    ASSUME NEW a, NEW b, Len(a) \in Nat, Len(b) = Len(a) + 1,
           \A i \in 1..Len(a) : a[i].rec = b[i].rec
    PROVE  Projection(b) = Apply(Projection(a), b[Len(b)])
<1>1. PICK f : Steps(f, a, Len(a)) /\ Projection(a) = f[Len(a)] BY ProjectionSteps
<1>2. PICK g : Steps(g, b, Len(b)) /\ Projection(b) = g[Len(b)] BY ProjectionSteps
<1>3. Steps(g, b, Len(a)) BY <1>2 DEF Steps
<1>4. f[Len(a)] = g[Len(a)] BY <1>1, <1>3, StepsUnique
<1>5. g[Len(b)] = Apply(g[Len(a)], b[Len(b)])
  <2>1. Len(b) \in 1..Len(b) /\ Len(b) - 1 = Len(a) OBVIOUS
  <2> QED BY <1>2, <2>1 DEF Steps
<1> QED BY <1>1, <1>2, <1>4, <1>5

-----------------------------------------------------------------------------
USE WorkRegistryAssumption

Projections == [tasks : [Task -> TaskState], idem : [Key -> Task \cup {NoTask}]]

(* What a record can be. *)
LEMMA Records ==
    ASSUME NEW r \in Record
    PROVE  /\ r.task \in Task
           /\ \/ r.op = "created" /\ r.key \in Key
              \/ r.op = "transitioned" /\ r.to \in Status /\ r.after \in Nat
              \/ r.op = "attached" /\ r.evidence \in Evidence
BY ZenonT(30) DEF Record

(* The states a task starts in. *)
LEMMA FirstStates ==
    /\ Absent \in TaskState /\ Absent.version = 0
    /\ Planned \in TaskState /\ Planned.version = 1
    /\ Empty \in Projections /\ \A t \in Task : Empty.tasks[t] = Absent
    /\ \A k \in Key : Empty.idem[k] = NoTask
<1>1. "PLANNED" \in Status BY DEF Status
<1>2. <<>> \in Seq(Evidence) OBVIOUS
<1>3. Absent \in TaskState /\ Absent.version = 0 /\ Planned \in TaskState /\ Planned.version = 1
  BY <1>1, <1>2 DEF Absent, Planned, TaskState
<1>4. Empty \in Projections BY <1>3 DEF Empty, Projections
<1> QED BY <1>3, <1>4 DEF Empty

(* What the state of a task is made of. *)
LEMMA TaskStateFields ==
    ASSUME NEW s \in TaskState
    PROVE  /\ s.status \in Status /\ s.version \in Nat /\ s.wcVersion \in Nat
           /\ s.evidence \in Seq(Evidence) /\ Len(s.evidence) \in Nat
BY DEF TaskState

(* What a projection is made of. *)
LEMMA ProjectionFields ==
    ASSUME NEW p \in Projections
    PROVE  /\ p = [tasks |-> p.tasks, idem |-> p.idem]
           /\ p.tasks \in [Task -> TaskState] /\ p.idem \in [Key -> Task \cup {NoTask}]
           /\ \A t \in Task : p.tasks[t] \in TaskState
           /\ \A k \in Key : p.idem[k] \in Task \cup {NoTask}
BY DEF Projections

(* What each kind of record does to the projection. *)
LEMMA ApplyCreated ==
    ASSUME NEW p \in Projections, NEW e, e.rec.op = "created", e.rec.task \in Task,
           e.rec.key \in Key
    PROVE  /\ Apply(p, e) \in Projections
           /\ Apply(p, e).tasks[e.rec.task] = Planned
           /\ \A t \in Task : t # e.rec.task => Apply(p, e).tasks[t] = p.tasks[t]
           /\ Apply(p, e).idem[e.rec.key] = e.rec.task
           /\ \A k \in Key : k # e.rec.key => Apply(p, e).idem[k] = p.idem[k]
<1>1. Apply(p, e) = [tasks |-> [p.tasks EXCEPT ![e.rec.task] = Planned],
                     idem  |-> [p.idem EXCEPT ![e.rec.key] = e.rec.task]]
  BY DEF Apply
<1>2. Planned \in TaskState BY FirstStates
<1> QED BY <1>1, <1>2, ProjectionFields DEF Projections

(* A transition sets the status and the version of its task, and nothing else of it. *)
LEMMA ApplyTransitioned ==
    ASSUME NEW p \in Projections, NEW e, e.rec.op = "transitioned", e.rec.task \in Task,
           e.rec.to \in Status, e.rec.after \in Nat
    PROVE  LET was == p.tasks[e.rec.task]
               now == Apply(p, e).tasks[e.rec.task]
           IN  /\ Apply(p, e) \in Projections
               /\ now.status = e.rec.to /\ now.version = e.rec.after
               /\ now.evidence = was.evidence /\ now.wcVersion = was.wcVersion
               /\ \A t \in Task : t # e.rec.task => Apply(p, e).tasks[t] = p.tasks[t]
               /\ Apply(p, e).idem = p.idem
<1> DEFINE s == p.tasks[e.rec.task]
           a == [s EXCEPT !.status = e.rec.to]
           b == [a EXCEPT !.version = e.rec.after]
           q == [p EXCEPT !.tasks[e.rec.task].status = e.rec.to]
<1>1. Apply(p, e) = [q EXCEPT !.tasks[e.rec.task].version = e.rec.after]
  BY DEF Apply
<1>2. s \in TaskState
  BY ProjectionFields
<1>3. /\ a \in TaskState /\ a.status = e.rec.to
      /\ a.evidence = s.evidence /\ a.wcVersion = s.wcVersion
  BY <1>2 DEF TaskState
<1>4. q = [tasks |-> [p.tasks EXCEPT ![e.rec.task] = a], idem |-> p.idem]
  BY DEF Projections
<1> HIDE DEF q, a
<1>5. /\ q \in Projections /\ q.tasks[e.rec.task] = a /\ q.idem = p.idem
      /\ \A t \in Task : t # e.rec.task => q.tasks[t] = p.tasks[t]
  BY <1>3, <1>4, ProjectionFields DEF Projections
<1>6. /\ b \in TaskState /\ b.status = a.status /\ b.version = e.rec.after
      /\ b.evidence = a.evidence /\ b.wcVersion = a.wcVersion
  BY <1>3 DEF TaskState
<1>7. Apply(p, e) = [tasks |-> [q.tasks EXCEPT ![e.rec.task] = b], idem |-> q.idem]
  BY <1>1, <1>5 DEF Projections
<1> HIDE DEF b
<1>8. /\ Apply(p, e) \in Projections /\ Apply(p, e).tasks[e.rec.task] = b
      /\ Apply(p, e).idem = q.idem
      /\ \A t \in Task : t # e.rec.task => Apply(p, e).tasks[t] = q.tasks[t]
  BY <1>5, <1>6, <1>7, ProjectionFields DEF Projections
<1> QED BY <1>3, <1>5, <1>6, <1>8

(* An attachment adds to the evidence of its task and bumps the version of the context. *)
LEMMA ApplyAttached ==
    ASSUME NEW p \in Projections, NEW e, e.rec.op = "attached", e.rec.task \in Task,
           e.rec.evidence \in Evidence
    PROVE  LET was == p.tasks[e.rec.task]
               now == Apply(p, e).tasks[e.rec.task]
           IN  /\ Apply(p, e) \in Projections
               /\ now.status = was.status /\ now.version = was.version
               /\ now.evidence = Append(was.evidence, e.rec.evidence)
               /\ now.wcVersion = was.wcVersion + 1
               /\ \A t \in Task : t # e.rec.task => Apply(p, e).tasks[t] = p.tasks[t]
               /\ Apply(p, e).idem = p.idem
<1> DEFINE s == p.tasks[e.rec.task]
           a == [s EXCEPT !.evidence = Append(@, e.rec.evidence)]
           b == [a EXCEPT !.wcVersion = @ + 1]
           q == [p EXCEPT !.tasks[e.rec.task].evidence = Append(@, e.rec.evidence)]
<1>1. Apply(p, e) = [q EXCEPT !.tasks[e.rec.task].wcVersion = @ + 1]
  BY DEF Apply
<1>2. s \in TaskState
  BY ProjectionFields
<1>3. /\ a \in TaskState /\ a.evidence = Append(s.evidence, e.rec.evidence)
      /\ a.status = s.status /\ a.version = s.version /\ a.wcVersion = s.wcVersion
  <2>1. a \in TaskState
    <3>1. s.evidence \in Seq(Evidence) BY <1>2 DEF TaskState
    <3>2. Append(s.evidence, e.rec.evidence) \in Seq(Evidence) BY <3>1
    <3> DEFINE l == Append(s.evidence, e.rec.evidence)
    <3>3. l \in Seq(Evidence) BY <3>2
    <3>4. a = [s EXCEPT !.evidence = l] OBVIOUS
    <3> HIDE DEF l, a
    <3> QED BY <1>2, <3>3, <3>4 DEF TaskState
  <2>2. a.evidence = Append(s.evidence, e.rec.evidence) BY <1>2 DEF TaskState
  <2>3. a.status = s.status /\ a.version = s.version /\ a.wcVersion = s.wcVersion
    BY <1>2 DEF TaskState
  <2> QED BY <2>1, <2>2, <2>3
<1>4. q = [tasks |-> [p.tasks EXCEPT ![e.rec.task] = a], idem |-> p.idem]
  BY DEF Projections
<1> HIDE DEF q, a
<1>5. /\ q \in Projections /\ q.tasks[e.rec.task] = a /\ q.idem = p.idem
      /\ \A t \in Task : t # e.rec.task => q.tasks[t] = p.tasks[t]
  BY <1>3, <1>4, ProjectionFields DEF Projections
<1>6. /\ b \in TaskState /\ b.status = a.status /\ b.version = a.version
      /\ b.evidence = a.evidence /\ b.wcVersion = a.wcVersion + 1
  <2>1. a.wcVersion + 1 \in Nat
    <3>1. a \in TaskState BY <1>3
    <3>2. a.wcVersion \in Nat BY <3>1, TaskStateFields
    <3> QED BY <3>2
  <2> DEFINE m == a.wcVersion + 1
  <2>2. m \in Nat /\ b = [a EXCEPT !.wcVersion = m]
    BY <2>1
  <2> HIDE DEF m, b
  <2>3. b \in TaskState /\ b.wcVersion = m
    BY <1>3, <2>2 DEF TaskState
  <2>4. b.status = a.status /\ b.version = a.version /\ b.evidence = a.evidence
    BY <1>3, <2>2 DEF TaskState
  <2> QED BY <2>3, <2>4 DEF m
<1>7. Apply(p, e) = [tasks |-> [q.tasks EXCEPT ![e.rec.task] = b], idem |-> q.idem]
  BY <1>1, <1>5 DEF Projections
<1> HIDE DEF b
<1>8. /\ Apply(p, e) \in Projections /\ Apply(p, e).tasks[e.rec.task] = b
      /\ Apply(p, e).idem = q.idem
      /\ \A t \in Task : t # e.rec.task => Apply(p, e).tasks[t] = q.tasks[t]
  BY <1>5, <1>6, <1>7, ProjectionFields DEF Projections
<1> QED BY <1>3, <1>5, <1>6, <1>8

(* A record changes the state of its own task only. *)
LEMMA ApplyOthers ==
    ASSUME NEW p \in Projections, NEW e, e.rec \in Record
    PROVE  /\ Apply(p, e) \in Projections
           /\ \A t \in Task : t # e.rec.task => Apply(p, e).tasks[t] = p.tasks[t]
<1>1. /\ e.rec.task \in Task
      /\ \/ e.rec.op = "created" /\ e.rec.key \in Key
         \/ e.rec.op = "transitioned" /\ e.rec.to \in Status /\ e.rec.after \in Nat
         \/ e.rec.op = "attached" /\ e.rec.evidence \in Evidence
  BY Records
<1>2. CASE e.rec.op = "created" /\ e.rec.key \in Key
  BY <1>1, <1>2, ApplyCreated
<1>3. CASE e.rec.op = "transitioned" /\ e.rec.to \in Status /\ e.rec.after \in Nat
  BY <1>1, <1>3, ApplyTransitioned
<1>4. CASE e.rec.op = "attached" /\ e.rec.evidence \in Evidence
  BY <1>1, <1>4, ApplyAttached
<1> QED BY <1>1, <1>2, <1>3, <1>4

(* One state of a task following another is an order. *)
LEMMA LaterReflexive ==
    ASSUME NEW s \in TaskState
    PROVE  Later(s, s)
BY TaskStateFields DEF Later

(* What follows a later state follows the earlier one. *)
LEMMA LaterTransitive ==
    ASSUME NEW a \in TaskState, NEW b \in TaskState, NEW c \in TaskState,
           Later(a, b), Later(b, c)
    PROVE  Later(a, c)
<1>1. /\ a.version \in Nat /\ b.version \in Nat /\ c.version \in Nat
      /\ a.wcVersion \in Nat /\ b.wcVersion \in Nat /\ c.wcVersion \in Nat
      /\ Rank[a.status] \in Nat /\ Rank[b.status] \in Nat /\ Rank[c.status] \in Nat
  <2>1. \A s \in Status : Rank[s] \in Nat
    BY DEF Status, Rank
  <2> QED BY <2>1, TaskStateFields
<1>2. a.version <= c.version /\ a.wcVersion <= c.wcVersion
  BY <1>1 DEF Later
<1>3. IF a.version = c.version THEN a.status = c.status ELSE Rank[a.status] < Rank[c.status]
  BY <1>1 DEF Later
<1>4. a.wcVersion = c.wcVersion => a.evidence = c.evidence
  BY <1>1 DEF Later
<1>5. ASSUME NEW i \in 1..Len(a.evidence)
      PROVE  \E j \in 1..Len(c.evidence) : a.evidence[i] = c.evidence[j]
  <2>1. PICK j \in 1..Len(b.evidence) : a.evidence[i] = b.evidence[j]
    BY DEF Later
  <2>2. PICK l \in 1..Len(c.evidence) : b.evidence[j] = c.evidence[l]
    BY DEF Later
  <2> QED BY <2>1, <2>2
<1> QED BY <1>2, <1>3, <1>4, <1>5 DEF Later

(* A legal transition is a step along the status machine. *)
LEMMA LegalIsForward ==
    ASSUME NEW from \in Status, NEW to \in Status, LegalTransition(from, to)
    PROVE  Rank[from] < Rank[to]
BY DEF Status, Rank, LegalTransition

-----------------------------------------------------------------------------
(* The reducer keeps the keys and tasks in order when an entry follows.      *)
LEMMA ApplySound ==
    ASSUME NEW es, NEW fs, NEW n \in Nat, NEW p, NEW e, Sound(p, es, n), e.rec \in Record,
           \A i \in 1..n : es[i].rec \in Record,
           \A i \in 1..n : fs[i].rec = es[i].rec, fs[n + 1].rec = e.rec,
           e.rec.op # "created" => p.tasks[e.rec.task].version > 0,
           e.rec.op = "transitioned" => e.rec.after > 0
    PROVE  Sound(Apply(p, e), fs, n + 1)
<1> DEFINE r == e.rec
           q == Apply(p, e)
<1>1. /\ p \in Projections
      /\ \A i \in 1..n : es[i].rec.op = "created" => p.idem[es[i].rec.key] # NoTask
      /\ \A k \in Key : p.idem[k] # NoTask => p.tasks[p.idem[k]].version > 0
      /\ \A t \in Task : p.tasks[t].version = 0 => p.tasks[t] = Absent
  BY DEF Sound, Projections
<1>2. /\ r.task \in Task
      /\ \/ r.op = "created" /\ r.key \in Key
         \/ r.op = "transitioned" /\ r.to \in Status /\ r.after \in Nat
         \/ r.op = "attached" /\ r.evidence \in Evidence
  BY Records
<1>3. /\ q \in Projections
      /\ \A t \in Task : t # r.task => q.tasks[t] = p.tasks[t]
      /\ q.tasks[r.task].version > 0
      /\ \A k \in Key : p.idem[k] # NoTask => q.idem[k] # NoTask
      /\ \A k \in Key : q.idem[k] = p.idem[k] \/ q.idem[k] = r.task
      /\ r.op = "created" => r.key \in Key /\ q.idem[r.key] # NoTask
  <2>1. CASE r.op = "created"
    <3>1. /\ q \in Projections /\ q.tasks[r.task] = Planned
          /\ \A t \in Task : t # r.task => q.tasks[t] = p.tasks[t]
          /\ q.idem[r.key] = r.task /\ r.key \in Key
          /\ \A k \in Key : k # r.key => q.idem[k] = p.idem[k]
      BY <1>1, <1>2, <2>1, ApplyCreated
    <3>2. r.task # NoTask /\ Planned.version > 0
      BY <1>2, FirstStates
    <3> QED BY <2>1, <3>1, <3>2
  <2>2. CASE r.op = "transitioned"
    <3>1. r.task \in Task /\ r.to \in Status /\ r.after \in Nat /\ r.op # "created"
      BY <1>2, <2>2
    <3>2. r.after > 0
      BY <2>2
    <3>3. /\ q \in Projections /\ q.tasks[r.task].version = r.after /\ q.idem = p.idem
          /\ \A t \in Task : t # r.task => q.tasks[t] = p.tasks[t]
      BY <1>1, <2>2, <3>1, ApplyTransitioned
    <3> QED BY <3>1, <3>2, <3>3
  <2>3. CASE r.op = "attached"
    <3>1. r.evidence \in Evidence /\ r.op # "created"
      BY <1>2, <2>3
    <3>2. q.tasks[r.task].version = p.tasks[r.task].version /\ q.idem = p.idem
      BY <1>1, <1>2, <2>3, <3>1, ApplyAttached
    <3>3. q \in Projections /\ \A t \in Task : t # r.task => q.tasks[t] = p.tasks[t]
      BY <1>1, ApplyOthers
    <3> QED BY <3>1, <3>2, <3>3
  <2> QED BY <1>2, <2>1, <2>2, <2>3
<1> HIDE DEF q, r
<1>4. ASSUME NEW i \in 1..(n + 1), fs[i].rec.op = "created" PROVE q.idem[fs[i].rec.key] # NoTask
  <2>1. CASE i = n + 1
    BY <1>3, <1>4, <2>1 DEF r
  <2>2. CASE i \in 1..n
    <3>1. es[i].rec \in Record /\ es[i].rec.op = "created"
      BY <1>4, <2>2
    <3>2. es[i].rec.key \in Key
      BY <3>1, Records
    <3> QED BY <1>1, <1>3, <2>2, <3>1, <3>2
  <2> QED BY <2>1, <2>2
<1>5. ASSUME NEW k \in Key, q.idem[k] # NoTask PROVE q.tasks[q.idem[k]].version > 0
  <2>1. CASE q.idem[k] = r.task
    BY <1>3, <2>1
  <2>2. CASE q.idem[k] = p.idem[k] /\ q.idem[k] # r.task
    <3>1. p.idem[k] \in Task
      BY <1>1, <1>5, <2>2, ProjectionFields
    <3> QED BY <1>1, <1>3, <1>5, <2>2, <3>1
  <2> QED BY <1>3, <2>1, <2>2
<1>6. ASSUME NEW t \in Task, q.tasks[t].version = 0 PROVE q.tasks[t] = Absent
  <2>1. t # r.task
    BY <1>3, <1>6
  <2> QED BY <1>1, <1>3, <1>6, <2>1
<1> QED BY <1>3, <1>4, <1>5, <1>6 DEF Sound, Projections, q

(* A record the registry may write in the state that p shows. *)
Wanted(p, r) ==
    /\ r \in Record
    /\ r.op = "created" => p.tasks[r.task].version = 0 /\ p.idem[r.key] = NoTask
    /\ r.op # "created" => p.tasks[r.task].version > 0
    /\ r.op = "transitioned" => /\ LegalTransition(p.tasks[r.task].status, r.to)
                                /\ r.after = p.tasks[r.task].version + 1

Ahead(p, q) == \A t \in Task : p.tasks[t].version > 0 => Later(p.tasks[t], q.tasks[t])

(* A transition from the older state leads the newer one past the older. *)
LEMMA LaterByTransition ==
    ASSUME NEW a \in TaskState, NEW b \in TaskState, NEW d, NEW to \in Status, Later(a, b),
           LegalTransition(a.status, to), d.status = to, d.version = a.version + 1,
           d.evidence = b.evidence, d.wcVersion = b.wcVersion
    PROVE  Later(a, d)
<1>1. a.status \in Status /\ a.version \in Nat
  BY TaskStateFields
<1>2. Rank[a.status] < Rank[d.status]
  BY <1>1, LegalIsForward
<1>3. a.version <= d.version /\ a.version # d.version
  BY <1>1
<1>4. /\ a.wcVersion <= d.wcVersion
      /\ a.wcVersion = d.wcVersion => a.evidence = d.evidence
      /\ \A i \in 1..Len(a.evidence) : \E j \in 1..Len(d.evidence) :
            a.evidence[i] = d.evidence[j]
  BY DEF Later
<1> QED BY <1>2, <1>3, <1>4 DEF Later

(* The same transition leads both to the same status. *)
LEMMA LaterBothTransition ==
    ASSUME NEW a, NEW b, NEW c, NEW d, Later(a, b),
           c.status = d.status, c.version = d.version, c.version \in Nat,
           c.evidence = a.evidence, c.wcVersion = a.wcVersion,
           d.evidence = b.evidence, d.wcVersion = b.wcVersion
    PROVE  Later(c, d)
<1>1. c.version <= d.version
  OBVIOUS
<1>2. c.wcVersion <= d.wcVersion
  BY DEF Later
<1>3. c.wcVersion = d.wcVersion => c.evidence = d.evidence
  BY DEF Later
<1>4. \A i \in 1..Len(c.evidence) : \E j \in 1..Len(d.evidence) :
         c.evidence[i] = d.evidence[j]
  BY DEF Later
<1> QED BY <1>1, <1>2, <1>3, <1>4 DEF Later

(* Evidence for the newer state makes it newer yet. *)
LEMMA LaterByEvidence ==
    ASSUME NEW a \in TaskState, NEW b \in TaskState, NEW d, NEW ev \in Evidence, Later(a, b),
           d.status = b.status, d.version = b.version,
           d.evidence = Append(b.evidence, ev), d.wcVersion = b.wcVersion + 1
    PROVE  Later(a, d)
<1>1. /\ a.wcVersion \in Nat /\ b.wcVersion \in Nat /\ b.evidence \in Seq(Evidence)
  BY TaskStateFields
<1>2. /\ Len(b.evidence) \in Nat /\ Len(d.evidence) = Len(b.evidence) + 1
      /\ \A j \in 1..Len(b.evidence) : d.evidence[j] = b.evidence[j]
  <2> DEFINE s == b.evidence
  <2>1. s \in Seq(Evidence) /\ d.evidence = Append(s, ev)
    BY <1>1
  <2> HIDE DEF s
  <2>2. /\ Len(s) \in Nat /\ Len(d.evidence) = Len(s) + 1
        /\ \A j \in 1..Len(s) : d.evidence[j] = s[j]
    BY <2>1, AppendFacts
  <2> QED BY <2>2 DEF s
<1>3. ASSUME NEW i \in 1..Len(a.evidence)
      PROVE  \E j \in 1..Len(d.evidence) : a.evidence[i] = d.evidence[j]
  <2>1. PICK j \in 1..Len(b.evidence) : a.evidence[i] = b.evidence[j]
    BY DEF Later
  <2>2. j \in 1..Len(d.evidence)
    BY <1>2
  <2> QED BY <1>2, <2>1, <2>2
<1>4. a.wcVersion <= d.wcVersion /\ a.wcVersion # d.wcVersion
  BY <1>1 DEF Later
<1>5. /\ a.version <= d.version
      /\ IF a.version = d.version THEN a.status = d.status
                                  ELSE Rank[a.status] < Rank[d.status]
  BY DEF Later
<1> QED BY <1>3, <1>4, <1>5 DEF Later

(* The same evidence for both keeps the one not older. *)
LEMMA LaterBothEvidence ==
    ASSUME NEW a \in TaskState, NEW b \in TaskState, NEW c, NEW d, NEW ev \in Evidence,
           Later(a, b), c.status = a.status, c.version = a.version,
           c.evidence = Append(a.evidence, ev), c.wcVersion = a.wcVersion + 1,
           d.status = b.status, d.version = b.version,
           d.evidence = Append(b.evidence, ev), d.wcVersion = b.wcVersion + 1
    PROVE  Later(c, d)
<1>1. /\ a.wcVersion \in Nat /\ b.wcVersion \in Nat
      /\ a.evidence \in Seq(Evidence) /\ b.evidence \in Seq(Evidence)
  BY TaskStateFields
<1>2. ASSUME NEW x, NEW s, s \in Seq(Evidence), x.evidence = Append(s, ev)
      PROVE  /\ Len(s) \in Nat /\ Len(x.evidence) = Len(s) + 1
             /\ \A j \in 1..Len(s) : x.evidence[j] = s[j]
             /\ x.evidence[Len(s) + 1] = ev
  BY <1>2, AppendFacts
<1>3. /\ Len(a.evidence) \in Nat /\ Len(c.evidence) = Len(a.evidence) + 1
      /\ \A j \in 1..Len(a.evidence) : c.evidence[j] = a.evidence[j]
      /\ c.evidence[Len(a.evidence) + 1] = ev
  BY <1>1, <1>2
<1>4. /\ Len(b.evidence) \in Nat /\ Len(d.evidence) = Len(b.evidence) + 1
      /\ \A j \in 1..Len(b.evidence) : d.evidence[j] = b.evidence[j]
      /\ d.evidence[Len(b.evidence) + 1] = ev
  BY <1>1, <1>2
<1>5. ASSUME NEW i \in 1..Len(c.evidence)
      PROVE  \E j \in 1..Len(d.evidence) : c.evidence[i] = d.evidence[j]
  <2>1. CASE i \in 1..Len(a.evidence)
    <3>1. PICK j \in 1..Len(b.evidence) : a.evidence[i] = b.evidence[j]
      BY <2>1 DEF Later
    <3>2. j \in 1..Len(d.evidence)
      BY <1>4
    <3> QED BY <1>3, <1>4, <2>1, <3>1, <3>2
  <2>2. CASE i = Len(a.evidence) + 1
    <3>1. Len(b.evidence) + 1 \in 1..Len(d.evidence)
      BY <1>4
    <3> QED BY <1>3, <1>4, <2>2, <3>1
  <2> QED BY <1>3, <2>1, <2>2
<1>6. c.wcVersion <= d.wcVersion /\ (c.wcVersion = d.wcVersion => a.wcVersion = b.wcVersion)
  BY <1>1 DEF Later
<1>7. c.wcVersion = d.wcVersion => c.evidence = d.evidence
  BY <1>6 DEF Later
<1>8. /\ c.version <= d.version
      /\ IF c.version = d.version THEN c.status = d.status
                                  ELSE Rank[c.status] < Rank[d.status]
  BY DEF Later
<1> QED BY <1>5, <1>6, <1>7, <1>8 DEF Later

(* A record wanted in state p leads any state that is not older to a later one. *)
LEMMA ApplyAhead ==
    ASSUME NEW p \in Projections, NEW q \in Projections, NEW e, Wanted(p, e.rec), Ahead(p, q)
    PROVE  Ahead(p, Apply(q, e))
<1> DEFINE r == e.rec
           w == Apply(q, e)
<1>1. /\ r.task \in Task
      /\ \/ r.op = "created" /\ r.key \in Key
         \/ r.op = "transitioned" /\ r.to \in Status /\ r.after \in Nat
         \/ r.op = "attached" /\ r.evidence \in Evidence
  BY Records DEF Wanted
<1>2. \A t \in Task : t # r.task => w.tasks[t] = q.tasks[t]
  BY ApplyOthers DEF Wanted
<1>3. ASSUME p.tasks[r.task].version > 0 PROVE Later(p.tasks[r.task], w.tasks[r.task])
  <2> DEFINE a == p.tasks[r.task]
             b == q.tasks[r.task]
             d == w.tasks[r.task]
  <2> SUFFICES Later(a, d)
    OBVIOUS
  <2>1. Later(a, b)
    BY <1>1, <1>3 DEF Ahead
  <2>2. a \in TaskState /\ b \in TaskState
    BY <1>1, ProjectionFields
  <2>3. CASE r.op = "transitioned"
    <3>1. /\ d.status = r.to /\ d.version = r.after
          /\ d.evidence = b.evidence /\ d.wcVersion = b.wcVersion
      BY <1>1, <2>3, ApplyTransitioned
    <3>2. LegalTransition(a.status, r.to) /\ r.after = a.version + 1
      BY <2>3 DEF Wanted
    <3>3. r.to \in Status
      BY <1>1, <2>3
    <3> HIDE DEF a, b, d, w, r
    <3> QED BY <2>1, <2>2, <3>1, <3>2, <3>3, LaterByTransition
  <2>4. CASE r.op = "attached"
    <3>1. /\ d.status = b.status /\ d.version = b.version
          /\ d.evidence = Append(b.evidence, r.evidence) /\ d.wcVersion = b.wcVersion + 1
      BY <1>1, <2>4, ApplyAttached
    <3>2. r.evidence \in Evidence
      BY <1>1, <2>4
    <3> HIDE DEF a, b, d, w, r
    <3> QED BY <2>1, <2>2, <3>1, <3>2, LaterByEvidence
  <2>5. r.op # "created"
    BY <1>3 DEF Wanted
  <2> QED BY <1>1, <2>3, <2>4, <2>5
<1> HIDE DEF w, r
<1>4. ASSUME NEW t \in Task, p.tasks[t].version > 0 PROVE Later(p.tasks[t], w.tasks[t])
  <2>1. CASE t = r.task BY <1>3, <1>4, <2>1
  <2>2. CASE t # r.task BY <1>2, <1>4, <2>2 DEF Ahead
  <2> QED BY <2>1, <2>2
<1> QED BY <1>4 DEF Ahead, w

(* Applied on both, it keeps the one not older than the other. *)
LEMMA ApplyTogether ==
    ASSUME NEW p \in Projections, NEW q \in Projections, NEW e, Wanted(p, e.rec), Ahead(p, q)
    PROVE  Ahead(Apply(p, e), Apply(q, e))
<1> DEFINE r == e.rec
           v == Apply(p, e)
           w == Apply(q, e)
<1>1. /\ r.task \in Task
      /\ \/ r.op = "created" /\ r.key \in Key
         \/ r.op = "transitioned" /\ r.to \in Status /\ r.after \in Nat
         \/ r.op = "attached" /\ r.evidence \in Evidence
  BY Records DEF Wanted
<1>2. \A t \in Task : t # r.task => v.tasks[t] = p.tasks[t] /\ w.tasks[t] = q.tasks[t]
  <2>1. r \in Record
    BY DEF Wanted
  <2> QED BY <2>1, ApplyOthers
<1>3. Later(v.tasks[r.task], w.tasks[r.task])
  <2> DEFINE a == p.tasks[r.task]
             b == q.tasks[r.task]
             c == v.tasks[r.task]
             d == w.tasks[r.task]
  <2> SUFFICES Later(c, d)
    OBVIOUS
  <2>1. a \in TaskState /\ b \in TaskState
    BY <1>1, ProjectionFields
  <2>2. CASE r.op = "created"
    BY <1>1, <2>2, ApplyCreated, FirstStates, LaterReflexive
  <2>3. CASE r.op # "created"
    <3>1. Later(a, b)
      BY <1>1, <2>3 DEF Ahead, Wanted
    <3>2. CASE r.op = "transitioned"
      <4>1. /\ c.status = r.to /\ c.version = r.after
            /\ c.evidence = a.evidence /\ c.wcVersion = a.wcVersion
            /\ d.status = r.to /\ d.version = r.after
            /\ d.evidence = b.evidence /\ d.wcVersion = b.wcVersion
            /\ r.after \in Nat
        BY <1>1, <3>2, ApplyTransitioned
      <4> HIDE DEF a, b, c, d, v, w, r
      <4> QED BY <3>1, <4>1, LaterBothTransition
    <3>3. CASE r.op = "attached"
      <4>1. /\ c.status = a.status /\ c.version = a.version
            /\ c.evidence = Append(a.evidence, r.evidence) /\ c.wcVersion = a.wcVersion + 1
            /\ d.status = b.status /\ d.version = b.version
            /\ d.evidence = Append(b.evidence, r.evidence) /\ d.wcVersion = b.wcVersion + 1
        <5>1. e.rec.evidence \in Evidence /\ e.rec.task \in Task /\ e.rec.op = "attached"
          BY <1>1, <3>3
        <5>2. /\ c.status = a.status /\ c.version = a.version
              /\ c.evidence = Append(a.evidence, r.evidence) /\ c.wcVersion = a.wcVersion + 1
          BY <5>1, ApplyAttached, ZenonT(40)
        <5>3. /\ d.status = b.status /\ d.version = b.version
              /\ d.evidence = Append(b.evidence, r.evidence) /\ d.wcVersion = b.wcVersion + 1
          BY <5>1, ApplyAttached, ZenonT(40)
        <5> QED BY <5>2, <5>3
      <4>2. r.evidence \in Evidence
        BY <1>1, <3>3
      <4> HIDE DEF a, b, c, d, v, w, r
      <4> QED BY <2>1, <3>1, <4>1, <4>2, LaterBothEvidence
    <3> QED BY <1>1, <2>3, <3>2, <3>3
  <2> QED BY <2>2, <2>3
<1> HIDE DEF v, w, r
<1>4. ASSUME NEW t \in Task, v.tasks[t].version > 0 PROVE Later(v.tasks[t], w.tasks[t])
  <2>1. CASE t = r.task BY <1>3, <2>1
  <2>2. CASE t # r.task BY <1>2, <1>4, <2>2 DEF Ahead
  <2> QED BY <2>1, <2>2
<1> QED BY <1>4 DEF Ahead, v, w

(* A projection is not older than itself. *)
LEMMA AheadOfItself ==
    ASSUME NEW p \in Projections
    PROVE  Ahead(p, p)
BY ProjectionFields, LaterReflexive DEF Ahead

-----------------------------------------------------------------------------
(* What a step does to the lines: none is added, and a broken one stays broken, *)
(* or one with record r is added.                                               *)
Shrinks ==
    /\ Len(file') \in Nat /\ Len(file') <= Len(file)
    /\ \A i \in 1..Len(file') : file'[i].rec = file[i].rec /\ (file'[i].ok => file[i].ok)

Grows(r) ==
    /\ Len(file') = Len(file) + 1
    /\ \A i \in 1..Len(file) : file'[i].rec = file[i].rec /\ file'[i].ok = file[i].ok
    /\ file'[Len(file) + 1].rec = r

(* The lines of the file and the entries of the memory have records. *)
LEMMA LogMembers ==
    ASSUME Log!TypeOK
    PROVE  /\ Len(file) \in Nat /\ Len(mem) \in Nat /\ synced \in 0..Len(file)
           /\ \A i \in 1..Len(file) : file[i].rec \in Record
           /\ \A i \in 1..Len(mem) : mem[i].rec \in Record
<1>1. /\ file \in Seq(Log!Line) /\ mem \in Seq(Log!Entry) /\ synced \in 0..Len(file)
  BY DEF Log!TypeOK
<1>2. \A l \in Log!Line : l.rec \in Record
  BY DEF Log!Line
<1>3. \A e \in Log!Entry : e.rec \in Record
  BY DEF Log!Entry
<1>4. \A i \in 1..Len(file) : file[i] \in Log!Line
  BY <1>1
<1>5. \A i \in 1..Len(mem) : mem[i] \in Log!Entry
  BY <1>1
<1> QED BY <1>1, <1>2, <1>3, <1>4, <1>5

(* A replay of lines that stay is the same replay. *)
LEMMA ReplayStays ==
    ASSUME NEW n \in Nat, \A i \in 1..n : file'[i].rec = file[i].rec
    PROVE  Replay(n)' = Replay(n)
<1> DEFINE a == [i \in 1..n |-> [rec |-> file[i].rec, seq |-> file[i].seq]]
           b == [i \in 1..n |-> [rec |-> file'[i].rec, seq |-> file'[i].seq]]
<1>1. Len(a) = n /\ Len(b) = n
  OBVIOUS
<1>2. \A i \in 1..n : a[i].rec = b[i].rec
  OBVIOUS
<1>3. Replay(n) = Projection(a) /\ Replay(n)' = Projection(b)
  BY DEF Replay
<1> HIDE DEF a, b
<1> QED BY <1>1, <1>2, <1>3, ProjectionByRecords

(* A replay of one line more applies its record. *)
LEMMA ReplayGoesOn ==
    ASSUME NEW n \in Nat, \A i \in 1..n : file'[i].rec = file[i].rec
    PROVE  Replay(n + 1)' = Apply(Replay(n), [rec |-> file'[n + 1].rec, seq |-> file'[n + 1].seq])
<1> DEFINE a == [i \in 1..n |-> [rec |-> file[i].rec, seq |-> file[i].seq]]
           b == [i \in 1..(n + 1) |-> [rec |-> file'[i].rec, seq |-> file'[i].seq]]
<1>1. Len(a) = n /\ Len(b) = n + 1
  OBVIOUS
<1>2. \A i \in 1..n : a[i].rec = b[i].rec
  OBVIOUS
<1>3. Replay(n) = Projection(a) /\ Replay(n + 1)' = Projection(b)
  BY DEF Replay
<1>4. b[n + 1] = [rec |-> file'[n + 1].rec, seq |-> file'[n + 1].seq]
  OBVIOUS
<1> HIDE DEF a, b
<1>5. Projection(b) = Apply(Projection(a), b[Len(b)])
  BY <1>1, <1>2, ProjectionOfNext
<1> QED BY <1>1, <1>3, <1>4, <1>5

(* Lines that stay are replayed as before. *)
LEMMA ShrinksKeeps ==
    ASSUME Log!TypeOK, Shrinks, NEW n \in 0..Len(file')
    PROVE  /\ n \in 0..Len(file) /\ Replay(n)' = Replay(n) /\ (Whole(n)' => Whole(n))
<1>1. Len(file) \in Nat /\ Len(file') \in Nat /\ Len(file') <= Len(file)
  BY LogMembers DEF Shrinks
<1>2. \A i \in 1..n : i \in 1..Len(file')
  BY <1>1
<1>3. Replay(n)' = Replay(n)
  BY <1>1, <1>2, ReplayStays DEF Shrinks
<1>4. Whole(n)' => Whole(n)
  BY <1>2 DEF Shrinks, Whole
<1> QED BY <1>1, <1>3, <1>4

(* A line put at the end leaves every shorter replay as it was. *)
LEMMA GrowsKeeps ==
    ASSUME Log!TypeOK, NEW r, Grows(r), NEW n \in 0..Len(file)
    PROVE  Replay(n)' = Replay(n) /\ (Whole(n)' <=> Whole(n))
<1>1. Len(file) \in Nat
  BY LogMembers
<1>2. \A i \in 1..n : i \in 1..Len(file)
  BY <1>1
<1>3. Replay(n)' = Replay(n)
  BY <1>1, <1>2, ReplayStays DEF Grows
<1>4. Whole(n)' <=> Whole(n)
  BY <1>2 DEF Grows, Whole
<1> QED BY <1>3, <1>4

(* The state the next record makes of a replay of the whole file, of N lines. *)
LEMMA GrowsByOne ==
    ASSUME Log!TypeOK, NEW r, Grows(r), NEW N, N = Len(file)
    PROVE  /\ N \in Nat /\ Len(file') = N + 1
           /\ Whole(N + 1)' => Whole(N)
           /\ \E e : e.rec = r /\ Replay(N + 1)' = Apply(Replay(N), e)
<1>1. N \in Nat /\ Len(file') = N + 1
  BY LogMembers DEF Grows
<1>2. \A i \in 1..N : i \in 1..(N + 1)
  BY <1>1
<1>3. Whole(N + 1)' => Whole(N)
  BY <1>2 DEF Whole, Grows
<1> DEFINE e == [rec |-> file'[N + 1].rec, seq |-> file'[N + 1].seq]
<1>4. Replay(N + 1)' = Apply(Replay(N), e)
  BY <1>1, ReplayGoesOn DEF Grows
<1>5. e.rec = r
  BY DEF Grows
<1> HIDE DEF e
<1> QED BY <1>1, <1>3, <1>4, <1>5

(* No replay gets unsound when lines are cut off or broken. *)
LEMMA SoundShrinks ==
    ASSUME Log!TypeOK, ReplaysSound, Shrinks
    PROVE  ReplaysSound'
<1> SUFFICES ASSUME NEW n \in 0..Len(file'), Whole(n)'
             PROVE  /\ Sound(Replay(n)', file', n)
                    /\ \A t \in Task : (\A i \in 1..n : file'[i].rec.task # t) =>
                          Replay(n)'.tasks[t] = Absent
  BY DEF ReplaysSound
<1>1. n \in 0..Len(file) /\ Replay(n)' = Replay(n) /\ Whole(n)
  BY ShrinksKeeps
<1>2. Sound(Replay(n), file, n)
      /\ \A t \in Task : (\A i \in 1..n : file[i].rec.task # t) => Replay(n).tasks[t] = Absent
  BY <1>1 DEF ReplaysSound
<1>3. \A i \in 1..n : file'[i].rec = file[i].rec
  BY <1>1 DEF Shrinks
<1>4. Sound(Replay(n), file', n)
  BY <1>2, <1>3 DEF Sound
<1> QED BY <1>1, <1>2, <1>3, <1>4

(* Nor by a record that was wanted in the memory: a replay of the whole file has *)
(* the task the record is about.                                                 *)
LEMMA SoundGrows ==
    ASSUME Log!TypeOK, ReplaysSound, NEW r, Grows(r), Wanted(Current, r),
           Current \in Projections, Whole(Len(file)) => Ahead(Current, Replay(Len(file)))
    PROVE  ReplaysSound'
<1> SUFFICES ASSUME NEW n \in 0..Len(file'), Whole(n)'
             PROVE  /\ Sound(Replay(n)', file', n)
                    /\ \A t \in Task : (\A i \in 1..n : file'[i].rec.task # t) =>
                          Replay(n)'.tasks[t] = Absent
  BY DEF ReplaysSound
<1>5. PICK N : N = Len(file)
  OBVIOUS
<1>1. N \in Nat /\ Len(file') = N + 1 /\ (Whole(N + 1)' => Whole(N))
  BY <1>5, GrowsByOne
<1>2. \A i \in 1..N : file'[i].rec = file[i].rec
  BY <1>5 DEF Grows
<1>3. CASE n \in 0..N
  <2>1. Replay(n)' = Replay(n) /\ Whole(n)
    BY <1>3, <1>5, GrowsKeeps
  <2>2. Sound(Replay(n), file, n)
        /\ \A t \in Task : (\A i \in 1..n : file[i].rec.task # t) => Replay(n).tasks[t] = Absent
    BY <1>3, <1>5, <2>1 DEF ReplaysSound
  <2>3. \A i \in 1..n : file'[i].rec = file[i].rec
    BY <1>1, <1>2, <1>3
  <2>4. Sound(Replay(n), file', n)
    BY <2>2, <2>3 DEF Sound
  <2> QED BY <2>1, <2>2, <2>3, <2>4
<1>4. CASE n = N + 1
  <2>1. Whole(N) /\ N \in 0..N
    BY <1>1, <1>4
  <2>2. Sound(Replay(N), file, N)
        /\ \A t \in Task : (\A i \in 1..N : file[i].rec.task # t) => Replay(N).tasks[t] = Absent
    BY <1>5, <2>1 DEF ReplaysSound
  <2>3. PICK e : e.rec = r /\ Replay(N + 1)' = Apply(Replay(N), e)
    BY <1>5, GrowsByOne
  <2>4. /\ r \in Record /\ r.task \in Task
        /\ r.op # "created" => Current.tasks[r.task].version > 0
        /\ r.op = "transitioned" => r.after > 0
    <3>1. r \in Record /\ r.task \in Task
      BY Records DEF Wanted
    <3>2. Current.tasks[r.task].version \in Nat
      BY <3>1, ProjectionFields, TaskStateFields
    <3> QED BY <3>1, <3>2 DEF Wanted
  <2>5. Replay(N) \in Projections
    BY <2>2 DEF Sound, Projections
  <2>6. r.op # "created" => Replay(N).tasks[r.task].version > 0
    <3>1. SUFFICES ASSUME r.op # "created" PROVE Replay(N).tasks[r.task].version > 0
      OBVIOUS
    <3>2. Later(Current.tasks[r.task], Replay(N).tasks[r.task])
      BY <1>5, <2>1, <2>4, <3>1 DEF Ahead
    <3>3. /\ Current.tasks[r.task].version \in Nat
          /\ Replay(N).tasks[r.task].version \in Nat
      BY <2>4, <2>5, ProjectionFields, TaskStateFields
    <3> QED BY <2>4, <3>1, <3>2, <3>3 DEF Later
  <2>7. Sound(Apply(Replay(N), e), file', N + 1)
    <3>1. \A i \in 1..N : file[i].rec \in Record
      BY <1>5, LogMembers
    <3>2. file'[N + 1].rec = r
      BY <1>5 DEF Grows
    <3> QED BY <1>1, <1>2, <2>2, <2>3, <2>4, <2>6, <3>1, <3>2, ApplySound
  <2>8. ASSUME NEW t \in Task, \A i \in 1..(N + 1) : file'[i].rec.task # t
        PROVE  Apply(Replay(N), e).tasks[t] = Absent
    <3>1. t # r.task
      <4>1. N + 1 \in 1..(N + 1) /\ file'[N + 1].rec = r
        BY <1>1, <1>5 DEF Grows
      <4> QED BY <2>8, <4>1
    <3>2. Replay(N).tasks[t] = Absent
      <4>1. \A i \in 1..N : i \in 1..(N + 1)
        BY <1>1
      <4>2. \A i \in 1..N : file[i].rec.task # t
        BY <1>2, <2>8, <4>1
      <4> QED BY <2>2, <4>2
    <3>3. Apply(Replay(N), e).tasks[t] = Replay(N).tasks[t]
      BY <2>3, <2>4, <2>5, <3>1, ApplyOthers
    <3> QED BY <3>2, <3>3
  <2> QED BY <1>4, <2>3, <2>7, <2>8
<1> QED BY <1>1, <1>3, <1>4

-----------------------------------------------------------------------------
(* The log of the registry is the log with the records of the registry. *)
LEMMA SameLog ==
    /\ Log!IInv = LogOf(Record)!IInv /\ Log!IInv' = LogOf(Record)!IInv'
    /\ Log!TypeOK = LogOf(Record)!TypeOK /\ Log!SyncInv = LogOf(Record)!SyncInv
    /\ Log!ServesAllAcked = LogOf(Record)!ServesAllAcked
    /\ Log!LossBoundedByTears = LogOf(Record)!LossBoundedByTears
BY DEF LogOf!IInv, Log!IInv, LogOf!TypeOK, Log!TypeOK, LogOf!SyncInv, Log!SyncInv,
       LogOf!DurableInv, Log!DurableInv, LogOf!ServesAllAcked, Log!ServesAllAcked,
       LogOf!SeqInv, Log!SeqInv, LogOf!AckedSeqsGrow, Log!AckedSeqsGrow,
       LogOf!LinesInv, Log!LinesInv, LogOf!TornInv, Log!TornInv, LogOf!Torn, Log!Torn,
       LogOf!Cardinality, Log!Cardinality, LogOf!Line, Log!Line, LogOf!Entry, Log!Entry,
       LogOf!LossBoundedByTears, Log!LossBoundedByTears, LogOf!OnDisk, Log!OnDisk

(* The writes of the log are those of its instance, *)
LEMMA SameWrites ==
    ASSUME NEW r
    PROVE  /\ Log!CanAppend = LogOf(Record)!CanAppend
           /\ \A ok \in BOOLEAN : Log!Written(r, ok) = LogOf(Record)!Written(r, ok)
           /\ Log!AppendRecord(r) = LogOf(Record)!AppendRecord(r)
           /\ Log!AppendUnsynced(r) = LogOf(Record)!AppendUnsynced(r)
           /\ \A whole \in BOOLEAN : Log!AppendTorn(r, whole) = LogOf(Record)!AppendTorn(r, whole)
BY DEF LogOf!CanAppend, Log!CanAppend, LogOf!Written, Log!Written, LogOf!Put, Log!Put,
       LogOf!Spoiled, Log!Spoiled, LogOf!NextSeq, Log!NextSeq, LogOf!SyncedUpTo, Log!SyncedUpTo,
       LogOf!AppendRecord, Log!AppendRecord, LogOf!AppendUnsynced, Log!AppendUnsynced,
       LogOf!AppendTorn, Log!AppendTorn, LogOf!store, Log!store

(* and so are its start, its end, its replay and its loss of power. *)
LEMMA SameFaults ==
    /\ Log!Init = LogOf(Record)!Init
    /\ Log!Exit = LogOf(Record)!Exit /\ Log!Load = LogOf(Record)!Load
    /\ Log!LoadRefused = LogOf(Record)!LoadRefused
    /\ \A n, cut : Log!PowerLoss(n, cut) = LogOf(Record)!PowerLoss(n, cut)
BY DEF LogOf!Init, Log!Init, LogOf!Exit, Log!Exit, LogOf!Load, Log!Load,
       LogOf!LoadRefused, Log!LoadRefused, LogOf!PowerLoss, Log!PowerLoss,
       LogOf!disk, Log!disk, LogOf!Broken, Log!Broken, LogOf!Tolerated, Log!Tolerated,
       LogOf!Readable, Log!Readable, LogOf!ReplayedSeq, Log!ReplayedSeq,
       LogOf!Spoiled, Log!Spoiled

Writes(r) == \/ Log!AppendRecord(r) \/ Log!AppendUnsynced(r)
             \/ \E whole \in BOOLEAN : Log!AppendTorn(r, whole)

(* What a write does to the lines. *)
LEMMA WriteShapes ==
    ASSUME Log!IInv, NEW r \in Record, Writes(r)
    PROVE  /\ ended => Grows(r)
           /\ ~ended => Shrinks /\ Len(file') = Len(file) /\ ~Whole(Len(file))'
<1>1. LogOf(Record)!TypeOK /\ LogOf(Record)!SyncInv
  BY SameLog DEF LogOf!IInv
<1>2. \E ok \in BOOLEAN : LogOf(Record)!CanAppend /\ file' = LogOf(Record)!Written(r, ok)
  BY SameWrites DEF Writes, LogOf!AppendRecord, LogOf!AppendUnsynced, LogOf!AppendTorn
<1>3. PICK ok \in BOOLEAN : LogOf(Record)!CanAppend /\ file' = LogOf(Record)!Written(r, ok)
  BY <1>2
<1>4. /\ Len(file') > 0 /\ file' \in Seq(LogOf(Record)!Line)
      /\ \A i \in 1..Len(file) : i # Len(file') => file'[i] = file[i]
      /\ ended => /\ Len(file') = Len(file) + 1
                  /\ file'[Len(file')].rec = r
      /\ ~ended => /\ Len(file') = Len(file) /\ ~file'[Len(file')].ok
                   /\ file'[Len(file)].rec = file[Len(file)].rec
  BY <1>1, <1>3, PutFacts
<1>5. Len(file) \in Nat /\ Len(file') \in Nat
  BY <1>1, <1>4 DEF LogOf!TypeOK
<1>6. ASSUME ended PROVE Grows(r)
  <2>1. Len(file') = Len(file) + 1 /\ file'[Len(file) + 1].rec = r
    BY <1>4, <1>6
  <2>2. \A i \in 1..Len(file) : file'[i] = file[i]
    BY <1>4, <1>5, <2>1
  <2> QED BY <2>1, <2>2 DEF Grows
<1>7. ASSUME ~ended PROVE Shrinks /\ Len(file') = Len(file) /\ ~Whole(Len(file))'
  <2>1. /\ Len(file') = Len(file) /\ ~file'[Len(file)].ok
        /\ file'[Len(file)].rec = file[Len(file)].rec
    BY <1>4, <1>7
  <2>2. ASSUME NEW i \in 1..Len(file')
        PROVE  file'[i].rec = file[i].rec /\ (file'[i].ok => file[i].ok)
    <3>1. CASE i = Len(file) BY <2>1, <3>1
    <3>2. CASE i # Len(file) BY <1>4, <2>1, <3>2
    <3> QED BY <3>1, <3>2
  <2>3. Shrinks
    BY <1>5, <2>1, <2>2 DEF Shrinks
  <2>4. ~Whole(Len(file))'
    <3>1. Len(file') \in 1..Len(file')
      BY <1>4, <1>5
    <3> QED BY <2>1, <3>1 DEF Whole
  <2> QED BY <2>1, <2>3, <2>4
<1> QED BY <1>6, <1>7

(* What a failure of the machine does to them. *)
LEMMA CutShape ==
    ASSUME Log!IInv, NEW n \in 0..MaxLines, NEW cut \in BOOLEAN, Log!PowerLoss(n, cut)
    PROVE  /\ Shrinks /\ state' = "down" /\ mem' = <<>>
           /\ UNCHANGED <<synced, acked>>
<1>1. LogOf(Record)!TypeOK /\ LogOf(Record)!PowerLoss(n, cut)
  BY SameLog, SameFaults DEF LogOf!IInv
<1>2. /\ n \in Nat /\ n <= Len(file) /\ file' \in Seq(LogOf(Record)!Line)
      /\ Len(file') = IF cut THEN n + 1 ELSE n
      /\ \A i \in 1..n : file'[i] = file[i]
      /\ cut => /\ n < Len(file)
                /\ file'[n + 1].rec = file[n + 1].rec /\ ~file'[n + 1].ok
  BY <1>1, PowerLossLines
<1>3. Len(file) \in Nat
  BY <1>1 DEF LogOf!TypeOK
<1>4. Len(file') \in Nat /\ Len(file') <= Len(file)
  BY <1>2, <1>3
<1>5. ASSUME NEW i \in 1..Len(file')
      PROVE  file'[i].rec = file[i].rec /\ (file'[i].ok => file[i].ok)
  <2>1. CASE i \in 1..n BY <1>2, <2>1
  <2>2. CASE i \notin 1..n
    <3>1. cut /\ i = n + 1
      BY <1>2, <2>2
    <3> QED BY <1>2, <3>1
  <2> QED BY <2>1, <2>2
<1>6. state' = "down" /\ mem' = <<>> /\ UNCHANGED <<synced, acked>>
  BY DEF Log!PowerLoss
<1> QED BY <1>4, <1>5, <1>6 DEF Shrinks

(* An acknowledged record is applied to the memory. *)
LEMMA CurrentGoesOn ==
    ASSUME Log!TypeOK, NEW r \in Record, Log!AppendRecord(r)
    PROVE  /\ Len(mem') = Len(mem) + 1 /\ mem'[Len(mem) + 1].rec = r
           /\ \A i \in 1..Len(mem) : mem'[i] = mem[i]
           /\ \E e : e.rec = r /\ Current' = Apply(Current, e)
<1> DEFINE e == [rec |-> r, seq |-> Log!NextSeq]
<1>1. mem \in Seq(Log!Entry) /\ mem' = Append(mem, e)
  BY DEF Log!TypeOK, Log!AppendRecord
<1>2. e \in Log!Entry /\ e.rec = r
  BY DEF Log!Entry, Log!NextSeq, Log!TypeOK
<1> HIDE DEF e
<1>3. /\ Len(mem) \in Nat /\ Len(mem') = Len(mem) + 1
      /\ \A i \in 1..Len(mem) : mem'[i] = mem[i]
      /\ mem'[Len(mem) + 1] = e
  BY <1>1, <1>2, AppendFacts
<1>4. Projection(mem') = Apply(Projection(mem), e)
  BY <1>3, ProjectionOfNext
<1> QED BY <1>2, <1>3, <1>4 DEF Current

(* A later state than one seen is one the client may find. *)
LEMMA FoundLater ==
    ASSUME NEW p \in Projections, NEW q \in Projections, Ahead(p, q), NEW t \in Task,
           NEW was \in TaskState, was.version > 0, Later(was, p.tasks[t])
    PROVE  Later(was, q.tasks[t]) /\ p.tasks[t].version > 0
<1>1. p.tasks[t] \in TaskState /\ q.tasks[t] \in TaskState
  BY ProjectionFields
<1>2. p.tasks[t].version \in Nat /\ was.version \in Nat /\ was.version <= p.tasks[t].version
  BY <1>1, TaskStateFields DEF Later
<1>3. p.tasks[t].version > 0
  BY <1>2
<1>4. Later(p.tasks[t], q.tasks[t])
  BY <1>3 DEF Ahead
<1> QED BY <1>1, <1>3, <1>4, LaterTransitive

-----------------------------------------------------------------------------
(* The invariant of the registry, with the one of its log. *)
RegistryInv == Log!IInv /\ TypeOK /\ ReplaysSound /\ MemoryInFile /\ AnswersInFile

(* What the memory shows is typed, and no replay that covers it shows older tasks. *)
LEMMA MemoryFacts ==
    ASSUME Log!TypeOK, MemoryInFile
    PROVE  /\ Current \in Projections
           /\ \A k \in Key : Current.idem[k] # NoTask => Current.tasks[Current.idem[k]].version > 0
           /\ Whole(Len(file)) => Len(mem) <= Len(file)
           /\ \A n \in synced..Len(file) : Whole(n) /\ Len(mem) <= n => Ahead(Current, Replay(n))
           /\ Whole(Len(file)) => Ahead(Current, Replay(Len(file)))
<1>1. /\ Current \in Projections
      /\ \A k \in Key : Current.idem[k] # NoTask => Current.tasks[Current.idem[k]].version > 0
      /\ Whole(Len(file)) => Len(mem) <= Len(file)
  BY DEF MemoryInFile, Sound, Projections
<1>2. \A n \in synced..Len(file) : Whole(n) /\ Len(mem) <= n => Ahead(Current, Replay(n))
  BY DEF MemoryInFile, Ahead, Exists
<1>3. Len(file) \in synced..Len(file)
  BY LogMembers
<1> QED BY <1>1, <1>2, <1>3

(* The same, as what has to be shown of the next state. *)
LEMMA MemoryAfter ==
    ASSUME Sound(Current', mem', Len(mem')),
           Whole(Len(file))' => Len(mem') <= Len(file'),
           \A n \in synced'..Len(file') : Whole(n)' /\ Len(mem') <= n => Ahead(Current', Replay(n)')
    PROVE  MemoryInFile'
BY DEF MemoryInFile, Ahead, Exists

(* What the clients hold are states of tasks. *)
LEMMA SeenFacts ==
    ASSUME TypeOK, NEW c \in Client
    PROVE  /\ seen[c].task \in Task \cup {NoTask} /\ seen[c].view \in TaskState
           /\ seen[c].trust \in Trust
           /\ seen[c].task # NoTask => seen[c].task \in Task
BY DEF TypeOK

(* What the new knowledge of the clients has to be for the invariant: each client has *)
(* an answer from the memory or keeps the one it has, with the trust it had or less,  *)
(* or with more if all is synced.                                                     *)
LEMMA Retrust ==
    ASSUME TypeOK, NEW from, NEW to \in Trust, seen' = Retrusted(from, to), Log!TypeOK'
    PROVE  /\ TypeOK'
           /\ \A c \in Client : /\ seen'[c].task = seen[c].task /\ seen'[c].view = seen[c].view
                                /\ seen[c].trust # from => seen'[c].trust = seen[c].trust
                                /\ seen[c].trust = from => seen'[c].trust = to
<1>1. \A c \in Client : seen[c] \in [task : Task \cup {NoTask}, view : TaskState, trust : Trust]
  BY DEF TypeOK
<1>2. ASSUME NEW c \in Client
      PROVE  /\ seen'[c] \in [task : Task \cup {NoTask}, view : TaskState, trust : Trust]
             /\ seen'[c].task = seen[c].task /\ seen'[c].view = seen[c].view
             /\ seen[c].trust # from => seen'[c].trust = seen[c].trust
             /\ seen[c].trust = from => seen'[c].trust = to
  <2>1. seen'[c] = [seen[c] EXCEPT !.trust = IF @ = from THEN to ELSE @]
    BY DEF Retrusted
  <2> QED BY <1>1, <2>1
<1>3. seen' \in [Client -> [task : Task \cup {NoTask}, view : TaskState, trust : Trust]]
  <2>1. seen' = [c \in Client |-> seen'[c]]
    BY DEF Retrusted
  <2> QED BY <1>2, <2>1
<1> QED BY <1>2, <1>3 DEF TypeOK

(* Nothing changes but what one client knows: it gets an answer from the memory. *)
LEMMA AnswerStep ==
    ASSUME RegistryInv, NEW c \in Client, NEW t \in Task, state = "up", Exists(t),
           Answer(c, t), UNCHANGED logVars
    PROVE  RegistryInv'
<1>1. UNCHANGED <<file, ended, synced, state, mem, seq, acked, tears, deaths>>
  BY DEF logVars
<1>2. Log!IInv'
  <2>1. LogOf(Record)!IInv' BY <1>1, SameLog, LogStep DEF RegistryInv
  <2> QED BY <2>1, SameLog
<1>3. /\ Current' = Current
      /\ \A n : Replay(n)' = Replay(n) /\ Whole(n)' = Whole(n) /\ Loadable(n)' = Loadable(n)
  BY <1>1 DEF Current, Replay, Whole, Loadable
<1>4. /\ Current \in Projections /\ Log!TypeOK /\ Log!TypeOK' /\ TypeOK
      /\ synced \in 0..Len(file) /\ Len(file) \in Nat /\ Len(mem) \in Nat
  BY <1>2, MemoryFacts, LogMembers DEF RegistryInv, Log!IInv
<1>5. ReplaysSound' /\ MemoryInFile'
  BY <1>1, <1>3 DEF RegistryInv, ReplaysSound, MemoryInFile, Exists
<1>6. /\ Current.tasks[t] \in TaskState /\ Current.tasks[t].version > 0
  BY <1>4, ProjectionFields DEF Exists
<1>7. TrustNow \in Trust
  BY DEF TrustNow, Trust
<1>8. /\ seen'[c] = [task |-> t, view |-> Current.tasks[t], trust |-> TrustNow]
      /\ \A d \in Client : d # c => seen'[d] = seen[d]
      /\ seen' \in [Client -> [task : Task \cup {NoTask}, view : TaskState, trust : Trust]]
  <2> DEFINE a == [task |-> t, view |-> Current.tasks[t], trust |-> TrustNow]
  <2>1. a \in [task : Task \cup {NoTask}, view : TaskState, trust : Trust]
    BY <1>6, <1>7
  <2>2. seen' = [seen EXCEPT ![c] = a]
    BY DEF Answer
  <2>3. seen \in [Client -> [task : Task \cup {NoTask}, view : TaskState, trust : Trust]]
    BY <1>4 DEF TypeOK
  <2> HIDE DEF a
  <2>4. /\ seen'[c] = a /\ \A d \in Client : d # c => seen'[d] = seen[d]
        /\ seen' \in [Client -> [task : Task \cup {NoTask}, view : TaskState, trust : Trust]]
    BY <2>1, <2>2, <2>3
  <2> QED BY <2>4 DEF a
<1>9. TypeOK'
  <2>1. ASSUME NEW d \in Client, seen'[d].task = NoTask PROVE seen'[d].view = Absent
    <3>1. d # c
      BY <1>8, <2>1
    <3> QED BY <1>4, <1>8, <2>1, <3>1 DEF TypeOK
  <2> QED BY <1>4, <1>8, <2>1 DEF TypeOK
<1>10. ASSUME NEW n \in synced..Len(file),
              IF TrustNow = "synced" THEN Whole(n) ELSE Loadable(n), TrustNow # "lost"
       PROVE  Whole(n) /\ Len(mem) <= n
  <2>1. Whole(n)
    BY <1>10 DEF Loadable
  <2>2. CASE Len(mem) <= synced
    BY <1>4, <2>1, <2>2
  <2>3. CASE ~(Len(mem) <= synced)
    <3>1. \A i \in 1..Len(file) : i <= Len(mem) => file[i].ok
      BY <1>10, <2>3 DEF TrustNow
    <3>2. Loadable(n)
      BY <1>10, <2>3 DEF TrustNow
    <3>3. CASE n = Len(file)
      BY <1>4, <2>1, <3>3, MemoryFacts DEF RegistryInv
    <3>4. CASE n = Len(file) - 1 /\ ~file[Len(file)].ok
      <4>1. Len(file) \in 1..Len(file)
        BY <1>4, <3>4
      <4>2. ~(Len(file) <= Len(mem))
        BY <3>1, <3>4, <4>1
      <4> QED BY <1>4, <2>1, <3>4, <4>2
    <3> QED BY <3>2, <3>3, <3>4 DEF Loadable
  <2> QED BY <2>2, <2>3
<1>11. AnswersInFile'
  <2> SUFFICES ASSUME NEW d \in Client, seen'[d].task # NoTask, seen'[d].trust # "lost"
               PROVE  /\ seen'[d].view.version > 0
                      /\ state' = "up" => Later(seen'[d].view, Current'.tasks[seen'[d].task])
                      /\ \A n \in synced'..Len(file') :
                           (IF seen'[d].trust = "synced" THEN Whole(n)' ELSE Loadable(n)') =>
                              Later(seen'[d].view, Replay(n)'.tasks[seen'[d].task])
    BY DEF AnswersInFile
  <2>1. CASE d = c
    <3>1. seen'[d].task = t /\ seen'[d].view = Current.tasks[t] /\ seen'[d].trust = TrustNow
      BY <1>8, <2>1
    <3>2. Later(Current.tasks[t], Current.tasks[t])
      BY <1>6, LaterReflexive
    <3>3. ASSUME NEW n \in synced..Len(file),
                 IF TrustNow = "synced" THEN Whole(n) ELSE Loadable(n)
          PROVE  Later(Current.tasks[t], Replay(n).tasks[t])
      <4>1. Whole(n) /\ Len(mem) <= n
        BY <1>10, <3>1, <3>3
      <4>2. Ahead(Current, Replay(n))
        BY <1>4, <4>1, MemoryFacts DEF RegistryInv
      <4> QED BY <1>6, <4>2 DEF Ahead
    <3> QED BY <1>1, <1>3, <1>6, <3>1, <3>2, <3>3
  <2>2. CASE d # c
    <3>1. seen'[d] = seen[d]
      BY <1>8, <2>2
    <3> QED BY <1>1, <1>3, <3>1 DEF RegistryInv, AnswersInFile
  <2> QED BY <2>1, <2>2
<1> QED BY <1>2, <1>5, <1>9, <1>11 DEF RegistryInv

(* An acknowledged write: the memory goes on, and so does every replay there can be. *)
LEMMA AckedStep ==
    ASSUME RegistryInv, NEW c \in Client, NEW r, Wanted(Current, r), Log!AppendRecord(r),
           seen' = [Retrusted("cached", "synced") EXCEPT ![c] =
                      [task |-> r.task, view |-> Projection(mem').tasks[r.task],
                       trust |-> "synced"]]
    PROVE  RegistryInv'
<1>1. Log!IInv'
  <2>1. LogOf(Record)!IInv'
    BY SameLog, SameWrites, LogStep DEF RegistryInv, Wanted
  <2> QED BY <2>1, SameLog
<1>2. /\ Log!TypeOK /\ Log!TypeOK' /\ TypeOK /\ r \in Record /\ r.task \in Task /\ Writes(r)
      /\ state = "up" /\ synced' = Len(file') /\ ended \in BOOLEAN
  BY <1>1, Records DEF RegistryInv, Log!IInv, Log!TypeOK, Wanted, Writes, Log!AppendRecord,
                       Log!CanAppend, Log!SyncedUpTo
<1>3. /\ Len(file) \in Nat /\ Len(mem) \in Nat /\ synced \in 0..Len(file)
      /\ \A i \in 1..Len(mem) : mem[i].rec \in Record
  BY <1>2, LogMembers
<1>4. /\ Current \in Projections
      /\ Whole(Len(file)) => Len(mem) <= Len(file)
      /\ Whole(Len(file)) => Ahead(Current, Replay(Len(file)))
  BY <1>2, MemoryFacts DEF RegistryInv
<1>5. /\ ended => Grows(r)
      /\ ~ended => Shrinks /\ Len(file') = Len(file) /\ ~Whole(Len(file))'
  BY <1>2, WriteShapes DEF RegistryInv
<1>6. ReplaysSound'
  <2>1. CASE ended BY <1>2, <1>4, <1>5, <2>1, SoundGrows DEF RegistryInv
  <2>2. CASE ~ended BY <1>2, <1>5, <2>2, SoundShrinks DEF RegistryInv
  <2> QED BY <2>1, <2>2
<1>7. /\ Len(mem') = Len(mem) + 1 /\ mem'[Len(mem) + 1].rec = r
      /\ \A i \in 1..Len(mem) : mem'[i] = mem[i]
      /\ \E e : e.rec = r /\ Current' = Apply(Current, e)
  BY <1>2, CurrentGoesOn
<1>8. PICK e : e.rec = r /\ Current' = Apply(Current, e)
  BY <1>7
<1>9. Sound(Current', mem', Len(mem'))
  <2>1. Sound(Current, mem, Len(mem))
    BY DEF RegistryInv, MemoryInFile
  <2>2. /\ r.op # "created" => Current.tasks[r.task].version > 0
        /\ r.op = "transitioned" => r.after > 0
    <3>1. Current.tasks[r.task].version \in Nat
      BY <1>2, <1>4, ProjectionFields, TaskStateFields
    <3> QED BY <3>1 DEF Wanted
  <2> QED BY <1>2, <1>3, <1>7, <1>8, <2>1, <2>2, ApplySound
<1>10. Current' \in Projections
  BY <1>9 DEF Sound, Projections
<1>11. /\ Whole(Len(file))' => Len(mem') <= Len(file')
       /\ \A n \in synced'..Len(file') : Whole(n)' => Ahead(Current', Replay(n)')
  <2>1. CASE ended
    <3>1. PICK N : N = Len(file)
      OBVIOUS
    <3>2. Grows(r)
      BY <1>5, <2>1
    <3>3. /\ N \in Nat /\ Len(file') = N + 1 /\ (Whole(N + 1)' => Whole(N))
          /\ \E f : f.rec = r /\ Replay(N + 1)' = Apply(Replay(N), f)
      BY <1>2, <3>1, <3>2, GrowsByOne
    <3>4. PICK f : f.rec = r /\ Replay(N + 1)' = Apply(Replay(N), f)
      BY <3>3
    <3>5. ASSUME Whole(N + 1)' PROVE Ahead(Current', Replay(N + 1)') /\ Len(mem') <= N + 1
      <4>1. Whole(N) /\ Ahead(Current, Replay(N)) /\ Len(mem) <= N
        BY <1>4, <3>1, <3>3, <3>5
      <4>2. Replay(N) \in Projections
        <5>1. N \in 0..Len(file)
          BY <3>1, <3>3
        <5> QED BY <3>1, <4>1, <5>1 DEF RegistryInv, ReplaysSound, Sound, Projections
      <4>3. Apply(Replay(N), f) = Apply(Replay(N), e)
        BY <1>8, <3>4, ApplyByRecord
      <4>4. Ahead(Apply(Current, e), Apply(Replay(N), e))
        BY <1>4, <1>8, <4>1, <4>2, ApplyTogether
      <4> QED BY <1>3, <1>7, <1>8, <3>3, <3>4, <4>1, <4>3, <4>4
    <3>6. \A n \in synced'..Len(file') : n = N + 1
      BY <1>2, <3>3
    <3>7. Whole(Len(file))' => Whole(N + 1)'
      BY <3>3 DEF Whole
    <3> QED BY <3>3, <3>5, <3>6, <3>7
  <2>2. CASE ~ended
    <3>1. ~Whole(Len(file))'
      BY <1>5, <2>2
    <3>2. ASSUME NEW n \in synced'..Len(file') PROVE ~Whole(n)'
      <4>1. n = Len(file')
        BY <1>2, <1>3, <1>5, <2>2, <3>2
      <4> QED BY <3>1, <4>1 DEF Whole
    <3> QED BY <3>1, <3>2
  <2> QED BY <2>1, <2>2
<1>12. MemoryInFile'
  BY <1>9, <1>11, MemoryAfter
<1>13. Ahead(Current, Current')
  BY <1>4, <1>8, AheadOfItself, ApplyAhead
<1>14. Current'.tasks[r.task] \in TaskState /\ Current'.tasks[r.task].version > 0
  <2>1. CASE r.op = "created"
    <3>1. r.key \in Key
      BY <1>2, <2>1, Records
    <3> QED BY <1>2, <1>4, <1>8, <2>1, <3>1, ApplyCreated, FirstStates
  <2>2. CASE r.op # "created"
    <3>1. Current.tasks[r.task].version > 0
      BY <2>2 DEF Wanted
    <3>2. Later(Current.tasks[r.task], Current'.tasks[r.task])
      BY <1>2, <1>13, <3>1 DEF Ahead
    <3>3. /\ Current.tasks[r.task] \in TaskState /\ Current'.tasks[r.task] \in TaskState
      BY <1>2, <1>4, <1>10, ProjectionFields
    <3>4. Current.tasks[r.task].version \in Nat /\ Current'.tasks[r.task].version \in Nat
      BY <3>3, TaskStateFields
    <3> QED BY <3>1, <3>2, <3>3, <3>4 DEF Later
  <2> QED BY <2>1, <2>2
<1>15. /\ seen'[c] = [task |-> r.task, view |-> Current'.tasks[r.task], trust |-> "synced"]
       /\ \A d \in Client : d # c =>
             /\ seen'[d].task = seen[d].task /\ seen'[d].view = seen[d].view
             /\ seen'[d].trust # "lost" => seen[d].trust # "lost"
             /\ seen'[d].trust = IF seen[d].trust = "cached" THEN "synced" ELSE seen[d].trust
       /\ seen' \in [Client -> [task : Task \cup {NoTask}, view : TaskState, trust : Trust]]
  <2> DEFINE a == [task |-> r.task, view |-> Current'.tasks[r.task], trust |-> "synced"]
             Answers == [task : Task \cup {NoTask}, view : TaskState, trust : Trust]
             s == Retrusted("cached", "synced")
  <2>1. a \in Answers
    BY <1>2, <1>14 DEF Trust
  <2>2. seen' = [s EXCEPT ![c] = a]
    BY DEF Current
  <2>3. ASSUME NEW d \in Client
        PROVE  /\ s[d] \in Answers /\ s[d].task = seen[d].task /\ s[d].view = seen[d].view
               /\ s[d].trust # "lost" => seen[d].trust # "lost"
               /\ s[d].trust = IF seen[d].trust = "cached" THEN "synced" ELSE seen[d].trust
    <3>1. seen[d] \in Answers
      BY <1>2 DEF TypeOK
    <3>2. s[d] = [seen[d] EXCEPT !.trust = IF @ = "cached" THEN "synced" ELSE @]
      BY DEF Retrusted
    <3> QED BY <3>1, <3>2 DEF Trust
  <2>4. s = [d \in Client |-> s[d]]
    BY DEF Retrusted
  <2> HIDE DEF a, s, Answers
  <2>5. s \in [Client -> Answers]
    BY <2>3, <2>4
  <2>6. /\ seen'[c] = a /\ \A d \in Client : d # c => seen'[d] = s[d]
        /\ seen' \in [Client -> Answers]
    BY <2>1, <2>2, <2>5
  <2> QED BY <2>3, <2>6 DEF a, Answers
<1>16. TypeOK'
  <2>1. ASSUME NEW d \in Client, seen'[d].task = NoTask PROVE seen'[d].view = Absent
    <3>1. d # c
      BY <1>2, <1>15, <2>1
    <3> QED BY <1>2, <1>15, <2>1, <3>1 DEF TypeOK
  <2> QED BY <1>2, <1>15, <2>1 DEF TypeOK
<1>17. AnswersInFile'
  <2> SUFFICES ASSUME NEW d \in Client, seen'[d].task # NoTask, seen'[d].trust # "lost"
               PROVE  /\ seen'[d].view.version > 0
                      /\ state' = "up" => Later(seen'[d].view, Current'.tasks[seen'[d].task])
                      /\ \A n \in synced'..Len(file') :
                           (IF seen'[d].trust = "synced" THEN Whole(n)' ELSE Loadable(n)') =>
                              Later(seen'[d].view, Replay(n)'.tasks[seen'[d].task])
    BY DEF AnswersInFile
  <2>1. /\ seen'[d].task \in Task /\ seen'[d].view \in TaskState /\ seen'[d].view.version > 0
        /\ Later(seen'[d].view, Current'.tasks[seen'[d].task])
    <3>1. CASE d = c
      BY <1>2, <1>14, <1>15, <3>1, LaterReflexive
    <3>2. CASE d # c
      <4>1. /\ seen[d].task # NoTask /\ seen[d].trust # "lost"
            /\ seen'[d].task = seen[d].task /\ seen'[d].view = seen[d].view
        BY <1>15, <3>2
      <4>2. /\ seen[d].task \in Task /\ seen[d].view \in TaskState
        BY <1>2, <4>1, SeenFacts
      <4>3. /\ seen[d].view.version > 0
            /\ Later(seen[d].view, Current.tasks[seen[d].task])
        BY <1>2, <4>1 DEF RegistryInv, AnswersInFile
      <4> QED BY <1>4, <1>10, <1>13, <4>1, <4>2, <4>3, FoundLater
    <3> QED BY <3>1, <3>2
  <2>2. ASSUME NEW n \in synced'..Len(file'), Whole(n)'
        PROVE  Later(seen'[d].view, Replay(n)'.tasks[seen'[d].task])
    <3>1. Ahead(Current', Replay(n)')
      BY <1>11, <2>2
    <3>2. Replay(n)' \in Projections
      <4>1. n \in 0..Len(file')
        BY <1>2, <2>2, LogMembers DEF Log!TypeOK
      <4> QED BY <1>6, <2>2, <4>1 DEF ReplaysSound, Sound, Projections
    <3> QED BY <1>10, <2>1, <3>1, <3>2, FoundLater
  <2>3. \A n : Loadable(n)' => Whole(n)'
    BY DEF Loadable
  <2> QED BY <2>1, <2>2, <2>3
<1> QED BY <1>1, <1>6, <1>12, <1>16, <1>17 DEF RegistryInv

(* A write that failed: the file may have the record, the memory has not. *)
LEMMA FailedStep ==
    ASSUME RegistryInv, NEW r, Wanted(Current, r),
           Log!AppendUnsynced(r) \/ \E whole \in BOOLEAN : Log!AppendTorn(r, whole),
           seen' = IF ended THEN seen ELSE Retrusted("cached", "lost")
    PROVE  RegistryInv'
<1>1. Log!IInv'
  <2>1. LogOf(Record)!IInv'
    BY SameLog, SameWrites, LogStep DEF RegistryInv, Wanted
  <2> QED BY <2>1, SameLog
<1>2. /\ Log!TypeOK /\ Log!TypeOK' /\ TypeOK /\ r \in Record /\ Writes(r)
      /\ ended \in BOOLEAN
  BY <1>1 DEF RegistryInv, Log!IInv, Log!TypeOK, Wanted, Writes
<1>3. UNCHANGED <<synced, state, mem>> /\ state = "up"
  BY DEF Log!AppendUnsynced, Log!AppendTorn, Log!store, Log!CanAppend
<1>4. /\ Len(file) \in Nat /\ Len(mem) \in Nat /\ synced \in 0..Len(file)
      /\ Current \in Projections /\ Current' = Current
      /\ Whole(Len(file)) => Len(mem) <= Len(file)
      /\ Whole(Len(file)) => Ahead(Current, Replay(Len(file)))
      /\ \A n \in synced..Len(file) : Whole(n) /\ Len(mem) <= n => Ahead(Current, Replay(n))
  BY <1>2, <1>3, LogMembers, MemoryFacts DEF RegistryInv, Current
<1>5. /\ ended => Grows(r)
      /\ ~ended => Shrinks /\ Len(file') = Len(file) /\ ~Whole(Len(file))'
  BY <1>2, WriteShapes DEF RegistryInv
<1>6. ReplaysSound'
  <2>1. CASE ended BY <1>2, <1>4, <1>5, <2>1, SoundGrows DEF RegistryInv
  <2>2. CASE ~ended BY <1>2, <1>5, <2>2, SoundShrinks DEF RegistryInv
  <2> QED BY <2>1, <2>2
<1>7. Sound(Current', mem', Len(mem'))
  BY <1>3, <1>4 DEF RegistryInv, MemoryInFile
<1>8. CASE ended
  <2>1. PICK N : N = Len(file)
    OBVIOUS
  <2>2. Grows(r)
    BY <1>5, <1>8
  <2>3. /\ N \in Nat /\ Len(file') = N + 1 /\ (Whole(N + 1)' => Whole(N))
        /\ \E f : f.rec = r /\ Replay(N + 1)' = Apply(Replay(N), f)
    BY <1>2, <2>1, <2>2, GrowsByOne
  <2>4. PICK f : f.rec = r /\ Replay(N + 1)' = Apply(Replay(N), f)
    BY <2>3
  <2>5. \A n \in 0..N : Replay(n)' = Replay(n) /\ (Whole(n)' <=> Whole(n))
    BY <1>2, <2>1, <2>2, GrowsKeeps
  <2>6. ASSUME Whole(N + 1)' PROVE Ahead(Current, Replay(N + 1)') /\ Len(mem) <= N
    <3>1. Whole(N) /\ Ahead(Current, Replay(N)) /\ Len(mem) <= N
      BY <1>4, <2>1, <2>3, <2>6
    <3>2. Replay(N) \in Projections
      <4>1. N \in 0..Len(file)
        BY <2>1, <2>3
      <4> QED BY <2>1, <3>1, <4>1 DEF RegistryInv, ReplaysSound, Sound, Projections
    <3> QED BY <1>4, <2>4, <3>1, <3>2, ApplyAhead
  <2>7. ASSUME NEW n \in synced'..Len(file'), Whole(n)', Len(mem') <= n
        PROVE  Ahead(Current', Replay(n)')
    <3>1. CASE n = N + 1
      BY <1>4, <2>6, <2>7, <3>1
    <3>2. CASE n # N + 1
      <4>1. n \in synced..N /\ n \in 0..N
        BY <1>3, <1>4, <2>1, <2>3, <2>7, <3>2
      <4> QED BY <1>3, <1>4, <2>1, <2>5, <2>7, <4>1
    <3> QED BY <3>1, <3>2
  <2>8. Whole(Len(file))' => Len(mem') <= Len(file')
    <3>1. Whole(Len(file))' => Whole(N + 1)'
      BY <2>3 DEF Whole
    <3> QED BY <1>3, <1>4, <2>3, <2>6, <3>1
  <2>9. MemoryInFile'
    BY <1>7, <2>7, <2>8, MemoryAfter
  <2>10. seen' = seen
    BY <1>8
  <2>11. TypeOK'
    BY <1>2, <2>10 DEF TypeOK
  <2>12. AnswersInFile'
    <3> SUFFICES ASSUME NEW d \in Client, seen[d].task # NoTask, seen[d].trust # "lost"
                 PROVE  /\ seen[d].view.version > 0
                        /\ state' = "up" => Later(seen[d].view, Current'.tasks[seen[d].task])
                        /\ \A n \in synced'..Len(file') :
                             (IF seen[d].trust = "synced" THEN Whole(n)' ELSE Loadable(n)') =>
                                Later(seen[d].view, Replay(n)'.tasks[seen[d].task])
      BY <2>10 DEF AnswersInFile
    <3>1. /\ seen[d].view.version > 0
          /\ Later(seen[d].view, Current.tasks[seen[d].task])
          /\ \A n \in synced..Len(file) :
               (IF seen[d].trust = "synced" THEN Whole(n) ELSE Loadable(n)) =>
                  Later(seen[d].view, Replay(n).tasks[seen[d].task])
      BY <1>3 DEF RegistryInv, AnswersInFile
    <3>2. /\ seen[d].task \in Task /\ seen[d].view \in TaskState
      BY <1>2, SeenFacts
    <3>3. ASSUME NEW n \in synced'..Len(file'),
                 IF seen[d].trust = "synced" THEN Whole(n)' ELSE Loadable(n)'
          PROVE  Later(seen[d].view, Replay(n)'.tasks[seen[d].task])
      <4>1. Whole(n)'
        BY <3>3 DEF Loadable
      <4>2. CASE n = N + 1
        <5>1. Ahead(Current, Replay(N + 1)')
          BY <2>6, <4>1, <4>2
        <5>2. Replay(n)' \in Projections
          <6>1. n \in 0..Len(file')
            BY <2>3, <4>2
          <6> QED BY <1>6, <4>1, <6>1 DEF ReplaysSound, Sound, Projections
        <5> QED BY <1>4, <3>1, <3>2, <4>2, <5>1, <5>2, FoundLater
      <4>3. CASE n # N + 1
        <5>1. n \in synced..N /\ n \in 0..N
          BY <1>3, <1>4, <2>1, <2>3, <3>3, <4>3
        <5>2. Whole(n) /\ Replay(n)' = Replay(n)
          BY <2>5, <4>1, <5>1
        <5>3. CASE seen[d].trust = "synced"
          BY <2>1, <3>1, <5>1, <5>2, <5>3
        <5>4. CASE seen[d].trust # "synced"
          <6>1. n = N
            <7>1. n = Len(file') \/ n = Len(file') - 1
              BY <3>3, <5>4 DEF Loadable
            <7> QED BY <2>3, <4>3, <5>1, <7>1
          <6>2. Loadable(n)
            BY <2>1, <5>2, <6>1 DEF Loadable
          <6> QED BY <2>1, <3>1, <5>1, <5>2, <5>4, <6>2
        <5> QED BY <5>3, <5>4
      <4> QED BY <4>2, <4>3
    <3> QED BY <1>4, <3>1, <3>3
  <2> QED BY <1>1, <1>6, <2>9, <2>11, <2>12 DEF RegistryInv
<1>9. CASE ~ended
  <2>1. Shrinks /\ Len(file') = Len(file) /\ ~Whole(Len(file))'
    BY <1>5, <1>9
  <2>2. \A n \in 0..Len(file') : Replay(n)' = Replay(n) /\ (Whole(n)' => Whole(n))
    BY <1>2, <2>1, ShrinksKeeps
  <2>3. ASSUME NEW n \in synced'..Len(file'), Whole(n)', Len(mem') <= n
        PROVE  Ahead(Current', Replay(n)')
    <3>1. n \in synced..Len(file) /\ n \in 0..Len(file')
      BY <1>3, <1>4, <2>1, <2>3
    <3> QED BY <1>3, <1>4, <2>2, <2>3, <3>1
  <2>4. MemoryInFile'
    BY <1>7, <2>1, <2>3, MemoryAfter
  <2>5. seen' = Retrusted("cached", "lost") /\ "lost" \in Trust
    BY <1>9 DEF Trust
  <2>6. /\ TypeOK'
        /\ \A c \in Client : /\ seen'[c].task = seen[c].task /\ seen'[c].view = seen[c].view
                             /\ seen[c].trust # "cached" => seen'[c].trust = seen[c].trust
                             /\ seen[c].trust = "cached" => seen'[c].trust = "lost"
    BY <1>2, <2>5, Retrust
  <2>7. AnswersInFile'
    <3> SUFFICES ASSUME NEW d \in Client, seen'[d].task # NoTask, seen'[d].trust # "lost"
                 PROVE  /\ seen'[d].view.version > 0
                        /\ state' = "up" => Later(seen'[d].view, Current'.tasks[seen'[d].task])
                        /\ \A n \in synced'..Len(file') :
                             (IF seen'[d].trust = "synced" THEN Whole(n)' ELSE Loadable(n)') =>
                                Later(seen'[d].view, Replay(n)'.tasks[seen'[d].task])
      BY DEF AnswersInFile
    <3>1. /\ seen'[d].task = seen[d].task /\ seen'[d].view = seen[d].view
          /\ seen[d].trust = "synced" /\ seen'[d].trust = "synced"
      BY <1>2, <2>6, SeenFacts DEF Trust
    <3>2. /\ seen[d].view.version > 0
          /\ Later(seen[d].view, Current.tasks[seen[d].task])
          /\ \A n \in synced..Len(file) : Whole(n) =>
                Later(seen[d].view, Replay(n).tasks[seen[d].task])
      BY <1>3, <3>1 DEF RegistryInv, AnswersInFile
    <3>3. ASSUME NEW n \in synced'..Len(file'), Whole(n)'
          PROVE  Later(seen'[d].view, Replay(n)'.tasks[seen'[d].task])
      <4>1. n \in synced..Len(file) /\ n \in 0..Len(file')
        BY <1>3, <1>4, <2>1, <3>3
      <4> QED BY <2>2, <3>1, <3>2, <3>3, <4>1
    <3> QED BY <1>4, <3>1, <3>2, <3>3
  <2> QED BY <1>1, <1>6, <2>4, <2>6, <2>7 DEF RegistryInv
<1> QED BY <1>2, <1>8, <1>9

(* The death of the process: the clients keep their answers, the file its lines. *)
LEMMA DeathStep ==
    ASSUME RegistryInv, Log!Exit, UNCHANGED seen
    PROVE  RegistryInv'
<1>1. Log!IInv'
  <2>1. LogOf(Record)!IInv'
    BY SameLog, SameFaults, LogStep DEF RegistryInv
  <2> QED BY <2>1, SameLog
<1>2. /\ UNCHANGED <<file, ended, synced, acked>>
      /\ state' = "down" /\ mem' = <<>>
  BY DEF Log!Exit, Log!disk
<1>3. \A n : Replay(n)' = Replay(n) /\ Whole(n)' = Whole(n) /\ Loadable(n)' = Loadable(n)
  BY <1>2 DEF Replay, Whole, Loadable
<1>4. ReplaysSound' /\ AnswersInFile'
  BY <1>2, <1>3 DEF RegistryInv, ReplaysSound, AnswersInFile
<1>5. TypeOK'
  BY <1>1 DEF RegistryInv, TypeOK, Log!IInv
<1>6. MemoryInFile'
  <2>1. Current' = Empty
    BY <1>2, ProjectionOfNone DEF Current
  <2>2. Sound(Current', mem', Len(mem'))
    BY <1>2, <2>1, FirstStates DEF Sound, Projections
  <2>3. \A q : Ahead(Current', q)
    BY <2>1, FirstStates DEF Ahead
  <2>4. Len(mem') <= Len(file')
    BY <1>1, <1>2, LogMembers DEF RegistryInv, Log!IInv
  <2> QED BY <2>2, <2>3, <2>4, MemoryAfter
<1> QED BY <1>1, <1>4, <1>5, <1>6 DEF RegistryInv

(* A restart that fails changes nothing. *)
LEMMA RefusedStep ==
    ASSUME RegistryInv, Log!LoadRefused, UNCHANGED seen
    PROVE  RegistryInv'
<1>1. Log!IInv'
  <2>1. LogOf(Record)!IInv'
    BY SameLog, SameFaults, LogStep DEF RegistryInv
  <2> QED BY <2>1, SameLog
<1>2. UNCHANGED <<file, ended, synced, mem>> /\ state' = "refused"
  BY DEF Log!LoadRefused, Log!disk
<1>3. /\ Current' = Current
      /\ \A n : Replay(n)' = Replay(n) /\ Whole(n)' = Whole(n) /\ Loadable(n)' = Loadable(n)
  BY <1>2 DEF Current, Replay, Whole, Loadable
<1>4. ReplaysSound' /\ MemoryInFile' /\ AnswersInFile'
  BY <1>2, <1>3 DEF RegistryInv, ReplaysSound, MemoryInFile, Exists, AnswersInFile
<1>5. TypeOK'
  BY <1>1 DEF RegistryInv, TypeOK, Log!IInv
<1> QED BY <1>1, <1>4, <1>5 DEF RegistryInv

(* A restart: the memory becomes a replay that every client's answer is good for. *)
LEMMA RestartStep ==
    ASSUME RegistryInv, Log!Load, UNCHANGED seen
    PROVE  RegistryInv'
<1>1. Log!IInv'
  <2>1. LogOf(Record)!IInv'
    BY SameLog, SameFaults, LogStep DEF RegistryInv
  <2> QED BY <2>1, SameLog
<1>2. /\ UNCHANGED <<file, ended, synced>> /\ state' = "up"
      /\ mem' = [i \in 1..Log!Readable |-> [rec |-> file[i].rec, seq |-> file[i].seq]]
      /\ \A i \in 1..Len(file) : ~file[i].ok => i = Len(file) /\ ~ended
  BY DEF Log!Load, Log!disk, Log!Broken, Log!Tolerated
<1>3. /\ Len(file) \in Nat /\ synced \in 0..Len(file) /\ (~ended => synced < Len(file))
  BY LogMembers DEF RegistryInv, Log!IInv, Log!SyncInv
<1>4. PICK m : m = Log!Readable
  OBVIOUS
<1>5. /\ m \in synced..Len(file) /\ Whole(m) /\ Loadable(m)
      /\ \A n \in m..Len(file) : Whole(n) => n = m
  <2>1. CASE Log!Broken = {}
    <3>1. m = Len(file)
      BY <1>4, <2>1 DEF Log!Readable
    <3>2. Whole(Len(file))
      BY <2>1 DEF Whole, Log!Broken
    <3> QED BY <1>3, <3>1, <3>2 DEF Loadable
  <2>2. CASE Log!Broken # {}
    <3>1. m = Len(file) - 1
      BY <1>4, <2>2 DEF Log!Readable
    <3>2. PICK i \in 1..Len(file) : ~file[i].ok
      BY <2>2 DEF Log!Broken
    <3>3. i = Len(file) /\ ~ended /\ ~file[Len(file)].ok
      BY <1>2, <3>2
    <3>4. Whole(m)
      BY <1>2, <1>3, <3>1 DEF Whole
    <3>5. ~Whole(Len(file))
      BY <3>2 DEF Whole
    <3>6. m \in synced..Len(file)
      BY <1>3, <3>1, <3>3
    <3>7. ASSUME NEW n \in m..Len(file), Whole(n) PROVE n = m
      <4>1. n # Len(file)
        BY <3>5, <3>7
      <4> QED BY <1>3, <3>1, <3>6, <4>1
    <3> QED BY <3>1, <3>3, <3>4, <3>6, <3>7 DEF Loadable
  <2> QED BY <2>1, <2>2
<1>6. /\ \A n : Replay(n)' = Replay(n) /\ Whole(n)' = Whole(n) /\ Loadable(n)' = Loadable(n)
      /\ Current' = Replay(m) /\ Len(mem') = m /\ m \in 0..Len(file)
      /\ \A i \in 1..m : mem'[i].rec = file[i].rec
  <2>1. \A n : Replay(n)' = Replay(n) /\ Whole(n)' = Whole(n) /\ Loadable(n)' = Loadable(n)
    BY <1>2 DEF Replay, Whole, Loadable
  <2>2. mem' = [i \in 1..m |-> [rec |-> file[i].rec, seq |-> file[i].seq]]
    BY <1>2, <1>4
  <2>3. Current' = Replay(m)
    BY <2>2 DEF Current, Replay
  <2>4. m \in 0..Len(file)
    BY <1>3, <1>5
  <2>5. Len(mem') = m /\ \A i \in 1..m : mem'[i].rec = file[i].rec
    BY <2>2, <2>4
  <2> QED BY <2>1, <2>3, <2>4, <2>5
<1>7. Sound(Replay(m), file, m)
  BY <1>5, <1>6 DEF RegistryInv, ReplaysSound
<1>8. MemoryInFile'
  <2>1. Sound(Current', mem', Len(mem'))
    BY <1>6, <1>7 DEF Sound
  <2>2. Replay(m) \in Projections
    BY <1>7 DEF Sound, Projections
  <2>3. ASSUME NEW n \in synced'..Len(file'), Whole(n)', Len(mem') <= n
        PROVE  Ahead(Current', Replay(n)')
    <3>1. n = m
      <4>1. Whole(n)
        BY <1>6, <2>3
      <4>2. n \in m..Len(file)
        <5>1. synced' = synced /\ file' = file /\ Len(mem') = m
          BY <1>2, <1>6
        <5>2. n \in synced..Len(file) /\ m <= n
          BY <2>3, <5>1
        <5> QED BY <1>3, <1>5, <5>2
      <4> QED BY <1>5, <4>1, <4>2
    <3> QED BY <1>6, <2>2, <3>1, AheadOfItself
  <2>4. Len(mem') <= Len(file')
    <3>1. file' = file /\ Len(mem') = m /\ m \in 0..Len(file)
      BY <1>2, <1>6
    <3> QED BY <1>3, <3>1
  <2> QED BY <2>1, <2>3, <2>4, MemoryAfter
<1>9. AnswersInFile'
  <2> SUFFICES ASSUME NEW c \in Client, seen[c].task # NoTask, seen[c].trust # "lost"
               PROVE  /\ seen[c].view.version > 0
                      /\ Later(seen[c].view, Replay(m).tasks[seen[c].task])
                      /\ \A n \in synced..Len(file) :
                           (IF seen[c].trust = "synced" THEN Whole(n) ELSE Loadable(n)) =>
                              Later(seen[c].view, Replay(n).tasks[seen[c].task])
    BY <1>2, <1>6 DEF AnswersInFile
  <2>1. /\ seen[c].view.version > 0
        /\ \A n \in synced..Len(file) :
             (IF seen[c].trust = "synced" THEN Whole(n) ELSE Loadable(n)) =>
                Later(seen[c].view, Replay(n).tasks[seen[c].task])
    BY DEF RegistryInv, AnswersInFile
  <2> QED BY <1>5, <2>1
<1>10. ReplaysSound'
  BY <1>2, <1>6 DEF RegistryInv, ReplaysSound
<1>11. TypeOK'
  BY <1>1 DEF RegistryInv, TypeOK, Log!IInv
<1> QED BY <1>1, <1>8, <1>9, <1>10, <1>11 DEF RegistryInv

(* The machine fails: what the clients still trust is in every replay of what is left. *)
LEMMA MachineStep ==
    ASSUME RegistryInv, MachineFails
    PROVE  RegistryInv'
<1>1. PICK m \in 0..MaxLines, cut \in BOOLEAN : Log!PowerLoss(m, cut)
  BY DEF MachineFails
<1>2. Log!IInv'
  <2>1. LogOf(Record)!IInv'
    BY <1>1, SameLog, SameFaults, LogStep DEF RegistryInv
  <2> QED BY <2>1, SameLog
<1>3. Shrinks /\ state' = "down" /\ mem' = <<>> /\ UNCHANGED <<synced, acked>>
  BY <1>1, CutShape DEF RegistryInv
<1>4. /\ Log!TypeOK /\ Log!TypeOK' /\ TypeOK /\ synced \in 0..Len(file)
      /\ Len(file') \in Nat /\ Len(file') <= Len(file) /\ Len(file) \in Nat
  BY <1>2, <1>3, LogMembers DEF RegistryInv, Log!IInv, Shrinks
<1>5. ReplaysSound'
  BY <1>3, <1>4, SoundShrinks DEF RegistryInv
<1>6. MemoryInFile'
  <2>1. Current' = Empty
    BY <1>3, ProjectionOfNone DEF Current
  <2>2. Sound(Current', mem', Len(mem'))
    BY <1>3, <2>1, FirstStates DEF Sound, Projections
  <2>3. \A q : Ahead(Current', q)
    BY <2>1, FirstStates DEF Ahead
  <2>4. Len(mem') <= Len(file')
    BY <1>3, <1>4
  <2> QED BY <2>2, <2>3, <2>4, MemoryAfter
<1>7. seen' = Retrusted("cached", "lost") /\ "lost" \in Trust
  BY DEF MachineFails, Trust
<1>8. /\ TypeOK'
      /\ \A c \in Client : /\ seen'[c].task = seen[c].task /\ seen'[c].view = seen[c].view
                           /\ seen[c].trust # "cached" => seen'[c].trust = seen[c].trust
                           /\ seen[c].trust = "cached" => seen'[c].trust = "lost"
  BY <1>4, <1>7, Retrust
<1>9. AnswersInFile'
  <2> SUFFICES ASSUME NEW c \in Client, seen'[c].task # NoTask, seen'[c].trust # "lost"
               PROVE  /\ seen'[c].view.version > 0
                      /\ \A n \in synced'..Len(file') :
                           (IF seen'[c].trust = "synced" THEN Whole(n)' ELSE Loadable(n)') =>
                              Later(seen'[c].view, Replay(n)'.tasks[seen'[c].task])
    BY <1>3 DEF AnswersInFile
  <2>1. /\ seen'[c].task = seen[c].task /\ seen'[c].view = seen[c].view
        /\ seen[c].trust = "synced" /\ seen'[c].trust = "synced"
    BY <1>4, <1>8, SeenFacts DEF Trust
  <2>2. /\ seen[c].view.version > 0
        /\ \A n \in synced..Len(file) : Whole(n) =>
              Later(seen[c].view, Replay(n).tasks[seen[c].task])
    BY <2>1 DEF RegistryInv, AnswersInFile
  <2>3. ASSUME NEW n \in synced'..Len(file'), Whole(n)'
        PROVE  Later(seen'[c].view, Replay(n)'.tasks[seen'[c].task])
    <3>1. n \in synced..Len(file) /\ n \in 0..Len(file')
      BY <1>3, <1>4, <2>3
    <3>2. Replay(n)' = Replay(n) /\ Whole(n)
      BY <1>3, <1>4, <2>3, <3>1, ShrinksKeeps
    <3> QED BY <2>1, <2>2, <3>1, <3>2
  <2> QED BY <2>1, <2>2, <2>3
<1> QED BY <1>2, <1>5, <1>6, <1>8, <1>9 DEF RegistryInv

(* What the client of a write has seen of the task: the version it names. *)
Based(c, r) ==
    /\ r.op = "transitioned" => /\ seen[c].task = r.task
                                /\ seen[c].view.version = Current.tasks[r.task].version
    /\ r.op = "attached" => /\ seen[c].task = r.task
                            /\ seen[c].view.wcVersion = Current.tasks[r.task].wcVersion

(* A request writes a record that is wanted, or answers from the memory. *)
LEMMA Requests ==
    ASSUME RegistryInv, NEW c \in Client, Request(c)
    PROVE  \/ \E r : Wanted(Current, r) /\ Based(c, r) /\ Write(c, r)
           \/ \E t \in Task : state = "up" /\ Exists(t) /\ Answer(c, t) /\ UNCHANGED logVars
<1>1. /\ Current \in Projections
      /\ \A k \in Key : Current.idem[k] # NoTask => Current.tasks[Current.idem[k]].version > 0
  BY MemoryFacts DEF RegistryInv, Log!IInv
<1>2. \A t \in Task : Current.tasks[t] \in TaskState /\ Current.tasks[t].version \in Nat
  BY <1>1, ProjectionFields, TaskStateFields
<1>3. seen[c].task # NoTask => seen[c].task \in Task
  BY SeenFacts DEF RegistryInv
<1>4. ASSUME NEW k \in Key, NEW t \in Task, CreateTask(c, k, t)
      PROVE  \E r : Wanted(Current, r) /\ Based(c, r) /\ Write(c, r)
  <2> DEFINE r == [op |-> "created", task |-> t, key |-> k]
  <2>1. Write(c, r) /\ Current.tasks[t].version = 0 /\ Current.idem[k] = NoTask
    BY <1>2, <1>4 DEF CreateTask, KeyKnown, Exists
  <2>2. r \in Record
    BY DEF Record
  <2>3. Wanted(Current, r) /\ Based(c, r)
    BY <2>1, <2>2 DEF Wanted, Based
  <2> QED BY <2>1, <2>3
<1>5. ASSUME NEW k \in Key, CreateReplay(c, k)
      PROVE  \E t \in Task : state = "up" /\ Exists(t) /\ Answer(c, t) /\ UNCHANGED logVars
  <2>1. Current.idem[k] \in Task /\ Current.tasks[Current.idem[k]].version > 0
    BY <1>1, <1>5, ProjectionFields DEF CreateReplay, KeyKnown
  <2> QED BY <1>5, <2>1 DEF CreateReplay, Exists
<1>6. ASSUME NEW t \in Task, Get(c, t)
      PROVE  \E s \in Task : state = "up" /\ Exists(s) /\ Answer(c, s) /\ UNCHANGED logVars
  BY <1>6 DEF Get
<1>7. ASSUME NEW to \in Status, Transition(c, to)
      PROVE  \E r : Wanted(Current, r) /\ Based(c, r) /\ Write(c, r)
  <2> DEFINE t == seen[c].task
             v == Current.tasks[t].version + 1
             r == [op |-> "transitioned", task |-> t, to |-> to, after |-> v]
  <2>1. /\ t # NoTask /\ Current.tasks[t].version > 0
        /\ LegalTransition(Current.tasks[t].status, to) /\ Write(c, r)
        /\ seen[c].view.version = Current.tasks[t].version
    BY <1>7 DEF Transition, Exists, NextVersion, VersionMatches
  <2>2. t \in Task /\ v \in Nat
    BY <1>2, <1>3, <2>1
  <2>3. r \in Record
    <3> HIDE DEF v, t
    <3> QED BY <2>2 DEF Record
  <2>4. Wanted(Current, r) /\ Based(c, r)
    BY <2>1, <2>3 DEF Wanted, Based
  <2> QED BY <2>1, <2>4
<1>8. ASSUME NEW ev \in Evidence, AttachEvidence(c, ev)
      PROVE  \E r : Wanted(Current, r) /\ Based(c, r) /\ Write(c, r)
  <2> DEFINE t == seen[c].task
             r == [op |-> "attached", task |-> t, evidence |-> ev]
  <2>1. /\ t # NoTask /\ Current.tasks[t].version > 0 /\ Write(c, r)
        /\ seen[c].view.wcVersion = Current.tasks[t].wcVersion
    BY <1>8 DEF AttachEvidence, Exists, VersionMatches
  <2>2. t \in Task
    BY <1>3, <2>1
  <2>3. r \in Record
    BY <2>2 DEF Record
  <2>4. Wanted(Current, r) /\ Based(c, r)
    BY <2>1, <2>3 DEF Wanted, Based
  <2> QED BY <2>1, <2>4
<1> QED BY <1>4, <1>5, <1>6, <1>7, <1>8 DEF Request

(* Each step of the registry keeps the invariant. *)
LEMMA RegistryStep ==
    ASSUME RegistryInv, [Next]_vars
    PROVE  RegistryInv'
<1>1. CASE \E c \in Client : Request(c)
  <2>1. PICK c \in Client : Request(c)
    BY <1>1
  <2>2. CASE \E r : Wanted(Current, r) /\ Write(c, r)
    <3>1. PICK r : Wanted(Current, r) /\ Write(c, r)
      BY <2>2
    <3> QED BY <3>1, AckedStep, FailedStep DEF Write
  <2>3. CASE \E t \in Task : state = "up" /\ Exists(t) /\ Answer(c, t) /\ UNCHANGED logVars
    BY <2>3, AnswerStep
  <2> QED BY <2>1, <2>2, <2>3, Requests
<1>2. CASE Restart
  BY <1>2, DeathStep, RestartStep, RefusedStep DEF Restart
<1>3. CASE MachineFails
  BY <1>3, MachineStep
<1>4. CASE UNCHANGED vars
  <2>1. UNCHANGED <<file, ended, synced, state, mem, seq, acked, tears, deaths, seen>>
    BY <1>4 DEF vars
  <2>2. Log!IInv'
    <3>1. LogOf(Record)!IInv' BY <2>1, SameLog, LogStep DEF RegistryInv
    <3> QED BY <3>1, SameLog
  <2>3. /\ Current' = Current
        /\ \A n : Replay(n)' = Replay(n) /\ Whole(n)' = Whole(n) /\ Loadable(n)' = Loadable(n)
    BY <2>1 DEF Current, Replay, Whole, Loadable
  <2>4. ReplaysSound' /\ MemoryInFile' /\ AnswersInFile'
    BY <2>1, <2>3 DEF RegistryInv, ReplaysSound, MemoryInFile, Exists, AnswersInFile
  <2>5. TypeOK'
    BY <2>1, <2>2 DEF RegistryInv, TypeOK, Log!IInv
  <2> QED BY <2>2, <2>4, <2>5 DEF RegistryInv
<1> QED BY <1>1, <1>2, <1>3, <1>4 DEF Next

(* The registry starts with nothing in its file and nothing told to anyone. *)
LEMMA RegistryStarts ==
    ASSUME Init
    PROVE  RegistryInv
<1>1. Log!IInv
  BY SameLog, SameFaults, LogStarts DEF Init
<1>2. file = <<>> /\ mem = <<>> /\ seen = [c \in Client |-> NothingSeen] /\ synced = 0
  BY DEF Init, Log!Init
<1>3. TypeOK
  <2>1. NothingSeen \in [task : Task \cup {NoTask}, view : TaskState, trust : Trust]
    BY FirstStates DEF NothingSeen, Trust
  <2>2. NothingSeen.view = Absent
    BY DEF NothingSeen
  <2>3. \A c \in Client : seen[c] = NothingSeen
    BY <1>2
  <2>4. seen \in [Client -> [task : Task \cup {NoTask}, view : TaskState, trust : Trust]]
    BY <1>2, <2>1
  <2> QED BY <1>1, <2>2, <2>3, <2>4 DEF TypeOK, Log!IInv
<1>4. Current = Empty
  BY <1>2, ProjectionOfNone DEF Current
<1>5. \A n \in 0..Len(file) : n = 0 /\ Replay(n) = Empty
  <2>1. \A n \in 0..Len(file) : n = 0
    BY <1>2
  <2>2. Replay(0) = Empty
    BY ProjectionOfNone DEF Replay
  <2> QED BY <2>1, <2>2
<1>6. ReplaysSound
  BY <1>5, FirstStates DEF ReplaysSound, Sound, Projections
<1>7. MemoryInFile
  <2>1. Sound(Current, mem, Len(mem))
    BY <1>2, <1>4, FirstStates DEF Sound, Projections
  <2>2. \A t \in Task : ~Exists(t)
    BY <1>4, FirstStates DEF Exists
  <2>3. Len(mem) <= Len(file)
    BY <1>2
  <2> QED BY <2>1, <2>2, <2>3 DEF MemoryInFile
<1>8. AnswersInFile
  <2>1. \A c \in Client : seen[c].task = NoTask
    BY <1>2 DEF NothingSeen
  <2> QED BY <2>1 DEF AnswersInFile
<1> QED BY <1>1, <1>3, <1>6, <1>7, <1>8 DEF RegistryInv

-----------------------------------------------------------------------------
(* The invariant of the registry and of its log holds in every reachable state. *)
THEOREM RegistryInvariance == Spec => []RegistryInv
BY RegistryStarts, RegistryStep, PTL DEF Spec

(* Whatever fails, the log under the registry keeps all it acknowledged, and torn *)
(* writes cost it no more records than there are of them (store.go: append and    *)
(* Load).                                                                         *)
THEOREM LogIsKept == Spec => []LogKept
<1>1. RegistryInv => LogKept
  BY SameLog, LossIsBounded DEF RegistryInv, LogKept
<1> QED BY <1>1, RegistryInvariance, PTL

(* An answer that is not lost names, by its versions, the state the registry is in. *)
LEMMA VersionsName ==
    ASSUME RegistryInv
    PROVE  VersionNamesState
BY DEF RegistryInv, AnswersInFile, VersionNamesState, Later

(* While the registry serves, the version a client holds names one state of the     *)
(* task, through failed appends, replays and failures of the machine (store.go:      *)
(* Transition and AttachEvidence check them), and every replay there can be goes on  *)
(* from what the clients were told.                                                  *)
THEOREM InvHolds == Spec => []Inv
<1>1. RegistryInv => Inv
  BY VersionsName DEF RegistryInv, Inv
<1> QED BY <1>1, RegistryInvariance, PTL

(* What a client was told is never taken back: statuses go along the machine and    *)
(* evidence stays (store.go: append and Load).                                      *)
THEOREM AnswersHoldAlways == Spec => []AnswersHold
<1>1. ASSUME RegistryInv PROVE AnswersHold
  <2> SUFFICES ASSUME state = "up", NEW c \in Client, seen[c].task # NoTask,
                      seen[c].trust # "lost"
               PROVE  LET now == Current.tasks[seen[c].task]
                          was == seen[c].view
                      IN  /\ now.status = was.status \/ Rank[now.status] > Rank[was.status]
                          /\ \A e \in Evidence :
                                (\E i \in 1..Len(was.evidence) : was.evidence[i] = e)
                                => (\E i \in 1..Len(now.evidence) : now.evidence[i] = e)
    BY DEF AnswersHold
  <2> DEFINE now == Current.tasks[seen[c].task]
             was == seen[c].view
  <2>1. Later(was, now)
    BY <1>1 DEF RegistryInv, AnswersInFile
  <2>2. now.status = was.status \/ Rank[now.status] > Rank[was.status]
    <3>1. was \in TaskState /\ now \in TaskState
      BY <1>1, SeenFacts, MemoryFacts, ProjectionFields DEF RegistryInv, Log!IInv
    <3>2. \A s \in Status : Rank[s] \in Nat
      BY DEF Status, Rank
    <3>3. Rank[was.status] \in Nat /\ Rank[now.status] \in Nat
      BY <3>1, <3>2, TaskStateFields
    <3> QED BY <2>1, <3>3 DEF Later
  <2>3. ASSUME NEW e \in Evidence, NEW i \in 1..Len(was.evidence), was.evidence[i] = e
        PROVE  \E j \in 1..Len(now.evidence) : now.evidence[j] = e
    <3>1. PICK j \in 1..Len(now.evidence) : was.evidence[i] = now.evidence[j]
      BY <2>1 DEF Later
    <3> QED BY <2>3, <3>1
  <2> QED BY <2>2, <2>3
<1> QED BY <1>1, RegistryInvariance, PTL

(* A second creation with a key that was acknowledged finds the key: the memory has  *)
(* every acknowledged record.                                                        *)
LEMMA KeysAreKnown ==
    ASSUME RegistryInv, state = "up", NEW i \in 1..Len(acked), acked[i].rec.op = "created"
    PROVE  Current.idem[acked[i].rec.key] # NoTask
<1>1. PICK j \in 1..Len(mem) : mem[j] = acked[i]
  BY SameLog DEF RegistryInv, LogOf!IInv, LogOf!ServesAllAcked
<1>2. Sound(Current, mem, Len(mem))
  BY DEF RegistryInv, MemoryInFile
<1> QED BY <1>1, <1>2 DEF Sound

(* Two acknowledged creations with one key are creations of one task, also if an     *)
(* attempt between them failed with its record on the disk (store.go: CreateTask).   *)
THEOREM CreationIsIdempotent == Spec => []CreationIdempotent
<1>1. Init => CreationIdempotent
  BY DEF Init, Log!Init, CreationIdempotent
<1>2. ASSUME RegistryInv, CreationIdempotent, [Next]_vars PROVE CreationIdempotent'
  <2>1. CASE UNCHANGED acked
    BY <1>2, <2>1 DEF CreationIdempotent
  <2>2. ASSUME NEW c \in Client, NEW r, Wanted(Current, r), Log!AppendRecord(r)
        PROVE  CreationIdempotent'
    <3> DEFINE e == [rec |-> r, seq |-> Log!NextSeq]
    <3>1. acked \in Seq(Log!Entry) /\ acked' = Append(acked, e) /\ state = "up"
      BY <1>2, <2>2 DEF RegistryInv, Log!IInv, Log!TypeOK, Log!AppendRecord, Log!CanAppend
    <3>2. e \in Log!Entry /\ e.rec = r
      BY <1>2, <2>2 DEF Log!Entry, Log!NextSeq, Log!TypeOK, Log!IInv, RegistryInv, Wanted
    <3> HIDE DEF e
    <3>3. /\ Len(acked) \in Nat /\ Len(acked') = Len(acked) + 1
          /\ \A i \in 1..Len(acked) : acked'[i] = acked[i]
          /\ acked'[Len(acked) + 1] = e
      BY <3>1, <3>2, AppendFacts
    <3>4. ASSUME NEW i \in 1..Len(acked), acked[i].rec.op = "created", r.op = "created"
          PROVE  acked[i].rec.key # r.key
      <4>1. Current.idem[acked[i].rec.key] # NoTask
        BY <1>2, <3>1, <3>4, KeysAreKnown
      <4>2. Current.idem[r.key] = NoTask
        BY <2>2, <3>4 DEF Wanted
      <4> QED BY <4>1, <4>2
    <3>5. ASSUME NEW i \in 1..Len(acked'), NEW j \in 1..Len(acked'),
                 acked'[i].rec.op = "created", acked'[j].rec.op = "created",
                 acked'[i].rec.key = acked'[j].rec.key
          PROVE  acked'[i].rec.task = acked'[j].rec.task
      <4>1. \A k \in 1..Len(acked') : k \in 1..Len(acked) \/ k = Len(acked) + 1
        BY <3>3
      <4>2. CASE i \in 1..Len(acked) /\ j \in 1..Len(acked)
        BY <1>2, <3>3, <3>5, <4>2 DEF CreationIdempotent
      <4>3. CASE i = Len(acked) + 1 /\ j \in 1..Len(acked)
        BY <3>2, <3>3, <3>4, <3>5, <4>3
      <4>4. CASE j = Len(acked) + 1 /\ i \in 1..Len(acked)
        BY <3>2, <3>3, <3>4, <3>5, <4>4
      <4>5. CASE i = Len(acked) + 1 /\ j = Len(acked) + 1
        BY <4>5
      <4> QED BY <4>1, <4>2, <4>3, <4>4, <4>5
    <3> QED BY <3>5 DEF CreationIdempotent
  <2>3. CASE \E c \in Client : Request(c)
    <3>1. PICK c \in Client : Request(c)
      BY <2>3
    <3>2. CASE \E r : Wanted(Current, r) /\ Based(c, r) /\ Write(c, r)
      <4>1. PICK r : Wanted(Current, r) /\ Write(c, r)
        BY <3>2
      <4>2. Log!AppendRecord(r) \/ UNCHANGED acked
        BY <4>1 DEF Write, Log!AppendUnsynced, Log!AppendTorn
      <4> QED BY <2>1, <2>2, <4>1, <4>2
    <3>3. CASE UNCHANGED logVars
      BY <2>1, <3>3 DEF logVars
    <3> QED BY <1>2, <3>1, <3>2, <3>3, Requests
  <2>4. CASE Restart
    BY <2>1, <2>4 DEF Restart, Log!Exit, Log!Load, Log!LoadRefused
  <2>5. CASE MachineFails
    BY <2>1, <2>5 DEF MachineFails, Log!PowerLoss
  <2>6. CASE UNCHANGED vars
    BY <2>1, <2>6 DEF vars
  <2> QED BY <1>2, <2>3, <2>4, <2>5, <2>6 DEF Next
<1> QED BY <1>1, <1>2, RegistryInvariance, PTL DEF Spec

(* No client overwrites a change it has not seen (store.go: the version checks of    *)
(* Transition and AttachEvidence).                                                   *)
THEOREM NoUpdateIsLost == Spec => NoLostUpdate
<1>1. ASSUME RegistryInv, [Next]_vars, NEW t \in Task, state = "up", state' = "up", Exists(t),
             Current.tasks[t] # Current'.tasks[t]
      PROVE  \E c \in Client :
               /\ seen[c].task = t
               /\ \/ seen[c].trust = "lost"
                  \/ /\ Current.tasks[t].status # Current'.tasks[t].status =>
                           seen[c].view.status = Current.tasks[t].status
                     /\ Current.tasks[t].evidence # Current'.tasks[t].evidence =>
                           seen[c].view.evidence = Current.tasks[t].evidence
               /\ seen'[c].view = Current'.tasks[t]
  <2>1. mem' # mem
    BY <1>1 DEF Current
  <2>2. ~Restart /\ ~MachineFails /\ ~UNCHANGED vars
    BY <1>1, <2>1 DEF Restart, MachineFails, vars, Log!Exit, Log!Load, Log!LoadRefused,
                      Log!PowerLoss
  <2>3. PICK c \in Client : Request(c)
    BY <1>1, <2>2 DEF Next
  <2>4. ~UNCHANGED logVars
    BY <2>1 DEF logVars
  <2>5. PICK r : Wanted(Current, r) /\ Based(c, r) /\ Write(c, r)
    BY <1>1, <2>3, <2>4, Requests
  <2>6. /\ Log!AppendRecord(r)
        /\ seen' = [Retrusted("cached", "synced") EXCEPT ![c] =
                      [task |-> r.task, view |-> Projection(mem').tasks[r.task],
                       trust |-> "synced"]]
    BY <2>1, <2>5 DEF Write, Log!AppendUnsynced, Log!AppendTorn, Log!store
  <2>7. /\ Current \in Projections /\ Log!TypeOK /\ r \in Record /\ r.task \in Task
        /\ \/ r.op = "created" /\ r.key \in Key
           \/ r.op = "transitioned" /\ r.to \in Status /\ r.after \in Nat
           \/ r.op = "attached" /\ r.evidence \in Evidence
    BY <1>1, <2>5, MemoryFacts, Records DEF RegistryInv, Log!IInv, Wanted
  <2>8. PICK e : e.rec = r /\ Current' = Apply(Current, e)
    BY <2>6, <2>7, CurrentGoesOn
  <2>9. t = r.task
    BY <1>1, <2>7, <2>8, ApplyOthers
  <2>10. r.op # "created"
    <3>1. Current.tasks[t].version > 0 /\ Current.tasks[t].version \in Nat
      BY <1>1, <2>7, ProjectionFields, TaskStateFields DEF Exists
    <3> QED BY <2>5, <2>9, <3>1 DEF Wanted
  <2>11. seen[c].task = t /\ t # NoTask
    BY <2>5, <2>7, <2>9, <2>10 DEF Based
  <2>12. seen'[c].view = Current'.tasks[t]
    <3>1. seen'[c] = [task |-> r.task, view |-> Projection(mem').tasks[r.task], trust |-> "synced"]
      BY <2>6 DEF Retrusted
    <3> QED BY <2>9, <3>1 DEF Current
  <2>13. ASSUME seen[c].trust # "lost"
         PROVE  /\ Current.tasks[t].status # Current'.tasks[t].status =>
                      seen[c].view.status = Current.tasks[t].status
                /\ Current.tasks[t].evidence # Current'.tasks[t].evidence =>
                      seen[c].view.evidence = Current.tasks[t].evidence
    <3>1. /\ Current.tasks[t].version = seen[c].view.version =>
               Current.tasks[t].status = seen[c].view.status
          /\ Current.tasks[t].wcVersion = seen[c].view.wcVersion =>
               Current.tasks[t].evidence = seen[c].view.evidence
      BY <1>1, <2>11, <2>13, VersionsName DEF VersionNamesState
    <3>2. CASE r.op = "transitioned"
      <4>1. Current'.tasks[t].evidence = Current.tasks[t].evidence
        BY <2>7, <2>8, <2>9, <3>2, ApplyTransitioned
      <4>2. seen[c].view.version = Current.tasks[t].version
        BY <2>5, <2>9, <3>2 DEF Based
      <4> QED BY <3>1, <4>1, <4>2
    <3>3. CASE r.op = "attached"
      <4>1. Current'.tasks[t].status = Current.tasks[t].status
        BY <2>7, <2>8, <2>9, <3>3, ApplyAttached
      <4>2. seen[c].view.wcVersion = Current.tasks[t].wcVersion
        BY <2>5, <2>9, <3>3 DEF Based
      <4> QED BY <3>1, <4>1, <4>2
    <3> QED BY <2>7, <2>10, <3>2, <3>3
  <2> QED BY <2>11, <2>12, <2>13
<1>2. RegistryInv /\ [Next]_vars =>
        [\A t \in Task :
           LET now == Current.tasks[t]
               next == Current'.tasks[t]
           IN  (state = "up" /\ state' = "up" /\ Exists(t) /\ now # next) =>
                  \E c \in Client :
                      /\ seen[c].task = t
                      /\ \/ seen[c].trust = "lost"
                         \/ /\ now.status # next.status => seen[c].view.status = now.status
                            /\ now.evidence # next.evidence =>
                                  seen[c].view.evidence = now.evidence
                      /\ seen'[c].view = next]_vars
  BY <1>1
<1> QED BY <1>2, RegistryInvariance, PTL DEF Spec, NoLostUpdate
=============================================================================
