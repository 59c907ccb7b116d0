------------------------- MODULE PluginStreamsProofs -------------------------
(***************************************************************************)
(* A plugin that consumes streams receives them in order and is told their  *)
(* end, and does not fall while the provider of its streams behaves.  For    *)
(* any number of streams, and every capacity of the queues.                 *)
(***************************************************************************)
EXTENDS PluginStreams, FiniteSetTheorems, TLAPS

(***************************************************************************)
(* Queues: what is in one when a frame is put in or taken out.              *)
(***************************************************************************)
LEMMA HasAppend ==
  ASSUME NEW S, NEW q \in Seq(S), NEW f \in S, NEW s, NEW kinds
  PROVE  Has(Append(q, f), s, kinds) <=> Has(q, s, kinds) \/ (f.of = s /\ f.kind \in kinds)
<1> DEFINE p == Append(q, f)
<1>1. /\ Len(q) \in Nat /\ Len(p) = Len(q) + 1
      /\ \A i \in 1 .. Len(q) : p[i] = q[i]
      /\ p[Len(q) + 1] = f
  OBVIOUS
<1> HIDE DEF p
<1>2. ASSUME Has(p, s, kinds) PROVE Has(q, s, kinds) \/ (f.of = s /\ f.kind \in kinds)
  <2>1. PICK i \in 1 .. Len(p) : p[i].of = s /\ p[i].kind \in kinds BY <1>2 DEF Has
  <2>2. CASE i = Len(q) + 1 BY <2>1, <2>2, <1>1
  <2>3. CASE i # Len(q) + 1
    <3>1. i \in 1 .. Len(q) BY <2>3, <1>1
    <3>. QED BY <3>1, <2>1, <1>1 DEF Has
  <2>. QED BY <2>2, <2>3
<1>3. ASSUME Has(q, s, kinds) \/ (f.of = s /\ f.kind \in kinds) PROVE Has(p, s, kinds)
  <2>1. Len(q) + 1 \in 1 .. Len(p) /\ 1 .. Len(q) \subseteq 1 .. Len(p) BY <1>1
  <2>. QED BY <1>3, <2>1, <1>1 DEF Has
<1>. QED BY <1>2, <1>3 DEF p

\* A queue is its head and its tail.
LEMMA TailFacts ==
  ASSUME NEW S, NEW q \in Seq(S), q # <<>>
  PROVE  /\ Head(q) \in S /\ Tail(q) \in Seq(S)
         /\ Len(q) \in Nat /\ Len(q) >= 1 /\ Len(Tail(q)) = Len(q) - 1
         /\ q[1] = Head(q)
         /\ \A i \in 1 .. Len(q) - 1 : Tail(q)[i] = q[i + 1]
OBVIOUS

\* What is in a queue is its head, or in its tail.
LEMMA HasTail ==
  ASSUME NEW S, NEW q \in Seq(S), q # <<>>, NEW s, NEW kinds
  PROVE  Has(q, s, kinds) <=>
           Has(Tail(q), s, kinds) \/ (Head(q).of = s /\ Head(q).kind \in kinds)
<1> DEFINE p == Tail(q)
<1>1. /\ Len(q) \in Nat /\ Len(q) >= 1 /\ Len(p) = Len(q) - 1 /\ q[1] = Head(q)
      /\ \A i \in 1 .. Len(q) - 1 : p[i] = q[i + 1]
  BY TailFacts
<1> HIDE DEF p
<1>2. ASSUME Has(q, s, kinds) PROVE Has(p, s, kinds) \/ (Head(q).of = s /\ Head(q).kind \in kinds)
  <2>1. PICK i \in 1 .. Len(q) : q[i].of = s /\ q[i].kind \in kinds BY <1>2 DEF Has
  <2>2. CASE i = 1 BY <2>1, <2>2, <1>1
  <2>3. CASE i # 1
    <3>1. i - 1 \in 1 .. Len(p) /\ p[i - 1] = q[i] BY <2>3, <1>1
    <3>. QED BY <3>1, <2>1 DEF Has
  <2>. QED BY <2>2, <2>3
<1>3. ASSUME Has(p, s, kinds) PROVE Has(q, s, kinds)
  <2>1. PICK i \in 1 .. Len(p) : p[i].of = s /\ p[i].kind \in kinds BY <1>3 DEF Has
  <2>2. i + 1 \in 1 .. Len(q) /\ q[i + 1] = p[i] BY <1>1
  <2>. QED BY <2>1, <2>2 DEF Has
<1>4. ASSUME Head(q).of = s /\ Head(q).kind \in kinds PROVE Has(q, s, kinds)
  <2>1. 1 \in 1 .. Len(q) BY <1>1
  <2>. QED BY <2>1, <1>1, <1>4 DEF Has
<1>. QED BY <1>2, <1>3, <1>4 DEF p

\* The empty queue has nothing.
LEMMA HasNone ==
  ASSUME NEW s, NEW kinds
  PROVE  ~Has(<<>>, s, kinds)
BY DEF Has

\* A queue of one has that one.
LEMMA HasOne ==
  ASSUME NEW f, NEW s, NEW kinds
  PROVE  Has(<<f>>, s, kinds) <=> f.of = s /\ f.kind \in kinds
BY DEF Has

\* Two queues have together what each has.
LEMMA HasConcat ==
  ASSUME NEW S, NEW q \in Seq(S), NEW r \in Seq(S), NEW s, NEW kinds
  PROVE  Has(q \o r, s, kinds) <=> Has(q, s, kinds) \/ Has(r, s, kinds)
<1> DEFINE p == q \o r
<1>1. /\ Len(q) \in Nat /\ Len(r) \in Nat /\ Len(p) = Len(q) + Len(r)
      /\ \A i \in 1 .. Len(q) : p[i] = q[i]
      /\ \A i \in 1 .. Len(r) : p[Len(q) + i] = r[i]
  OBVIOUS
<1> HIDE DEF p
<1>2. ASSUME Has(p, s, kinds) PROVE Has(q, s, kinds) \/ Has(r, s, kinds)
  <2>1. PICK i \in 1 .. Len(p) : p[i].of = s /\ p[i].kind \in kinds BY <1>2 DEF Has
  <2>2. CASE i \in 1 .. Len(q) BY <2>1, <2>2, <1>1 DEF Has
  <2>3. CASE i \notin 1 .. Len(q)
    <3>1. i - Len(q) \in 1 .. Len(r) /\ i = Len(q) + (i - Len(q)) BY <2>3, <1>1
    <3>2. p[i] = r[i - Len(q)] BY <3>1, <1>1
    <3>. QED BY <3>1, <3>2, <2>1 DEF Has
  <2>. QED BY <2>2, <2>3
<1>3. ASSUME Has(q, s, kinds) PROVE Has(p, s, kinds)
  <2>1. 1 .. Len(q) \subseteq 1 .. Len(p) BY <1>1
  <2>. QED BY <1>3, <2>1, <1>1 DEF Has
<1>4. ASSUME Has(r, s, kinds) PROVE Has(p, s, kinds)
  <2>1. PICK i \in 1 .. Len(r) : r[i].of = s /\ r[i].kind \in kinds BY <1>4 DEF Has
  <2>2. Len(q) + i \in 1 .. Len(p) /\ p[Len(q) + i] = r[i] BY <1>1
  <2>. QED BY <2>1, <2>2 DEF Has
<1>. QED BY <1>2, <1>3, <1>4 DEF p

\* The kinds count one by one.
LEMMA HasFewer ==
  ASSUME NEW q, NEW s, NEW kinds, NEW more, kinds \subseteq more, Has(q, s, kinds)
  PROVE  Has(q, s, more)
BY DEF Has

(***************************************************************************)
(* The numbers of a stream's data in a queue.                               *)
(***************************************************************************)
\* What the definition of Numbers says of one number,
LEMMA NumbersOf ==
  ASSUME NEW q, NEW s, NEW n
  PROVE  n \in Numbers(q, s) <=>
           \E i \in 1 .. Len(q) : q[i].of = s /\ q[i].kind = "data" /\ q[i].n = n
BY DEF Numbers, DataAt

\* and that of Rising of two.
LEMMA RisingOf ==
  ASSUME NEW q, NEW s
  PROVE  Rising(q, s) <=>
           \A i, j \in 1 .. Len(q) :
             /\ i < j
             /\ q[i].of = s /\ q[i].kind = "data" /\ q[j].of = s /\ q[j].kind = "data"
             => q[i].n < q[j].n
BY DEF Rising, DataAt

\* Without data of the stream there are no numbers.
LEMMA NumbersNone ==
  ASSUME NEW S, NEW q \in Seq(S), NEW s, NEW kinds, "data" \in kinds, ~Has(q, s, kinds)
  PROVE  Numbers(q, s) = {} /\ Rising(q, s)
BY NumbersOf, RisingOf DEF Has

\* A frame put in adds its number, if it is data of the stream.
LEMMA NumbersAppend ==
  ASSUME NEW S, NEW q \in Seq(S), NEW f \in S, NEW s
  PROVE  Numbers(Append(q, f), s) =
           Numbers(q, s) \cup (IF f.of = s /\ f.kind = "data" THEN {f.n} ELSE {})
<1> DEFINE p == Append(q, f)
<1>1. /\ Len(q) \in Nat /\ Len(p) = Len(q) + 1
      /\ \A i \in 1 .. Len(q) : p[i] = q[i]
      /\ p[Len(q) + 1] = f
  OBVIOUS
<1>2. Len(q) + 1 \in 1 .. Len(p) /\ 1 .. Len(q) \subseteq 1 .. Len(p)
      /\ \A i \in 1 .. Len(p) : i \in 1 .. Len(q) \/ i = Len(q) + 1
  BY <1>1
<1> HIDE DEF p
<1>3. ASSUME NEW n
      PROVE  n \in Numbers(p, s) <=> n \in Numbers(q, s) \/ (f.of = s /\ f.kind = "data" /\ f.n = n)
  BY <1>1, <1>2, NumbersOf
<1>. QED BY <1>3 DEF p

\* The numbers still rise if the frame put in has the greatest.
LEMMA RisingAppend ==
  ASSUME NEW S, NEW q \in Seq(S), NEW f \in S, NEW s, Rising(q, s),
         f.of = s /\ f.kind = "data" => \A n \in Numbers(q, s) : n < f.n
  PROVE  Rising(Append(q, f), s)
<1> DEFINE p == Append(q, f)
<1>1. /\ Len(q) \in Nat /\ Len(p) = Len(q) + 1
      /\ \A i \in 1 .. Len(q) : p[i] = q[i]
      /\ p[Len(q) + 1] = f
  OBVIOUS
<1> HIDE DEF p
<1>2. ASSUME NEW i \in 1 .. Len(p), NEW j \in 1 .. Len(p), i < j,
             p[i].of = s, p[i].kind = "data", p[j].of = s, p[j].kind = "data"
      PROVE  p[i].n < p[j].n
  <2>1. i \in 1 .. Len(q) /\ p[i] = q[i] BY <1>1, <1>2
  <2>2. CASE j \in 1 .. Len(q)
    <3>1. p[j] = q[j] BY <2>2, <1>1
    <3>. QED BY <2>1, <2>2, <3>1, <1>2, RisingOf
  <2>3. CASE j \notin 1 .. Len(q)
    <3>1. p[j] = f BY <2>3, <1>1
    <3>2. q[i].n \in Numbers(q, s) BY <2>1, <1>2, NumbersOf
    <3>. QED BY <3>1, <3>2, <2>1, <1>2
  <2>. QED BY <2>2, <2>3
<1>3. Rising(p, s) BY <1>2, RisingOf
<1>. QED BY <1>3 DEF p

\* Frames of others, and ends, change nothing.
LEMMA OtherAppend ==
  ASSUME NEW S, NEW q \in Seq(S), NEW f \in S, NEW s, Rising(q, s), ~(f.of = s /\ f.kind = "data")
  PROVE  Rising(Append(q, f), s) /\ Numbers(Append(q, f), s) = Numbers(q, s)
<1>1. Rising(Append(q, f), s) BY RisingAppend
<1>2. Numbers(Append(q, f), s) =
        Numbers(q, s) \cup (IF f.of = s /\ f.kind = "data" THEN {f.n} ELSE {})
  BY NumbersAppend
<1>. QED BY <1>1, <1>2

\* The head of a queue that rises has the least number, and leaves the others.
LEMMA NumbersTail ==
  ASSUME NEW S, NEW q \in Seq(S), q # <<>>, NEW s, Rising(q, s)
  PROVE  /\ Rising(Tail(q), s)
         /\ Head(q).of = s /\ Head(q).kind = "data" =>
              /\ Head(q).n \in Numbers(q, s)
              /\ \A n \in Numbers(q, s) :
                   n = Head(q).n \/ (Head(q).n < n /\ n \in Numbers(Tail(q), s))
              /\ \A n \in Numbers(Tail(q), s) : Head(q).n < n /\ n \in Numbers(q, s)
         /\ ~(Head(q).of = s /\ Head(q).kind = "data") => Numbers(Tail(q), s) = Numbers(q, s)
<1> DEFINE p == Tail(q)
<1>1. /\ Len(q) \in Nat /\ Len(q) >= 1 /\ Len(p) = Len(q) - 1 /\ q[1] = Head(q)
      /\ \A i \in 1 .. Len(q) - 1 : p[i] = q[i + 1]
  BY TailFacts
<1> HIDE DEF p
<1>2. 1 \in 1 .. Len(q) BY <1>1
<1>3. \A i \in 1 .. Len(p) : i + 1 \in 1 .. Len(q) /\ q[i + 1] = p[i] /\ 1 < i + 1 BY <1>1
<1>4. \A i \in 1 .. Len(q) : i = 1 \/ (i - 1 \in 1 .. Len(p) /\ p[i - 1] = q[i] /\ 1 < i) BY <1>1
<1>5. Rising(p, s)
  <2>1. ASSUME NEW i \in 1 .. Len(p), NEW j \in 1 .. Len(p), i < j,
               p[i].of = s, p[i].kind = "data", p[j].of = s, p[j].kind = "data"
        PROVE  p[i].n < p[j].n
    <3>1. i + 1 < j + 1 BY <2>1, <1>1
    <3>. QED BY <3>1, <2>1, <1>3, RisingOf
  <2>. QED BY <2>1, RisingOf
<1>6. \A n : n \in Numbers(p, s) =>
        \E i \in 1 .. Len(q) : 1 < i /\ q[i].of = s /\ q[i].kind = "data" /\ q[i].n = n
  BY <1>3, NumbersOf
<1>7. \A n : n \in Numbers(q, s) =>
        \/ q[1].of = s /\ q[1].kind = "data" /\ q[1].n = n
        \/ n \in Numbers(p, s)
  BY <1>4, NumbersOf
<1>8. \A n \in Numbers(p, s) : n \in Numbers(q, s) BY <1>6, NumbersOf
<1>9. ASSUME q[1].of = s, q[1].kind = "data"
      PROVE  /\ q[1].n \in Numbers(q, s)
             /\ \A n \in Numbers(p, s) : q[1].n < n
  BY <1>9, <1>2, <1>6, NumbersOf, RisingOf
<1>10. CASE q[1].of = s /\ q[1].kind = "data"
  BY <1>10, <1>1, <1>5, <1>7, <1>8, <1>9 DEF p
<1>11. CASE ~(q[1].of = s /\ q[1].kind = "data")
  BY <1>11, <1>1, <1>5, <1>7, <1>8 DEF p
<1>. QED BY <1>10, <1>11

\* Frames that are no data do not count.
LEMMA NumbersConcat ==
  ASSUME NEW S, NEW q \in Seq(S), NEW r \in Seq(S), NEW s, ~Has(r, s, {"data"}), Rising(q, s)
  PROVE  Numbers(q \o r, s) = Numbers(q, s) /\ Rising(q \o r, s)
<1> DEFINE p == q \o r
<1>1. /\ Len(q) \in Nat /\ Len(r) \in Nat /\ Len(p) = Len(q) + Len(r)
      /\ \A i \in 1 .. Len(q) : p[i] = q[i]
      /\ \A i \in 1 .. Len(r) : p[Len(q) + i] = r[i]
  OBVIOUS
<1> HIDE DEF p
<1>2. 1 .. Len(q) \subseteq 1 .. Len(p) BY <1>1
<1>3. ASSUME NEW i \in 1 .. Len(p), p[i].of = s, p[i].kind = "data"
      PROVE  i \in 1 .. Len(q) /\ p[i] = q[i]
  <2>1. CASE i \in 1 .. Len(q) BY <2>1, <1>1
  <2>2. CASE i \notin 1 .. Len(q)
    <3>1. i - Len(q) \in 1 .. Len(r) /\ i = Len(q) + (i - Len(q)) BY <2>2, <1>1
    <3>2. p[i] = r[i - Len(q)] BY <3>1, <1>1
    <3>. QED BY <3>1, <3>2, <1>3 DEF Has
  <2>. QED BY <2>1, <2>2
<1>4. \A n : n \in Numbers(p, s) <=> n \in Numbers(q, s) BY <1>1, <1>2, <1>3, NumbersOf
<1>5. Rising(p, s) BY <1>3, RisingOf
<1>. QED BY <1>4, <1>5 DEF p

(***************************************************************************)
(* What RemoveClient tells the consumers: the end of every routed stream.   *)
(***************************************************************************)
LEMMA ToldFacts ==
  ASSUME IsFiniteSet(routes), routes \subseteq Streams
  PROVE  /\ Told \in Seq(Frame)
         /\ \A s, kinds : Has(Told, s, kinds) => s \in routes /\ "broken" \in kinds
<1> DEFINE n == Cardinality(routes)
           ends == {Made(s, "broken") : s \in routes}
           P(fs) == \A s \in routes : \E i \in DOMAIN fs : fs[i].of = s
<1>1. n \in Nat /\ ExistsBijection(1 .. n, routes) BY FS_CardinalityType
<1>2. PICK g \in Bijection(1 .. n, routes) : TRUE BY <1>1 DEF ExistsBijection
<1>3. g \in [1 .. n -> routes] /\ \A s \in routes : \E i \in 1 .. n : g[i] = s
  BY <1>2 DEF Bijection, Injection, Surjection
<1> DEFINE fs == [i \in 1 .. n |-> Made(g[i], "broken")]
<1>4. fs \in [1 .. n -> ends] BY <1>3
<1>5. P(fs)
  <2>1. ASSUME NEW s \in routes PROVE \E i \in DOMAIN fs : fs[i].of = s
    <3>1. PICK i \in 1 .. n : g[i] = s BY <1>3
    <3>2. i \in DOMAIN fs /\ fs[i] = Made(s, "broken") BY <3>1
    <3>3. fs[i].of = s BY <3>2 DEF Made
    <3>. QED BY <3>2, <3>3
  <2>. QED BY <2>1
<1>6. Told \in [1 .. n -> ends]
  <2> HIDE DEF fs, P
  <2>1. \E x \in [1 .. n -> ends] : P(x) BY <1>4, <1>5
  <2>2. Told = CHOOSE x \in [1 .. n -> ends] : P(x) BY DEF Told, P
  <2> HIDE DEF n, ends
  <2>. QED BY <2>1, <2>2
<1>7. ends \subseteq Frame BY DEF Frame, Made, Streamed
<1>8. Told \in Seq(Frame) /\ Len(Told) = n
  <2> HIDE DEF ends, n
  <2>1. Told \in [1 .. n -> Frame] BY <1>6, <1>7
  <2>. QED BY <2>1, <1>1
<1>9. ASSUME NEW s, NEW kinds, Has(Told, s, kinds) PROVE s \in routes /\ "broken" \in kinds
  <2>1. PICK i \in 1 .. Len(Told) : Told[i].of = s /\ Told[i].kind \in kinds BY <1>9 DEF Has
  <2>2. Told[i] \in ends BY <1>6, <1>8, <2>1
  <2>. QED BY <2>1, <2>2 DEF Made
<1>. QED BY <1>8, <1>9

(***************************************************************************)
(* The types.                                                               *)
(***************************************************************************)
LEMMA MadeType ==
  ASSUME NEW s \in Streams, NEW k, NEW n \in Nat
  PROVE  /\ k \in {"accepted", "error", "data", "close", "broken"} => Made(s, k) \in Frame
         /\ k \in Streamed => Made(s, k) \in StreamFrame /\ Made(s, k) \in Frame
         /\ Data(s, n) \in StreamFrame /\ Data(s, n) \in Frame
         /\ Made(s, k).of = s /\ Made(s, k).kind = k
         /\ Data(s, n).of = s /\ Data(s, n).kind = "data" /\ Data(s, n).n = n
BY DEF Made, Data, Frame, StreamFrame, Streamed

\* What the fields of a frame are.
LEMMA StreamFrameType ==
  /\ StreamFrame \subseteq Frame
  /\ \A f \in Frame : /\ f.of \in Streams /\ f.n \in Nat
                      /\ f.kind \in {"accepted", "error", "data", "close", "broken"}
                      /\ f.kind \in Streamed => f \in StreamFrame
                      /\ f.kind = "data" => f = Data(f.of, f.n)
  /\ \A f \in StreamFrame : f.of \in Streams /\ f.kind \in Streamed /\ f.n \in Nat
BY DEF StreamFrame, Frame, Streamed, Data

\* The initial state has the types.
LEMMA InitTypes == Init => TypeOK
<1> SUFFICES ASSUME Init PROVE TypeOK OBVIOUS
<1> USE PluginStreamsAssumption DEF PluginStreamsAssumption
<1>1. ConsumerOK
  <2>1. /\ <<>> \in Seq(Frame) /\ <<>> \in Seq(StreamFrame) /\ Len(<<>>) = 0
        /\ Room \in Nat /\ MaxCalls \in Nat
    OBVIOUS
  <2>2. /\ chan \in [Streams -> Seq(Frame)] /\ got \in [Streams -> Seq(Frame)]
        /\ \A s \in Streams : Len(chan[s]) <= Room
    BY <2>1 DEF Init
  <2>3. /\ call \in [Streams -> {"no", "calling", "reading", "failed", "done"}]
        /\ reply \in [Streams -> {"none", "accepted", "error"}]
        /\ table \cup shut \cup parting \cup cancelled \subseteq Streams
    BY DEF Init
  <2>4. calls \in 0 .. MaxCalls
    <3>1. calls = 0 BY DEF Init
    <3>. QED BY <2>1, <3>1
  <2>5. held \in Seq(StreamFrame) /\ Len(held) <= 1 BY <2>1 DEF Init
  <2>6. crashed \in BOOLEAN BY DEF Init
  <2>. QED BY <2>2, <2>3, <2>4, <2>5, <2>6 DEF ConsumerOK
<1>2. PipesOK BY DEF Init, PipesOK
<1>3. IsFiniteSet(routes) BY FS_EmptySet DEF Init
<1>4. RouterOK BY <1>3 DEF Init, RouterOK
<1>5. ProviderOK BY DEF Init, ProviderOK
<1>. QED BY <1>1, <1>2, <1>4, <1>5 DEF TypeOK

\* What a step leaves alone keeps its types.
LEMMA SameTypes ==
  ASSUME TypeOK
  PROVE  /\ UNCHANGED consumer => ConsumerOK'
         /\ UNCHANGED pipes => PipesOK'
         /\ UNCHANGED <<router, due>> => RouterOK'
         /\ UNCHANGED provider => ProviderOK'
<1>1. UNCHANGED consumer => ConsumerOK' BY DEF TypeOK, ConsumerOK, consumer
<1>2. UNCHANGED pipes => PipesOK' BY DEF TypeOK, PipesOK, pipes
<1>3. UNCHANGED <<router, due>> => RouterOK' BY DEF TypeOK, RouterOK, router
<1>4. UNCHANGED provider => ProviderOK' BY DEF TypeOK, ProviderOK, provider
<1>. QED BY <1>1, <1>2, <1>3, <1>4

\* An order of the consumer.
LEMMA OrderedType ==
  ASSUME TypeOK, NEW s \in Streams \cup {Other}, NEW k \in {"request", "cancel", "abandon"},
         Ordered(s, k), UNCHANGED in
  PROVE  PipesOK'
BY DEF TypeOK, PipesOK, Ordered, Order

\* A failed call.
LEMMA ForgetTypes ==
  ASSUME TypeOK, NEW s \in Streams, Forget(s),
         UNCHANGED <<reply, chan, held, parting, got, calls, cancelled>>
  PROVE  ConsumerOK'
<1>1. call' \in [Streams -> {"no", "calling", "reading", "failed", "done"}]
  BY DEF TypeOK, ConsumerOK, Forget
<1>2. shut' \subseteq Streams /\ crashed' \in BOOLEAN
  <2>1. CASE s \in shut BY <2>1 DEF TypeOK, ConsumerOK, Forget, Close
  <2>2. CASE s \notin shut BY <2>2 DEF TypeOK, ConsumerOK, Forget, Close
  <2>. QED BY <2>1, <2>2
<1>3. table' \subseteq Streams BY DEF TypeOK, ConsumerOK, Forget
<1>. QED BY <1>1, <1>2, <1>3 DEF TypeOK, ConsumerOK

\* A frame put on a channel with room.
LEMMA PutTypes ==
  ASSUME TypeOK, NEW s \in Streams, NEW f \in Frame, Len(chan[s]) < Room,
         chan' = [chan EXCEPT ![s] = Append(@, f)]
  PROVE  chan' \in [Streams -> Seq(Frame)] /\ \A t \in Streams : Len(chan'[t]) <= Room
<1>1. Room \in Nat BY PluginStreamsAssumption DEF PluginStreamsAssumption
<1>2. \A t \in Streams : chan'[t] = IF t = s THEN Append(chan[s], f) ELSE chan[t]
  BY DEF TypeOK, ConsumerOK
<1>3. chan[s] \in Seq(Frame) /\ \A t \in Streams : Len(chan[t]) <= Room BY DEF TypeOK, ConsumerOK
<1>4. Append(chan[s], f) \in Seq(Frame) /\ Len(Append(chan[s], f)) <= Room BY <1>1, <1>3
<1>. QED BY <1>2, <1>3, <1>4 DEF TypeOK, ConsumerOK

\* The steps of the consumer's streams keep the types.
LEMMA ConsumerTypes ==
  ASSUME TypeOK, NEW s \in Streams,
         Start(s) \/ Accepted(s) \/ Refused(s) \/ TimesOut(s) \/ Receive(s) \/ SeeEnd(s)
           \/ Cancel(s) \/ Part(s)
  PROVE  TypeOK'
<1>1. UNCHANGED <<router, due>> /\ UNCHANGED provider
  BY DEF Start, Accepted, Refused, TimesOut, Receive, SeeEnd, Cancel, Part
<1>2. RouterOK' /\ ProviderOK' BY <1>1, SameTypes
<1>3. CASE Start(s)
  <2>1. ConsumerOK' BY <1>3 DEF TypeOK, ConsumerOK, Start
  <2>2. PipesOK' BY <1>3, OrderedType DEF Start
  <2>. QED BY <1>2, <2>1, <2>2 DEF TypeOK
<1>4. CASE Accepted(s)
  <2>1. ConsumerOK' BY <1>4 DEF TypeOK, ConsumerOK, Accepted
  <2>. QED BY <1>2, <1>4, <2>1, SameTypes DEF TypeOK, Accepted
<1>5. CASE Refused(s)
  BY <1>2, <1>5, ForgetTypes, SameTypes DEF TypeOK, Refused
<1>6. CASE TimesOut(s)
  BY <1>2, <1>6, ForgetTypes, OrderedType DEF TypeOK, TimesOut
<1>7. CASE Receive(s)
  <2>1. ConsumerOK'
    <3>1. chan[s] \in Seq(Frame) /\ chan[s] # <<>> /\ got[s] \in Seq(Frame)
      BY <1>7 DEF TypeOK, ConsumerOK, Receive
    <3>2. /\ Tail(chan[s]) \in Seq(Frame) /\ Len(Tail(chan[s])) = Len(chan[s]) - 1
          /\ Len(chan[s]) \in Nat /\ Append(got[s], Head(chan[s])) \in Seq(Frame)
      BY <3>1
    <3>3. Room \in Nat BY PluginStreamsAssumption DEF PluginStreamsAssumption
    <3>4. /\ chan' = [chan EXCEPT ![s] = Tail(chan[s])]
          /\ got' = [got EXCEPT ![s] = Append(got[s], Head(chan[s]))]
          /\ UNCHANGED <<call, reply, table, shut, held, parting, calls, cancelled, crashed>>
      BY <1>7 DEF Receive
    <3>5. Len(Tail(chan[s])) <= Room BY <3>2, <3>3 DEF TypeOK, ConsumerOK
    <3>. QED BY <3>2, <3>4, <3>5 DEF TypeOK, ConsumerOK
  <2>. QED BY <1>2, <1>7, <2>1, SameTypes DEF TypeOK, Receive
<1>8. CASE SeeEnd(s)
  <2>1. ConsumerOK' BY <1>8 DEF TypeOK, ConsumerOK, SeeEnd
  <2>. QED BY <1>2, <1>8, <2>1, SameTypes DEF TypeOK, SeeEnd
<1>9. CASE Cancel(s)
  <2>1. ConsumerOK' BY <1>9 DEF TypeOK, ConsumerOK, Cancel
  <2>2. PipesOK' BY <1>9, OrderedType DEF Cancel
  <2>. QED BY <1>2, <2>1, <2>2 DEF TypeOK
<1>10. CASE Part(s)
  <2>1. ConsumerOK'
    <3>1. CASE s \in shut BY <1>10, <3>1 DEF TypeOK, ConsumerOK, Part
    <3>2. CASE s \notin shut
      <4>1. Made(s, "broken") \in Frame BY MadeType
      <4>2. chan' \in [Streams -> Seq(Frame)] /\ \A t \in Streams : Len(chan'[t]) <= Room
        BY <1>10, <3>2, <4>1, PutTypes DEF Part
      <4>3. shut' = shut \cup {s} /\ parting' = parting \ {s} BY <1>10, <3>2 DEF Part
      <4>4. UNCHANGED <<call, reply, table, held, got, calls, cancelled, crashed>>
        BY <1>10, <3>2 DEF Part
      <4>. QED BY <4>2, <4>3, <4>4 DEF TypeOK, ConsumerOK
    <3>. QED BY <3>1, <3>2
  <2>. QED BY <1>2, <1>10, <2>1, SameTypes DEF TypeOK, Part
<1>. QED BY <1>3, <1>4, <1>5, <1>6, <1>7, <1>8, <1>9, <1>10

\* So do those of its reader,
LEMMA ReaderTypes == ASSUME TypeOK, Serve PROVE TypeOK'
<1>1. UNCHANGED <<router, due>> /\ UNCHANGED provider
  BY DEF Serve, TakeAnswer, TakeFrame, PutFrame, OverflowFrame
<1>2. RouterOK' /\ ProviderOK' BY <1>1, SameTypes
<1>3. in # <<>> => Head(in) \in Frame /\ Tail(in) \in Seq(Frame) BY DEF TypeOK, PipesOK
<1>4. held # <<>> => held[1] \in StreamFrame /\ held[1] \in Frame /\ held[1].of \in Streams
  <2>1. ASSUME held # <<>> PROVE held[1] \in StreamFrame BY <2>1 DEF TypeOK, ConsumerOK
  <2>. QED BY <2>1, StreamFrameType
<1>5. \A f \in StreamFrame : <<f>> \in Seq(StreamFrame) /\ Len(<<f>>) = 1 OBVIOUS
<1>6. <<>> \in Seq(StreamFrame) /\ Len(<<>>) = 0 OBVIOUS
<1>7. CASE TakeAnswer
  <2>1. /\ Head(in).kind \in {"accepted", "error"} /\ in # <<>> /\ in' = Tail(in) /\ out' = out
        /\ reply' = IF call[Head(in).of] = "calling"
                      THEN [reply EXCEPT ![Head(in).of] = Head(in).kind] ELSE reply
        /\ UNCHANGED <<call, table, chan, shut, held, parting, got, calls, cancelled, crashed>>
    BY <1>7 DEF TakeAnswer
  <2>2. ConsumerOK' BY <2>1 DEF TypeOK, ConsumerOK
  <2>3. PipesOK' BY <1>3, <2>1 DEF TypeOK, PipesOK
  <2>. QED BY <1>2, <2>2, <2>3 DEF TypeOK
<1>8. CASE TakeFrame
  <2>1. /\ Head(in).kind \in Streamed /\ in # <<>> /\ in' = Tail(in) /\ out' = out
        /\ held' = IF Head(in).of \in table THEN <<Head(in)>> ELSE <<>>
        /\ table' = IF Ends(Head(in)) THEN table \ {Head(in).of} ELSE table
        /\ UNCHANGED <<call, reply, chan, shut, parting, got, calls, cancelled, crashed>>
    BY <1>8 DEF TakeFrame
  <2>2. Head(in) \in StreamFrame BY <1>3, <2>1, StreamFrameType
  <2>3. held' \in Seq(StreamFrame) /\ Len(held') <= 1 BY <1>5, <1>6, <2>1, <2>2
  <2>4. table' \subseteq Streams BY <2>1 DEF TypeOK, ConsumerOK
  <2>5. ConsumerOK' BY <2>1, <2>3, <2>4 DEF TypeOK, ConsumerOK
  <2>6. PipesOK' BY <1>3, <2>1 DEF TypeOK, PipesOK
  <2>. QED BY <1>2, <2>5, <2>6 DEF TypeOK
<1>9. CASE PutFrame
  <2> DEFINE f == held[1]  s == f.of
  <2>1. held' = <<>> /\ held # <<>>
        /\ UNCHANGED <<call, reply, table, parting, got, calls, cancelled>>
    BY <1>9 DEF PutFrame
  <2>2. CASE s \in shut
    <3>1. crashed' = TRUE /\ UNCHANGED <<chan, shut>> BY <1>9, <2>2 DEF PutFrame
    <3>. QED BY <1>2, <1>6, <1>9, <2>1, <3>1, SameTypes DEF TypeOK, ConsumerOK, PutFrame
  <2>3. CASE s \notin shut
    <3>1. /\ Len(chan[s]) < Room /\ chan' = [chan EXCEPT ![s] = Append(@, f)]
          /\ shut' = IF Ends(f) THEN shut \cup {s} ELSE shut
          /\ crashed' = crashed
      BY <1>9, <2>3 DEF PutFrame
    <3>2. chan' \in [Streams -> Seq(Frame)] /\ \A t \in Streams : Len(chan'[t]) <= Room
      BY <1>4, <2>1, <3>1, PutTypes
    <3>3. shut' \subseteq Streams BY <1>4, <2>1, <3>1 DEF TypeOK, ConsumerOK
    <3>4. ConsumerOK' BY <1>6, <2>1, <3>1, <3>2, <3>3 DEF TypeOK, ConsumerOK
    <3>. QED BY <1>2, <1>9, <3>4, SameTypes DEF TypeOK, PutFrame
  <2>. QED BY <2>2, <2>3
<1>10. CASE OverflowFrame
  <2> DEFINE s == held[1].of
  <2>1. /\ held' = <<>> /\ held # <<>> /\ table' = table \ {s} /\ Ordered(s, "cancel")
        /\ cancelled' = cancelled \cup {s} /\ parting' = parting \cup {s}
        /\ UNCHANGED <<call, reply, chan, shut, got, calls, crashed, in>>
    BY <1>10 DEF OverflowFrame, Unknown
  <2>2. s \in Streams BY <1>4, <2>1
  <2>3. ConsumerOK' BY <1>6, <2>1, <2>2 DEF TypeOK, ConsumerOK
  <2>4. PipesOK' BY <2>1, <2>2, OrderedType
  <2>. QED BY <1>2, <2>3, <2>4 DEF TypeOK
<1>. QED BY <1>7, <1>8, <1>9, <1>10 DEF Serve

\* An order served, and what the Router sends.
LEMMA ServesType ==
  ASSUME TypeOK, NEW k, Serves(k)
  PROVE  /\ Head(out).of \in Streams \cup {Other} /\ out' \in Seq(Order)
         /\ invoke = None /\ Head(out).kind = k
<1>1. Head(out) \in Order /\ Tail(out) \in Seq(Order) BY DEF TypeOK, PipesOK, Serves
<1>. QED BY <1>1 DEF Serves, Order

\* Answers and frames sent to the consumer, and the routes left.
LEMMA SendTypes ==
  ASSUME TypeOK
  PROVE  /\ \A f \in Frame : Send(f) => in' \in Seq(Frame)
         /\ \A s \in Streams \cup {Other} : Fails(s) => in' \in Seq(Frame)
         /\ \A f \in Frame : Forward(f) => in' \in Seq(Frame) /\ routes' \subseteq routes
<1>1. in \in Seq(Frame) BY DEF TypeOK, PipesOK
<1>2. \A f \in Frame : Append(in, f) \in Seq(Frame) BY <1>1
<1>3. \A s \in Streams : Made(s, "error") \in Frame BY DEF Made, Frame
<1>4. \A f \in Frame : Send(f) => in' \in Seq(Frame) BY <1>2 DEF Send
<1>5. \A s \in Streams \cup {Other} : Fails(s) => in' \in Seq(Frame)
  BY <1>1, <1>3, <1>4 DEF Fails
<1>6. \A f \in Frame : Forward(f) => in' \in Seq(Frame) /\ routes' \subseteq routes
  BY <1>1, <1>2 DEF Forward
<1>. QED BY <1>4, <1>5, <1>6

\* Fewer routes, or one more, are finitely many.
LEMMA RoutesType ==
  ASSUME TypeOK, NEW s \in Streams
  PROVE  /\ IsFiniteSet(routes \cup {s}) /\ routes \cup {s} \subseteq Streams
         /\ routes' \subseteq routes => IsFiniteSet(routes') /\ routes' \subseteq Streams
<1>1. IsFiniteSet(routes) /\ routes \subseteq Streams BY DEF TypeOK, RouterOK
<1>. QED BY <1>1, FS_AddElement, FS_Subset

\* those of its loop in the Router,
LEMMA LoopTypes == ASSUME TypeOK, ServeInbound PROVE TypeOK'
<1> USE PluginStreamsAssumption DEF PluginStreamsAssumption
<1>1. UNCHANGED consumer
  BY DEF ServeInbound, RefuseCall, PlaceCall, CallFails, PlaceOther, OtherEnds, ForwardCancel,
     ForwardAbandon
<1>2. ConsumerOK' BY <1>1, SameTypes
<1>3. CASE RefuseCall
  <2>1. Serves("request") /\ Fails(Head(out).of) /\ UNCHANGED <<router, due, provider>>
    BY <1>3 DEF RefuseCall
  <2>2. out' \in Seq(Order) /\ in' \in Seq(Frame) BY <2>1, ServesType, SendTypes
  <2>. QED BY <1>2, <2>1, <2>2, SameTypes DEF TypeOK, PipesOK
<1>4. CASE PlaceCall
  <2> DEFINE s == Head(out).of
  <2>1. /\ Serves("request") /\ s # Other /\ invoke' = s /\ routes' = routes \cup {s}
        /\ source' = IF process = "running" THEN [source EXCEPT ![s] = "asked"] ELSE source
        /\ UNCHANGED <<in, ingress, overflow, dropped, due, process, answered, sent, stop>>
    BY <1>4 DEF PlaceCall
  <2>2. s \in Streams /\ out' \in Seq(Order) BY <2>1, ServesType
  <2>3. PipesOK' BY <2>1, <2>2 DEF TypeOK, PipesOK
  <2>4. IsFiniteSet(routes') /\ routes' \subseteq Streams BY <2>1, <2>2, RoutesType
  <2>5. RouterOK' BY <2>1, <2>2, <2>4 DEF TypeOK, RouterOK
  <2>6. ProviderOK' BY <2>1, <2>2 DEF TypeOK, ProviderOK
  <2>. QED BY <1>2, <2>3, <2>5, <2>6 DEF TypeOK
<1>5. CASE CallFails
  <2>1. /\ invoke \in Streams /\ Fails(invoke) /\ invoke' = None
        /\ UNCHANGED <<out, routes, ingress, overflow, dropped, due, provider>>
    BY <1>5 DEF CallFails
  <2>2. in' \in Seq(Frame) BY <2>1, SendTypes
  <2>3. PipesOK' BY <2>1, <2>2 DEF TypeOK, PipesOK
  <2>4. RouterOK' BY <2>1 DEF TypeOK, RouterOK
  <2>. QED BY <1>2, <2>1, <2>3, <2>4, SameTypes DEF TypeOK
<1>6. CASE PlaceOther
  <2>1. /\ Serves("request") /\ invoke' = Other
        /\ UNCHANGED <<in, routes, ingress, overflow, dropped, due, provider>>
    BY <1>6 DEF PlaceOther
  <2>2. PipesOK' BY <2>1, ServesType DEF TypeOK, PipesOK
  <2>3. RouterOK' BY <2>1 DEF TypeOK, RouterOK
  <2>. QED BY <1>2, <2>1, <2>2, <2>3, SameTypes DEF TypeOK
<1>7. CASE OtherEnds
  <2>1. invoke' = None /\ UNCHANGED <<pipes, routes, ingress, overflow, dropped, due, provider>>
    BY <1>7 DEF OtherEnds
  <2>2. RouterOK' BY <2>1 DEF TypeOK, RouterOK
  <2>. QED BY <1>2, <2>1, <2>2, SameTypes DEF TypeOK
<1>8. CASE ForwardCancel
  <2> DEFINE s == Head(out).of
  <2>1. /\ Serves("cancel") /\ stop' = Stopped(s)
        /\ UNCHANGED <<in, router, due, process, source, answered, sent>>
    BY <1>8 DEF ForwardCancel
  <2>2. PipesOK' BY <2>1, ServesType DEF TypeOK, PipesOK
  <2>3. ProviderOK' BY <2>1 DEF TypeOK, ProviderOK, RouterOK, Stopped
  <2>. QED BY <1>2, <2>1, <2>2, <2>3, SameTypes DEF TypeOK
<1>9. CASE ForwardAbandon
  <2>1. Serves("abandon") /\ UNCHANGED <<in, router, due, provider>> BY <1>9 DEF ForwardAbandon
  <2>2. PipesOK' BY <2>1, ServesType DEF TypeOK, PipesOK
  <2>. QED BY <1>2, <2>1, <2>2, SameTypes DEF TypeOK
<1>. QED BY <1>3, <1>4, <1>5, <1>6, <1>7, <1>8, <1>9 DEF ServeInbound

\* A frame queued at the Router, or its stream given up.
LEMMA QueueTypes ==
  ASSUME TypeOK, NEW f \in StreamFrame, Queue(f), overflow = {}
  PROVE  /\ ingress' \in Seq(StreamFrame) /\ Len(ingress') <= Ingress
         /\ overflow' \subseteq dropped' /\ dropped' \subseteq Streams
         /\ \A s, t \in overflow' : s = t
<1>1. Ingress \in Nat /\ ingress \in Seq(StreamFrame) /\ f.of \in Streams /\ Len(ingress) <= Ingress
      /\ dropped \subseteq Streams
  BY PluginStreamsAssumption, StreamFrameType DEF PluginStreamsAssumption, TypeOK, RouterOK
<1>2. CASE Len(ingress) < Ingress
  <2>1. ingress' = Append(ingress, f) /\ overflow' = {} /\ dropped' = dropped
    BY <1>2 DEF Queue
  <2>2. Append(ingress, f) \in Seq(StreamFrame) /\ Len(Append(ingress, f)) = Len(ingress) + 1
        /\ Len(ingress) \in Nat
    BY <1>1
  <2>. QED BY <1>1, <1>2, <2>1, <2>2
<1>3. CASE ~(Len(ingress) < Ingress) BY <1>1, <1>3 DEF Queue
<1>. QED BY <1>2, <1>3

\* those of the provider's streams,
LEMMA ProviderTypes ==
  ASSUME TypeOK, NEW s \in Streams,
         PassDeadline(s) \/ OpenStream(s) \/ Answer(s) \/ Reject(s) \/ SendData(s) \/ SendClose(s)
  PROVE  TypeOK'
<1>1. UNCHANGED consumer
  BY DEF PassDeadline, OpenStream, Answer, Reject, SendData, SendClose
<1>2. ConsumerOK' BY <1>1, SameTypes
<1>3. CASE PassDeadline(s)
  <2>1. due' = due \cup {s} /\ UNCHANGED <<pipes, router, provider>> BY <1>3 DEF PassDeadline
  <2>2. RouterOK' BY <2>1 DEF TypeOK, RouterOK, router
  <2>. QED BY <1>2, <2>1, <2>2, SameTypes DEF TypeOK
<1>4. CASE OpenStream(s)
  <2>1. /\ source' = [source EXCEPT ![s] = "streaming"]
        /\ UNCHANGED <<pipes, router, due, process, answered, sent, stop>>
    BY <1>4 DEF OpenStream
  <2>2. ProviderOK' BY <2>1 DEF TypeOK, ProviderOK
  <2>. QED BY <1>2, <2>1, <2>2, SameTypes DEF TypeOK
<1>5. ASSUME NEW k \in {"accepted", "error"}, Answers(s, k),
             UNCHANGED <<out, routes, ingress, overflow, dropped, due, process, sent, stop>>
      PROVE  PipesOK' /\ RouterOK' /\ answered' \subseteq Streams
  <2>1. Made(s, k) \in Frame BY DEF Made, Frame
  <2>2. in' \in Seq(Frame) /\ invoke' \in Streams \cup {Other, None}
    <3>1. CASE invoke = s BY <1>5, <2>1, <3>1, SendTypes DEF Answers
    <3>2. CASE invoke # s BY <1>5, <3>2 DEF Answers, TypeOK, PipesOK, RouterOK
    <3>. QED BY <3>1, <3>2
  <2>3. PipesOK' BY <1>5, <2>2 DEF TypeOK, PipesOK
  <2>4. RouterOK' BY <1>5, <2>2 DEF TypeOK, RouterOK
  <2>. QED BY <1>5, <2>3, <2>4 DEF Answers, TypeOK, ProviderOK
<1>6. CASE Answer(s)
  <2>1. /\ Answers(s, "accepted")
        /\ UNCHANGED <<out, routes, ingress, overflow, dropped, due, process, source, sent, stop>>
    BY <1>6 DEF Answer
  <2>2. PipesOK' /\ RouterOK' /\ answered' \subseteq Streams BY <1>5, <2>1
  <2>3. ProviderOK' BY <2>1, <2>2 DEF TypeOK, ProviderOK
  <2>. QED BY <1>2, <2>2, <2>3 DEF TypeOK
<1>7. CASE Reject(s)
  <2>1. /\ Answers(s, "error") /\ source' = [source EXCEPT ![s] = "over"]
        /\ UNCHANGED <<out, routes, ingress, overflow, dropped, due, process, sent, stop>>
    BY <1>7 DEF Reject
  <2>2. PipesOK' /\ RouterOK' /\ answered' \subseteq Streams BY <1>5, <2>1
  <2>3. ProviderOK' BY <2>1, <2>2 DEF TypeOK, ProviderOK
  <2>. QED BY <1>2, <2>2, <2>3 DEF TypeOK
<1>8. CASE SendData(s)
  <2>1. /\ overflow = {} /\ sent[s] < MaxData /\ sent' = [sent EXCEPT ![s] = sent[s] + 1]
        /\ Queue(Data(s, sent[s] + 1))
        /\ UNCHANGED <<pipes, invoke, routes, due, process, source, answered, stop>>
    BY <1>8 DEF SendData, Heard
  <2>2. MaxData \in Nat BY PluginStreamsAssumption DEF PluginStreamsAssumption
  <2>3. sent[s] \in Nat /\ sent[s] + 1 \in 0 .. MaxData BY <2>1, <2>2 DEF TypeOK, ProviderOK
  <2>4. Data(s, sent[s] + 1) \in StreamFrame BY <2>3 DEF Data, StreamFrame, Streamed
  <2>5. RouterOK' BY <2>1, <2>4, QueueTypes DEF TypeOK, RouterOK
  <2>6. ProviderOK' BY <2>1, <2>3 DEF TypeOK, ProviderOK
  <2>. QED BY <1>2, <2>1, <2>5, <2>6, SameTypes DEF TypeOK
<1>9. CASE SendClose(s)
  <2>1. /\ overflow = {} /\ source' = [source EXCEPT ![s] = "over"] /\ Queue(Made(s, "close"))
        /\ UNCHANGED <<pipes, invoke, routes, due, process, answered, sent, stop>>
    BY <1>9 DEF SendClose, Heard
  <2>2. Made(s, "close") \in StreamFrame BY DEF Made, StreamFrame, Streamed
  <2>3. RouterOK' BY <2>1, <2>2, QueueTypes DEF TypeOK, RouterOK
  <2>4. ProviderOK' BY <2>1 DEF TypeOK, ProviderOK
  <2>. QED BY <1>2, <2>1, <2>3, <2>4, SameTypes DEF TypeOK
<1>. QED BY <1>3, <1>4, <1>6, <1>7, <1>8, <1>9

\* those of the Router and of the provider's process,
LEMMA RouterTypes ==
  ASSUME TypeOK, CallOther \/ ForwardFrame \/ ForwardOverflow \/ RemoveClient \/ Die
  PROVE  TypeOK'
<1>1. CASE CallOther
  <2>1. /\ calls < MaxCalls /\ calls' = calls + 1 /\ Ordered(Other, "request")
        /\ UNCHANGED <<call, reply, table, chan, shut, held, parting, got, cancelled, crashed>>
        /\ UNCHANGED <<in, router, due, provider>>
    BY <1>1 DEF CallOther
  <2>2. MaxCalls \in Nat BY PluginStreamsAssumption DEF PluginStreamsAssumption
  <2>3. calls' \in 0 .. MaxCalls BY <2>1, <2>2 DEF TypeOK, ConsumerOK
  <2>4. ConsumerOK' BY <2>1, <2>3 DEF TypeOK, ConsumerOK
  <2>5. PipesOK' BY <2>1, OrderedType
  <2>. QED BY <2>1, <2>4, <2>5, SameTypes DEF TypeOK
<1>2. CASE ForwardFrame
  <2>1. /\ ingress # <<>> /\ Forward(Head(ingress)) /\ ingress' = Tail(ingress)
        /\ UNCHANGED <<consumer, out, invoke, overflow, dropped, due, provider>>
    BY <1>2 DEF ForwardFrame
  <2>2. /\ Head(ingress) \in StreamFrame /\ Tail(ingress) \in Seq(StreamFrame)
        /\ Len(Tail(ingress)) = Len(ingress) - 1 /\ Len(ingress) \in Nat
        /\ Len(ingress) <= Ingress /\ Ingress \in Nat
    BY <2>1, PluginStreamsAssumption DEF TypeOK, RouterOK, PluginStreamsAssumption
  <2>3. Head(ingress) \in Frame /\ Head(ingress).of \in Streams BY <2>2, StreamFrameType
  <2>4. in' \in Seq(Frame) /\ routes' \subseteq routes BY <2>1, <2>3, SendTypes
  <2>5. IsFiniteSet(routes') /\ routes' \subseteq Streams BY <2>3, <2>4, RoutesType
  <2>6. PipesOK' BY <2>1, <2>4 DEF TypeOK, PipesOK
  <2>7. Len(ingress') <= Ingress BY <2>1, <2>2
  <2>8. RouterOK' BY <2>1, <2>2, <2>5, <2>7 DEF TypeOK, RouterOK
  <2>. QED BY <2>1, <2>6, <2>8, SameTypes DEF TypeOK
<1>3. CASE ForwardOverflow
  <2>1. PICK s \in overflow : Forward(Made(s, "broken")) BY <1>3 DEF ForwardOverflow
  <2>2. overflow' = {} /\ UNCHANGED <<consumer, out, invoke, ingress, dropped, due, provider>>
    BY <1>3 DEF ForwardOverflow
  <2>3. s \in Streams BY DEF TypeOK, RouterOK
  <2>4. Made(s, "broken") \in Frame BY <2>3 DEF Made, Frame, Streamed
  <2>5. in' \in Seq(Frame) /\ routes' \subseteq routes BY <2>1, <2>4, SendTypes
  <2>6. IsFiniteSet(routes') /\ routes' \subseteq Streams BY <2>3, <2>5, RoutesType
  <2>7. PipesOK' BY <2>2, <2>5 DEF TypeOK, PipesOK
  <2>8. RouterOK' BY <2>2, <2>6 DEF TypeOK, RouterOK
  <2>. QED BY <2>2, <2>7, <2>8, SameTypes DEF TypeOK
<1>4. CASE RemoveClient
  <2>1. /\ process' = "removed" /\ in' = in \o Told /\ routes' = {}
        /\ UNCHANGED <<consumer, out, invoke, ingress, overflow, dropped, due, source, answered,
                       sent, stop>>
    BY <1>4 DEF RemoveClient
  <2>2. Told \in Seq(Frame) BY ToldFacts DEF TypeOK, RouterOK
  <2>3. PipesOK' BY <2>1, <2>2 DEF TypeOK, PipesOK
  <2>4. IsFiniteSet(routes') BY <2>1, FS_EmptySet
  <2>5. RouterOK' BY <2>1, <2>4 DEF TypeOK, RouterOK
  <2>6. ProviderOK' BY <2>1 DEF TypeOK, ProviderOK
  <2>. QED BY <2>1, <2>3, <2>5, <2>6, SameTypes DEF TypeOK
<1>5. CASE Die
  <2>1. process' = "dead"
        /\ UNCHANGED <<consumer, pipes, router, due, source, answered, sent, stop>>
    BY <1>5 DEF Die
  <2>2. ProviderOK' BY <2>1 DEF TypeOK, ProviderOK
  <2>. QED BY <2>1, <2>2, SameTypes DEF TypeOK
<1>. QED BY <1>1, <1>2, <1>3, <1>4, <1>5

\* and every step.
LEMMA NextTypes == ASSUME TypeOK, [Next]_vars PROVE TypeOK'
<1>1. CASE UNCHANGED vars BY <1>1, SameTypes DEF TypeOK, vars
<1>2. CASE Next
  BY <1>2, ConsumerTypes, ReaderTypes, LoopTypes, ProviderTypes, RouterTypes
     DEF Next, Returns, Reads
<1>. QED BY <1>1, <1>2

(***************************************************************************)
(* Which actions change what.                                               *)
(***************************************************************************)
\* In the consumer,
LEMMA ConsumerSteps ==
  ASSUME [Next]_vars
  PROVE  /\ call' = call \/ \E s \in Streams : Start(s) \/ Accepted(s) \/ Refused(s) \/
                TimesOut(s) \/ SeeEnd(s)
         /\ reply' = reply \/ TakeAnswer
         /\ table' = table \/ (\E s \in Streams : Start(s) \/ Refused(s) \/ TimesOut(s)) \/
                TakeFrame \/ OverflowFrame
         /\ chan' = chan \/ (\E s \in Streams : Receive(s) \/ Part(s)) \/ PutFrame
         /\ shut' = shut \/ (\E s \in Streams : Refused(s) \/ TimesOut(s) \/ Part(s)) \/ PutFrame
         /\ held' = held \/ TakeFrame \/ PutFrame \/ OverflowFrame
         /\ parting' = parting \/ (\E s \in Streams : Part(s)) \/ OverflowFrame
         /\ got' = got \/ \E s \in Streams : Receive(s)
         /\ crashed' = crashed \/ (\E s \in Streams : Refused(s) \/ TimesOut(s) \/ Part(s)) \/
                PutFrame
<1>1. call' = call \/ \E s \in Streams : Start(s) \/ Accepted(s) \/ Refused(s) \/ TimesOut(s) \/
        SeeEnd(s)
  BY DEF Next, Returns, Reads, Serve, ServeInbound, Receive, Cancel, Part, PassDeadline,
     OpenStream, Answer, Reject, SendData, SendClose, CallOther, TakeAnswer, TakeFrame, PutFrame,
     OverflowFrame, RefuseCall, PlaceCall, CallFails, PlaceOther, OtherEnds, ForwardCancel,
     ForwardAbandon, ForwardFrame, ForwardOverflow, RemoveClient, Die, vars, consumer
<1>2. reply' = reply \/ TakeAnswer
  BY DEF Next, Returns, Reads, Serve, ServeInbound, Start, Accepted, Refused, TimesOut, Receive,
     SeeEnd, Cancel, Part, PassDeadline, OpenStream, Answer, Reject, SendData, SendClose,
     CallOther, TakeFrame, PutFrame, OverflowFrame, RefuseCall, PlaceCall, CallFails, PlaceOther,
     OtherEnds, ForwardCancel, ForwardAbandon, ForwardFrame, ForwardOverflow, RemoveClient, Die,
     vars, consumer
<1>3. table' = table \/ (\E s \in Streams : Start(s) \/ Refused(s) \/ TimesOut(s)) \/ TakeFrame \/
        OverflowFrame
  BY DEF Next, Returns, Reads, Serve, ServeInbound, Accepted, Receive, SeeEnd, Cancel, Part,
     PassDeadline, OpenStream, Answer, Reject, SendData, SendClose, CallOther, TakeAnswer,
     PutFrame, RefuseCall, PlaceCall, CallFails, PlaceOther, OtherEnds, ForwardCancel,
     ForwardAbandon, ForwardFrame, ForwardOverflow, RemoveClient, Die, vars, consumer
<1>4. chan' = chan \/ (\E s \in Streams : Receive(s) \/ Part(s)) \/ PutFrame
  BY DEF Next, Returns, Reads, Serve, ServeInbound, Start, Accepted, Refused, TimesOut, SeeEnd,
     Cancel, PassDeadline, OpenStream, Answer, Reject, SendData, SendClose, CallOther, TakeAnswer,
     TakeFrame, OverflowFrame, RefuseCall, PlaceCall, CallFails, PlaceOther, OtherEnds,
     ForwardCancel, ForwardAbandon, ForwardFrame, ForwardOverflow, RemoveClient, Die, vars,
     consumer
<1>5. shut' = shut \/ (\E s \in Streams : Refused(s) \/ TimesOut(s) \/ Part(s)) \/ PutFrame
  BY DEF Next, Returns, Reads, Serve, ServeInbound, Start, Accepted, Receive, SeeEnd, Cancel,
     PassDeadline, OpenStream, Answer, Reject, SendData, SendClose, CallOther, TakeAnswer,
     TakeFrame, OverflowFrame, RefuseCall, PlaceCall, CallFails, PlaceOther, OtherEnds,
     ForwardCancel, ForwardAbandon, ForwardFrame, ForwardOverflow, RemoveClient, Die, vars,
     consumer
<1>6. held' = held \/ TakeFrame \/ PutFrame \/ OverflowFrame
  BY DEF Next, Returns, Reads, Serve, ServeInbound, Start, Accepted, Refused, TimesOut, Receive,
     SeeEnd, Cancel, Part, PassDeadline, OpenStream, Answer, Reject, SendData, SendClose,
     CallOther, TakeAnswer, RefuseCall, PlaceCall, CallFails, PlaceOther, OtherEnds,
     ForwardCancel, ForwardAbandon, ForwardFrame, ForwardOverflow, RemoveClient, Die, vars,
     consumer
<1>7. parting' = parting \/ (\E s \in Streams : Part(s)) \/ OverflowFrame
  BY DEF Next, Returns, Reads, Serve, ServeInbound, Start, Accepted, Refused, TimesOut, Receive,
     SeeEnd, Cancel, PassDeadline, OpenStream, Answer, Reject, SendData, SendClose, CallOther,
     TakeAnswer, TakeFrame, PutFrame, RefuseCall, PlaceCall, CallFails, PlaceOther, OtherEnds,
     ForwardCancel, ForwardAbandon, ForwardFrame, ForwardOverflow, RemoveClient, Die, vars,
     consumer
<1>8. got' = got \/ \E s \in Streams : Receive(s)
  BY DEF Next, Returns, Reads, Serve, ServeInbound, Start, Accepted, Refused, TimesOut, SeeEnd,
     Cancel, Part, PassDeadline, OpenStream, Answer, Reject, SendData, SendClose, CallOther,
     TakeAnswer, TakeFrame, PutFrame, OverflowFrame, RefuseCall, PlaceCall, CallFails, PlaceOther,
     OtherEnds, ForwardCancel, ForwardAbandon, ForwardFrame, ForwardOverflow, RemoveClient, Die,
     vars, consumer
<1>9. crashed' = crashed \/ (\E s \in Streams : Refused(s) \/ TimesOut(s) \/ Part(s)) \/ PutFrame
  BY DEF Next, Returns, Reads, Serve, ServeInbound, Start, Accepted, Receive, SeeEnd, Cancel,
     PassDeadline, OpenStream, Answer, Reject, SendData, SendClose, CallOther, TakeAnswer,
     TakeFrame, OverflowFrame, RefuseCall, PlaceCall, CallFails, PlaceOther, OtherEnds,
     ForwardCancel, ForwardAbandon, ForwardFrame, ForwardOverflow, RemoveClient, Die, vars,
     consumer
<1>. QED BY <1>1, <1>2, <1>3, <1>4, <1>5, <1>6, <1>7, <1>8, <1>9

\* on its pipes,
LEMMA PipeSteps ==
  ASSUME [Next]_vars
  PROVE  /\ out' = out \/ (\E s \in Streams : Start(s) \/ TimesOut(s) \/ Cancel(s)) \/ CallOther
                \/ OverflowFrame \/ RefuseCall \/ PlaceCall \/ PlaceOther \/ ForwardCancel \/
                ForwardAbandon
         /\ in' = in \/ (\E s \in Streams : Answer(s) \/ Reject(s)) \/ TakeAnswer \/ TakeFrame \/
                RefuseCall \/ CallFails \/ ForwardFrame \/ ForwardOverflow \/ RemoveClient
<1>1. out' = out \/ (\E s \in Streams : Start(s) \/ TimesOut(s) \/ Cancel(s)) \/ CallOther \/
        OverflowFrame \/ RefuseCall \/ PlaceCall \/ PlaceOther \/ ForwardCancel \/ ForwardAbandon
  BY DEF Next, Returns, Reads, Serve, ServeInbound, Accepted, Refused, Receive, SeeEnd, Part,
     PassDeadline, OpenStream, Answer, Reject, SendData, SendClose, TakeAnswer, TakeFrame,
     PutFrame, CallFails, OtherEnds, ForwardFrame, ForwardOverflow, RemoveClient, Die, vars, pipes
<1>2. in' = in \/ (\E s \in Streams : Answer(s) \/ Reject(s)) \/ TakeAnswer \/ TakeFrame \/
        RefuseCall \/ CallFails \/ ForwardFrame \/ ForwardOverflow \/ RemoveClient
  BY DEF Next, Returns, Reads, Serve, ServeInbound, Start, Accepted, Refused, TimesOut, Receive,
     SeeEnd, Cancel, Part, PassDeadline, OpenStream, SendData, SendClose, CallOther, PutFrame,
     OverflowFrame, PlaceCall, PlaceOther, OtherEnds, ForwardCancel, ForwardAbandon, Die, vars,
     pipes
<1>. QED BY <1>1, <1>2

\* in the Router,
LEMMA RouterSteps ==
  ASSUME [Next]_vars
  PROVE  /\ invoke' = invoke \/ (\E s \in Streams : Answer(s) \/ Reject(s)) \/ PlaceCall \/
                PlaceOther \/ OtherEnds \/ CallFails
         /\ routes' = routes \/ PlaceCall \/ ForwardFrame \/ ForwardOverflow \/ RemoveClient
         /\ ingress' = ingress \/ (\E s \in Streams : SendData(s) \/ SendClose(s)) \/ ForwardFrame
         /\ overflow' = overflow \/ (\E s \in Streams : SendData(s) \/ SendClose(s)) \/
                ForwardOverflow
         /\ due' = due \/ \E s \in Streams : PassDeadline(s)
<1>1. invoke' = invoke \/ (\E s \in Streams : Answer(s) \/ Reject(s)) \/ PlaceCall \/ PlaceOther
        \/ OtherEnds \/ CallFails
  BY DEF Next, Returns, Reads, Serve, ServeInbound, Start, Accepted, Refused, TimesOut, Receive,
     SeeEnd, Cancel, Part, PassDeadline, OpenStream, SendData, SendClose, CallOther, TakeAnswer,
     TakeFrame, PutFrame, OverflowFrame, RefuseCall, ForwardCancel, ForwardAbandon, ForwardFrame,
     ForwardOverflow, RemoveClient, Die, vars, router
<1>2. routes' = routes \/ PlaceCall \/ ForwardFrame \/ ForwardOverflow \/ RemoveClient
  BY DEF Next, Returns, Reads, Serve, ServeInbound, Start, Accepted, Refused, TimesOut, Receive,
     SeeEnd, Cancel, Part, PassDeadline, OpenStream, Answer, Reject, SendData, SendClose,
     CallOther, TakeAnswer, TakeFrame, PutFrame, OverflowFrame, RefuseCall, CallFails, PlaceOther,
     OtherEnds, ForwardCancel, ForwardAbandon, Die, vars, router
<1>3. ingress' = ingress \/ (\E s \in Streams : SendData(s) \/ SendClose(s)) \/ ForwardFrame
  BY DEF Next, Returns, Reads, Serve, ServeInbound, Start, Accepted, Refused, TimesOut, Receive,
     SeeEnd, Cancel, Part, PassDeadline, OpenStream, Answer, Reject, CallOther, TakeAnswer,
     TakeFrame, PutFrame, OverflowFrame, RefuseCall, PlaceCall, CallFails, PlaceOther, OtherEnds,
     ForwardCancel, ForwardAbandon, ForwardOverflow, RemoveClient, Die, vars, router
<1>4. overflow' = overflow \/ (\E s \in Streams : SendData(s) \/ SendClose(s)) \/ ForwardOverflow
  BY DEF Next, Returns, Reads, Serve, ServeInbound, Start, Accepted, Refused, TimesOut, Receive,
     SeeEnd, Cancel, Part, PassDeadline, OpenStream, Answer, Reject, CallOther, TakeAnswer,
     TakeFrame, PutFrame, OverflowFrame, RefuseCall, PlaceCall, CallFails, PlaceOther, OtherEnds,
     ForwardCancel, ForwardAbandon, ForwardFrame, RemoveClient, Die, vars, router
<1>5. due' = due \/ \E s \in Streams : PassDeadline(s)
  BY DEF Next, Returns, Reads, Serve, ServeInbound, Start, Accepted, Refused, TimesOut, Receive,
     SeeEnd, Cancel, Part, OpenStream, Answer, Reject, SendData, SendClose, CallOther, TakeAnswer,
     TakeFrame, PutFrame, OverflowFrame, RefuseCall, PlaceCall, CallFails, PlaceOther, OtherEnds,
     ForwardCancel, ForwardAbandon, ForwardFrame, ForwardOverflow, RemoveClient, Die, vars
<1>. QED BY <1>1, <1>2, <1>3, <1>4, <1>5

\* and in the provider.
LEMMA ProviderSteps ==
  ASSUME [Next]_vars
  PROVE  /\ process' = process \/ Die \/ RemoveClient
         /\ source' = source \/ (\E s \in Streams : OpenStream(s) \/ Reject(s) \/ SendClose(s)) \/
                PlaceCall
         /\ sent' = sent \/ \E s \in Streams : SendData(s)
<1>1. process' = process \/ Die \/ RemoveClient
  BY DEF Next, Returns, Reads, Serve, ServeInbound, Start, Accepted, Refused, TimesOut, Receive,
     SeeEnd, Cancel, Part, PassDeadline, OpenStream, Answer, Reject, SendData, SendClose,
     CallOther, TakeAnswer, TakeFrame, PutFrame, OverflowFrame, RefuseCall, PlaceCall, CallFails,
     PlaceOther, OtherEnds, ForwardCancel, ForwardAbandon, ForwardFrame, ForwardOverflow, vars,
     provider
<1>2. source' = source \/ (\E s \in Streams : OpenStream(s) \/ Reject(s) \/ SendClose(s)) \/
        PlaceCall
  BY DEF Next, Returns, Reads, Serve, ServeInbound, Start, Accepted, Refused, TimesOut, Receive,
     SeeEnd, Cancel, Part, PassDeadline, Answer, SendData, CallOther, TakeAnswer, TakeFrame,
     PutFrame, OverflowFrame, RefuseCall, CallFails, PlaceOther, OtherEnds, ForwardCancel,
     ForwardAbandon, ForwardFrame, ForwardOverflow, RemoveClient, Die, vars, provider
<1>3. sent' = sent \/ \E s \in Streams : SendData(s)
  BY DEF Next, Returns, Reads, Serve, ServeInbound, Start, Accepted, Refused, TimesOut, Receive,
     SeeEnd, Cancel, Part, PassDeadline, OpenStream, Answer, Reject, SendClose, CallOther,
     TakeAnswer, TakeFrame, PutFrame, OverflowFrame, RefuseCall, PlaceCall, CallFails, PlaceOther,
     OtherEnds, ForwardCancel, ForwardAbandon, ForwardFrame, ForwardOverflow, RemoveClient, Die,
     vars, provider
<1>. QED BY <1>1, <1>2, <1>3

(***************************************************************************)
(* What becomes of one stream in a step: in the consumer.                   *)
(***************************************************************************)
LEMMA CallOf ==
  ASSUME TypeOK, [Next]_vars, NEW s \in Streams
  PROVE  \/ call'[s] = call[s]
         \/ Start(s) /\ call[s] = "no" /\ call'[s] = "calling"
         \/ Accepted(s) /\ call[s] = "calling" /\ call'[s] = "reading"
         \/ Refused(s) /\ reply[s] = "error" /\ call[s] = "calling" /\ call'[s] = "failed"
         \/ TimesOut(s) /\ s \in due /\ call[s] = "calling" /\ call'[s] = "failed"
         \/ SeeEnd(s) /\ call[s] = "reading" /\ call'[s] = "done" /\ chan[s] = <<>> /\ s \in shut
<1>1. \/ call' = call
      \/ \E t \in Streams : Start(t) \/ Accepted(t) \/ Refused(t) \/ TimesOut(t) \/ SeeEnd(t)
  BY ConsumerSteps
<1>2. CASE call' = call BY <1>2
<1>3. CASE \E t \in Streams : Start(t) \/ Accepted(t) \/ Refused(t) \/ TimesOut(t) \/ SeeEnd(t)
  <2>1. PICK t \in Streams : Start(t) \/ Accepted(t) \/ Refused(t) \/ TimesOut(t) \/ SeeEnd(t)
    BY <1>3
  <2>2. CASE t = s
    BY <2>1, <2>2 DEF TypeOK, ConsumerOK, Start, Accepted, Refused, TimesOut, SeeEnd, Forget
  <2>3. CASE t # s
    BY <2>1, <2>3 DEF TypeOK, ConsumerOK, Start, Accepted, Refused, TimesOut, SeeEnd, Forget
  <2>. QED BY <2>2, <2>3
<1>. QED BY <1>1, <1>2, <1>3

\* The answer is put in the channel of a pending call.
LEMMA ReplyOf ==
  ASSUME TypeOK, [Next]_vars, NEW s \in Streams
  PROVE  \/ reply'[s] = reply[s]
         \/ TakeAnswer /\ in # <<>> /\ Head(in).of = s /\ reply'[s] = Head(in).kind
            /\ call[s] = "calling"
<1>1. CASE reply' = reply BY <1>1
<1>2. CASE TakeAnswer
  <2>1. in # <<>> /\ Head(in) \in Frame /\ Head(in).of \in Streams
    BY <1>2, StreamFrameType DEF TakeAnswer, TypeOK, PipesOK
  <2>. QED BY <1>2, <2>1 DEF TakeAnswer, TypeOK, ConsumerOK
<1>. QED BY <1>1, <1>2, ConsumerSteps

\* A stream enters the table by its Start.
LEMMA TableOf ==
  ASSUME [Next]_vars, NEW s \in Streams, s \in table', s \notin table
  PROVE  /\ Start(s) /\ call[s] = "no"
         /\ UNCHANGED <<chan, shut, parting, got, held, in, routes, sent>>
<1>1. \E t \in Streams : Start(t)
  BY ConsumerSteps DEF Refused, TimesOut, Forget, TakeFrame, OverflowFrame, Unknown
<1>2. PICK t \in Streams : Start(t) BY <1>1
<1>3. t = s BY <1>2 DEF Start
<1>. QED BY <1>2, <1>3 DEF Start, router, provider

\* The frame of a step of Host.Serve.
LEMMA HeldFrame ==
  ASSUME TypeOK, held # <<>>
  PROVE  /\ held[1] \in StreamFrame /\ held[1] \in Frame
         /\ held[1].of \in Streams /\ held[1].kind \in Streamed /\ held = <<held[1]>>
         /\ \A s, kinds : Has(held, s, kinds) <=> held[1].of = s /\ held[1].kind \in kinds
<1>1. held \in Seq(StreamFrame) /\ Len(held) <= 1 BY DEF TypeOK, ConsumerOK
<1>2. Len(held) = 1 /\ held[1] \in StreamFrame
  <2>1. Len(held) \in Nat /\ Len(held) # 0 BY <1>1
  <2>2. \A n \in Nat : n # 0 /\ n <= 1 => n = 1 OBVIOUS
  <2>3. Len(held) = 1 BY <1>1, <2>1, <2>2, Zenon
  <2>. QED BY <1>1, <2>3
<1>3. held = <<held[1]>> BY <1>1, <1>2
<1>4. \A s, kinds : Has(held, s, kinds) <=> held[1].of = s /\ held[1].kind \in kinds
  BY <1>2 DEF Has
<1>. QED BY <1>2, <1>3, <1>4, StreamFrameType

\* The frame at the head of the pipe.
LEMMA HeadFrame ==
  ASSUME TypeOK, in # <<>>
  PROVE  /\ Head(in) \in Frame /\ Head(in).of \in Streams /\ Head(in).n \in Nat
         /\ Head(in).kind \in Streamed => Head(in) \in StreamFrame
         /\ Head(in).kind = "data" => Head(in) = Data(Head(in).of, Head(in).n)
         /\ in \in Seq(Frame) /\ Tail(in) \in Seq(Frame)
<1>1. in \in Seq(Frame) BY DEF TypeOK, PipesOK
<1>2. Head(in) \in Frame /\ Tail(in) \in Seq(Frame) BY <1>1
<1>. QED BY <1>1, <1>2, StreamFrameType

\* A channel is shut by a failed call, or by the end that is put on it.
LEMMA ShutOf ==
  ASSUME TypeOK, [Next]_vars, NEW s \in Streams, s \in shut', s \notin shut
  PROVE  \/ (Refused(s) \/ TimesOut(s)) /\ call'[s] = "failed"
         \/ Part(s) /\ chan' = [chan EXCEPT ![s] = Append(@, Made(s, "broken"))]
         \/ /\ PutFrame /\ held # <<>> /\ held[1].of = s /\ Ends(held[1])
            /\ chan' = [chan EXCEPT ![s] = Append(@, held[1])]
<1>1. shut' # shut OBVIOUS
<1>2. CASE \E t \in Streams : Refused(t) \/ TimesOut(t) \/ Part(t)
  <2>1. PICK t \in Streams : Refused(t) \/ TimesOut(t) \/ Part(t) BY <1>2
  <2>2. t = s BY <2>1 DEF Refused, TimesOut, Part, Forget, Close
  <2>3. CASE Part(s) BY <2>3 DEF Part
  <2>4. CASE Refused(s) \/ TimesOut(s)
    BY <2>4 DEF Refused, TimesOut, Forget, TypeOK, ConsumerOK
  <2>. QED BY <2>1, <2>2, <2>3, <2>4
<1>3. CASE PutFrame
  <2>1. held # <<>> BY <1>3 DEF PutFrame
  <2>2. held[1].of = s /\ Ends(held[1]) BY <1>3 DEF PutFrame
  <2>. QED BY <1>3, <2>1, <2>2 DEF PutFrame
<1>. QED BY <1>1, <1>2, <1>3, ConsumerSteps

\* A shut channel stays shut.
LEMMA ShutGrows == ASSUME [Next]_vars PROVE shut \subseteq shut'
<1>1. CASE \E t \in Streams : Refused(t) \/ TimesOut(t) \/ Part(t)
  BY <1>1 DEF Refused, TimesOut, Part, Forget, Close
<1>2. CASE PutFrame BY <1>2 DEF PutFrame
<1>. QED BY <1>1, <1>2, ConsumerSteps

\* A stream parts when its frame finds the channel full.
LEMMA PartingOf ==
  ASSUME TypeOK, [Next]_vars, NEW s \in Streams, s \in parting', s \notin parting
  PROVE  /\ OverflowFrame /\ held # <<>> /\ held[1].of = s /\ HasFrame(held, s)
         /\ s \notin shut /\ s \notin table' /\ held' = <<>> /\ shut' = shut
<1>1. OverflowFrame
  <2>1. \A t \in Streams : ~Part(t) BY DEF Part
  <2>. QED BY <2>1, ConsumerSteps
<1>2. held # <<>> /\ held[1].of = s BY <1>1 DEF OverflowFrame
<1>. QED BY <1>1, <1>2, HeldFrame DEF OverflowFrame, Unknown, HasFrame

\* The reader holds a frame it has taken from the pipe, of a stream in the table.
LEMMA HeldOf ==
  ASSUME TypeOK, [Next]_vars, NEW s \in Streams, HasFrame(held', s)
  PROVE  \/ held' = held
         \/ /\ TakeFrame /\ in # <<>> /\ Head(in).of = s /\ Head(in).kind \in Streamed
            /\ held = <<>> /\ held' = <<Head(in)>> /\ s \in table
            /\ Ends(Head(in)) => s \notin table'
<1>1. ~HasFrame(<<>>, s) BY HasNone DEF HasFrame
<1>2. CASE TakeFrame
  <2>1. /\ in # <<>> /\ held = <<>> /\ Head(in).kind \in Streamed
        /\ held' = IF Head(in).of \in table THEN <<Head(in)>> ELSE <<>>
        /\ table' = IF Ends(Head(in)) THEN table \ {Head(in).of} ELSE table
    BY <1>2 DEF TakeFrame
  <2>2. held' = <<Head(in)>> /\ Head(in).of \in table BY <1>1, <2>1
  <2>3. Head(in).of = s BY <2>2, HasOne DEF HasFrame
  <2>. QED BY <1>2, <2>1, <2>2, <2>3
<1>3. CASE PutFrame \/ OverflowFrame BY <1>1, <1>3 DEF PutFrame, OverflowFrame
<1>. QED BY <1>2, <1>3, ConsumerSteps

(***************************************************************************)
(* On the pipes: a stream is requested by its Start, and the loop takes the *)
(* request to refuse it or to place it.                                     *)
(***************************************************************************)
\* One order comes or goes.
LEMMA OutOf ==
  ASSUME TypeOK, [Next]_vars
  PROVE  \/ out' = out
         \/ \E t \in Streams : Start(t) /\ out' = Append(out, [of |-> t, kind |-> "request"])
         \/ \E o \in Order : /\ out' = Append(out, o)
                             /\ \A s \in Streams : ~(o.of = s /\ o.kind = "request")
         \/ /\ out # <<>> /\ out' = Tail(out)
            /\ Head(out).kind = "request" /\ Head(out).of # Other => RefuseCall \/ PlaceCall
<1>1. CASE \E t \in Streams : Start(t) BY <1>1 DEF Start, Ordered
<1>2. CASE \E t \in Streams : TimesOut(t) \/ Cancel(t)
  <2>1. PICK t \in Streams : TimesOut(t) \/ Cancel(t) BY <1>2
  <2>2. PICK k \in {"abandon", "cancel"} : out' = Append(out, [of |-> t, kind |-> k])
    BY <2>1 DEF TimesOut, Cancel, Ordered
  <2>3. [of |-> t, kind |-> k] \in Order BY DEF Order
  <2>. QED BY <2>2, <2>3
<1>3. CASE CallOther
  <2>1. out' = Append(out, [of |-> Other, kind |-> "request"]) BY <1>3 DEF CallOther, Ordered
  <2>2. [of |-> Other, kind |-> "request"] \in Order /\ Other \notin Streams
    BY PluginStreamsAssumption DEF Order, PluginStreamsAssumption
  <2>. QED BY <2>1, <2>2
<1>4. CASE OverflowFrame
  <2>1. held # <<>> /\ out' = Append(out, [of |-> held[1].of, kind |-> "cancel"])
    BY <1>4 DEF OverflowFrame, Ordered
  <2>2. [of |-> held[1].of, kind |-> "cancel"] \in Order BY <2>1, HeldFrame DEF Order
  <2>. QED BY <2>1, <2>2
<1>5. CASE RefuseCall \/ PlaceCall BY <1>5 DEF RefuseCall, PlaceCall, Serves
<1>6. CASE PlaceOther BY <1>6 DEF PlaceOther, Serves
<1>7. CASE ForwardCancel \/ ForwardAbandon BY <1>7 DEF ForwardCancel, ForwardAbandon, Serves
<1>. QED BY <1>1, <1>2, <1>3, <1>4, <1>5, <1>6, <1>7, PipeSteps

\* A new request comes from a Start.
LEMMA RequestOf ==
  ASSUME TypeOK, [Next]_vars, NEW s \in Streams, Has(out', s, {"request"}), ~Requested(s)
  PROVE  Start(s)
<1>1. out \in Seq(Order) BY DEF TypeOK, PipesOK
<1>2. CASE out' = out BY <1>2 DEF Requested
<1>3. CASE \E t \in Streams : Start(t) /\ out' = Append(out, [of |-> t, kind |-> "request"])
  <2>1. PICK t \in Streams : Start(t) /\ out' = Append(out, [of |-> t, kind |-> "request"])
    BY <1>3
  <2>2. [of |-> t, kind |-> "request"] \in Order BY DEF Order
  <2>3. t = s BY <1>1, <2>1, <2>2, HasAppend DEF Requested
  <2>. QED BY <2>1, <2>3
<1>4. CASE \E o \in Order : /\ out' = Append(out, o)
                            /\ \A t \in Streams : ~(o.of = t /\ o.kind = "request")
  BY <1>1, <1>4, HasAppend DEF Requested
<1>5. CASE out # <<>> /\ out' = Tail(out) BY <1>1, <1>5, HasTail DEF Requested
<1>. QED BY <1>2, <1>3, <1>4, <1>5, OutOf

\* The request that is taken was the only one of its stream.
LEMMA RequestTaken ==
  ASSUME TypeOK, AskedOnce, NEW s \in Streams, RefuseCall \/ PlaceCall, Head(out).of = s
  PROVE  Requested(s) /\ ~Has(out', s, {"request"}) /\ invoke = None
<1>1. /\ out # <<>> /\ Head(out).kind = "request" /\ out' = Tail(out) /\ invoke = None
      /\ out \in Seq(Order)
  BY DEF RefuseCall, PlaceCall, Serves, TypeOK, PipesOK
<1>2. Requested(s) BY <1>1, HasTail DEF Requested
<1>3. ASSUME Has(Tail(out), s, {"request"}) PROVE FALSE
  <2>1. /\ Len(out) \in Nat /\ Len(out) >= 1 /\ Len(Tail(out)) = Len(out) - 1 /\ out[1] = Head(out)
        /\ \A i \in 1 .. Len(out) - 1 : Tail(out)[i] = out[i + 1]
    BY <1>1, TailFacts
  <2>2. PICK i \in 1 .. Len(Tail(out)) : Tail(out)[i].of = s /\ Tail(out)[i].kind = "request"
    BY <1>3 DEF Has
  <2>3. i + 1 \in 1 .. Len(out) /\ 1 \in 1 .. Len(out) /\ i + 1 # 1 BY <2>1
  <2>4. IsRequest(out[1], s) /\ IsRequest(out[i + 1], s) BY <1>1, <2>1, <2>2 DEF IsRequest
  <2>. QED BY <2>3, <2>4 DEF AskedOnce
<1>. QED BY <1>1, <1>2, <1>3

\* The requests of a stream stay one, if one may come only when none is there.
LEMMA OnceOnly ==
  ASSUME TypeOK, AskedOnce, [Next]_vars, NEW s \in Streams, Start(s) => ~Requested(s)
  PROVE  \A i, j \in 1 .. Len(out') : IsRequest(out'[i], s) /\ IsRequest(out'[j], s) => i = j
<1>1. out \in Seq(Order) BY DEF TypeOK, PipesOK
<1>2. \A i, j \in 1 .. Len(out) : IsRequest(out[i], s) /\ IsRequest(out[j], s) => i = j
  BY DEF AskedOnce
<1>3. CASE out' = out BY <1>2, <1>3
<1>4. ASSUME NEW o \in Order, out' = Append(out, o), IsRequest(o, s) => ~Requested(s)
      PROVE  \A i, j \in 1 .. Len(out') : IsRequest(out'[i], s) /\ IsRequest(out'[j], s) => i = j
  <2>1. /\ Len(out) \in Nat /\ Len(out') = Len(out) + 1 /\ out'[Len(out) + 1] = o
        /\ \A i \in 1 .. Len(out) : out'[i] = out[i]
    BY <1>1, <1>4
  <2>2. \A i \in 1 .. Len(out') : i \in 1 .. Len(out) \/ i = Len(out) + 1 BY <2>1
  <2>3. \A i \in 1 .. Len(out) : IsRequest(out[i], s) => Requested(s)
    BY DEF Requested, Has, IsRequest
  <2>. QED BY <1>2, <1>4, <2>1, <2>2, <2>3
<1>5. CASE \E t \in Streams : Start(t) /\ out' = Append(out, [of |-> t, kind |-> "request"])
  <2>1. PICK t \in Streams : Start(t) /\ out' = Append(out, [of |-> t, kind |-> "request"])
    BY <1>5
  <2>2. [of |-> t, kind |-> "request"] \in Order BY DEF Order
  <2>. QED BY <1>4, <2>1, <2>2 DEF IsRequest
<1>6. CASE \E o \in Order : /\ out' = Append(out, o)
                            /\ \A t \in Streams : ~(o.of = t /\ o.kind = "request")
  BY <1>4, <1>6 DEF IsRequest
<1>7. CASE out # <<>> /\ out' = Tail(out)
  <2>1. /\ Len(out) \in Nat /\ Len(out) >= 1 /\ Len(out') = Len(out) - 1
        /\ \A i \in 1 .. Len(out) - 1 : out'[i] = out[i + 1]
    BY <1>1, <1>7, TailFacts
  <2>2. ASSUME NEW i \in 1 .. Len(out'), NEW j \in 1 .. Len(out'), IsRequest(out'[i], s),
               IsRequest(out'[j], s)
        PROVE  i = j
    <3>1. i + 1 \in 1 .. Len(out) /\ j + 1 \in 1 .. Len(out) BY <2>1
    <3>2. IsRequest(out[i + 1], s) /\ IsRequest(out[j + 1], s) BY <2>1, <2>2
    <3>3. i + 1 = j + 1 BY <1>2, <3>1, <3>2
    <3>. QED BY <3>3
  <2>. QED BY <2>2
<1>. QED BY <1>3, <1>5, <1>6, <1>7, OutOf

\* What comes on the consumer's stdin is an answer, or a frame of a routed stream.
LEMMA InOf ==
  ASSUME TypeOK, [Next]_vars, NEW s \in Streams, NEW kinds, Has(in', s, kinds), ~Has(in, s, kinds)
  PROVE  \/ RefuseCall /\ Head(out).of = s /\ "error" \in kinds
         \/ CallFails /\ invoke = s /\ "error" \in kinds
         \/ Answer(s) /\ invoke = s /\ "accepted" \in kinds
         \/ Reject(s) /\ invoke = s /\ "error" \in kinds
         \/ /\ ForwardFrame /\ s \in routes /\ HasFrame(ingress, s)
            /\ ingress # <<>> /\ Head(ingress).of = s /\ Head(ingress).kind \in kinds
         \/ ForwardOverflow /\ s \in routes /\ s \in overflow /\ "broken" \in kinds
         \/ RemoveClient /\ s \in routes /\ process = "dead" /\ "broken" \in kinds
<1>1. in \in Seq(Frame) BY DEF TypeOK, PipesOK
<1>2. \A f \in Frame : in' = Append(in, f) => f.of = s /\ f.kind \in kinds BY <1>1, HasAppend
<1>3. in' # in OBVIOUS
<1>4. \A t \in Streams, k \in {"accepted", "error", "broken"} :
        Made(t, k) \in Frame /\ Made(t, k).of = t /\ Made(t, k).kind = k
  BY MadeType
<1>5. CASE TakeAnswer \/ TakeFrame
  <2>1. in # <<>> /\ in' = Tail(in) BY <1>5 DEF TakeAnswer, TakeFrame
  <2>. QED BY <1>1, <2>1, HasTail
<1>6. CASE RefuseCall
  <2>1. Fails(Head(out).of) BY <1>6 DEF RefuseCall
  <2>2. Head(out).of \in Streams BY <1>3, <1>6, <2>1, ServesType DEF Fails, RefuseCall
  <2>. QED BY <1>2, <1>3, <1>4, <1>6, <2>1, <2>2 DEF Fails, Send
<1>7. CASE CallFails
  <2>1. invoke \in Streams /\ invoke # Other /\ Fails(invoke)
    BY <1>7, PluginStreamsAssumption DEF CallFails, PluginStreamsAssumption
  <2>. QED BY <1>2, <1>4, <1>7, <2>1 DEF Fails, Send
<1>8. CASE \E t \in Streams : Answer(t) \/ Reject(t)
  <2>1. PICK t \in Streams : Answer(t) \/ Reject(t) BY <1>8
  <2>2. CASE Answer(t)
    <3>1. invoke = t /\ in' = Append(in, Made(t, "accepted"))
      BY <1>3, <2>2 DEF Answer, Answers, Send
    <3>. QED BY <1>2, <1>4, <2>2, <3>1
  <2>3. CASE Reject(t)
    <3>1. invoke = t /\ in' = Append(in, Made(t, "error"))
      BY <1>3, <2>3 DEF Reject, Answers, Send
    <3>. QED BY <1>2, <1>4, <2>3, <3>1
  <2>. QED BY <2>1, <2>2, <2>3
<1>9. CASE ForwardFrame
  <2>1. /\ ingress # <<>> /\ ingress \in Seq(StreamFrame)
        /\ in' = IF Head(ingress).of \in routes THEN Append(in, Head(ingress)) ELSE in
    BY <1>9 DEF ForwardFrame, Forward, TypeOK, RouterOK
  <2>2. Head(ingress) \in StreamFrame /\ Head(ingress).of \in routes
        /\ in' = Append(in, Head(ingress))
    BY <1>3, <2>1
  <2>3. Head(ingress) \in Frame /\ Head(ingress).kind \in Streamed BY <2>2, StreamFrameType
  <2>4. Head(ingress).of = s /\ Head(ingress).kind \in kinds BY <1>2, <2>2, <2>3
  <2>5. HasFrame(ingress, s) BY <2>1, <2>3, <2>4, HasTail DEF HasFrame
  <2>. QED BY <1>9, <2>1, <2>2, <2>4, <2>5
<1>10. CASE ForwardOverflow
  <2>1. PICK t \in overflow : Forward(Made(t, "broken")) BY <1>10 DEF ForwardOverflow
  <2>2. t \in Streams BY DEF TypeOK, RouterOK
  <2>3. t \in routes /\ in' = Append(in, Made(t, "broken")) BY <1>3, <1>4, <2>1, <2>2 DEF Forward
  <2>. QED BY <1>2, <1>4, <1>10, <2>2, <2>3
<1>11. CASE RemoveClient
  <2>1. in' = in \o Told /\ process = "dead" BY <1>11 DEF RemoveClient
  <2>2. Told \in Seq(Frame) /\ (Has(Told, s, kinds) => s \in routes /\ "broken" \in kinds)
    BY ToldFacts DEF TypeOK, RouterOK
  <2>. QED BY <1>1, <1>11, <2>1, <2>2, HasConcat
<1>. QED BY <1>3, <1>5, <1>6, <1>7, <1>8, <1>9, <1>10, <1>11, PipeSteps

(***************************************************************************)
(* In the Router.                                                           *)
(***************************************************************************)
LEMMA QueueOf ==
  ASSUME TypeOK, NEW f \in StreamFrame, Queue(f), NEW s
  PROVE  /\ HasFrame(ingress', s) => HasFrame(ingress, s) \/ f.of = s
         /\ s \in overflow' => s \in overflow \/ f.of = s
<1>1. ingress \in Seq(StreamFrame) BY DEF TypeOK, RouterOK
<1>2. CASE Len(ingress) < Ingress
  <2>1. ingress' = Append(ingress, f) /\ overflow' = overflow BY <1>2 DEF Queue
  <2>2. Has(Append(ingress, f), s, Streamed) => Has(ingress, s, Streamed) \/ f.of = s
    BY <1>1, HasAppend
  <2>. QED BY <2>1, <2>2 DEF HasFrame
<1>3. CASE ~(Len(ingress) < Ingress) BY <1>3 DEF Queue
<1>. QED BY <1>2, <1>3

\* Frames are queued by the stream's goroutine only.
LEMMA IngressOf ==
  ASSUME TypeOK, [Next]_vars, NEW s \in Streams,
         (HasFrame(ingress', s) /\ ~HasFrame(ingress, s)) \/ (s \in overflow' /\ s \notin overflow)
  PROVE  SendData(s) \/ SendClose(s)
<1>1. CASE \E t \in Streams : SendData(t) \/ SendClose(t)
  <2>1. PICK t \in Streams : SendData(t) \/ SendClose(t) BY <1>1
  <2>2. PICK f \in StreamFrame : Queue(f) /\ f.of = t
    <3>1. CASE SendData(t)
      <4>1. sent[t] \in 0 .. MaxData /\ MaxData \in Nat
        BY PluginStreamsAssumption DEF TypeOK, ProviderOK, PluginStreamsAssumption
      <4>2. sent[t] + 1 \in Nat BY <4>1
      <4>. QED BY <3>1, <4>2, MadeType DEF SendData
    <3>2. CASE SendClose(t) BY <3>2, MadeType DEF SendClose, Streamed
    <3>. QED BY <2>1, <3>1, <3>2
  <2>3. t = s BY <2>2, QueueOf
  <2>. QED BY <2>1, <2>3
<1>2. CASE ForwardFrame
  <2>1. ingress # <<>> /\ ingress' = Tail(ingress) /\ overflow' = overflow BY <1>2 DEF ForwardFrame
  <2>2. ingress \in Seq(StreamFrame) BY DEF TypeOK, RouterOK
  <2>. QED BY <2>1, <2>2, HasTail DEF HasFrame
<1>3. CASE ForwardOverflow BY <1>3 DEF ForwardOverflow
<1>. QED BY <1>1, <1>2, <1>3, RouterSteps

\* A route, or the wait for an answer, begins when the loop places the call.
LEMMA RoutesOf ==
  ASSUME TypeOK, [Next]_vars, NEW s \in Streams
  PROVE  /\ s \in routes' => s \in routes \/ (PlaceCall /\ Head(out).of = s)
         /\ invoke' = s => invoke = s \/ (PlaceCall /\ Head(out).of = s)
<1>1. s # Other /\ s # None BY PluginStreamsAssumption DEF PluginStreamsAssumption
<1>2. s \in routes' => s \in routes \/ (PlaceCall /\ Head(out).of = s)
  <2>1. CASE PlaceCall BY <2>1 DEF PlaceCall
  <2>2. CASE ForwardFrame BY <2>2 DEF ForwardFrame, Forward
  <2>3. CASE ForwardOverflow BY <2>3 DEF ForwardOverflow, Forward
  <2>4. CASE RemoveClient BY <2>4 DEF RemoveClient
  <2>. QED BY <2>1, <2>2, <2>3, <2>4, RouterSteps
<1>3. invoke' = s => invoke = s \/ (PlaceCall /\ Head(out).of = s)
  <2>1. CASE PlaceCall BY <2>1 DEF PlaceCall
  <2>2. CASE PlaceOther \/ OtherEnds \/ CallFails
    BY <1>1, <2>2 DEF PlaceOther, OtherEnds, CallFails
  <2>3. CASE \E t \in Streams : Answer(t) \/ Reject(t) BY <1>1, <2>3 DEF Answer, Reject, Answers
  <2>. QED BY <2>1, <2>2, <2>3, RouterSteps
<1>. QED BY <1>2, <1>3

\* A deadline that has passed has passed.
LEMMA DueGrows == ASSUME [Next]_vars PROVE due \subseteq due'
<1>1. CASE \E t \in Streams : PassDeadline(t) BY <1>1 DEF PassDeadline
<1>. QED BY <1>1, RouterSteps

(***************************************************************************)
(* In the provider.                                                         *)
(***************************************************************************)
LEMMA SourceOf ==
  ASSUME TypeOK, [Next]_vars, NEW s \in Streams
  PROVE  \/ source'[s] = source[s]
         \/ PlaceCall /\ Head(out).of = s /\ source'[s] = "asked" /\ s \notin due
            /\ UNCHANGED <<in, ingress, overflow, sent>>
         \/ OpenStream(s) /\ source[s] = "asked" /\ source'[s] = "streaming"
         \/ Reject(s) /\ source[s] = "asked" /\ source'[s] = "over"
         \/ SendClose(s) /\ source[s] = "streaming" /\ source'[s] = "over"
<1>1. source \in [Streams -> {"no", "asked", "streaming", "over"}] BY DEF TypeOK, ProviderOK
<1>2. CASE PlaceCall
  <2>1. Head(out).of \in Streams BY <1>2, ServesType DEF PlaceCall
  <2>. QED BY <1>1, <1>2, <2>1 DEF PlaceCall
<1>3. CASE \E t \in Streams : OpenStream(t) \/ Reject(t) \/ SendClose(t)
  <2>1. PICK t \in Streams : OpenStream(t) \/ Reject(t) \/ SendClose(t) BY <1>3
  <2>2. CASE t = s BY <1>1, <2>1, <2>2 DEF OpenStream, Reject, SendClose
  <2>3. CASE t # s BY <1>1, <2>1, <2>3 DEF OpenStream, Reject, SendClose
  <2>. QED BY <2>2, <2>3
<1>4. CASE source' = source BY <1>4
<1>. QED BY <1>2, <1>3, <1>4, ProviderSteps

\* Data is sent one by one.
LEMMA SentOf ==
  ASSUME TypeOK, [Next]_vars, NEW s \in Streams
  PROVE  sent'[s] = sent[s] \/ (SendData(s) /\ sent'[s] = sent[s] + 1)
<1>1. sent \in [Streams -> 0 .. MaxData] BY DEF TypeOK, ProviderOK
<1>2. CASE \E t \in Streams : SendData(t)
  <2>1. PICK t \in Streams : SendData(t) BY <1>2
  <2>2. sent' = [sent EXCEPT ![t] = sent[t] + 1] BY <2>1 DEF SendData
  <2>. QED BY <1>1, <2>1, <2>2
<1>3. CASE sent' = sent BY <1>3
<1>. QED BY <1>2, <1>3, ProviderSteps

\* A provider that runs has not died before.
LEMMA ProcessOf == ASSUME [Next]_vars, process' = "running" PROVE process = "running"
BY ProviderSteps DEF Die, RemoveClient

\* A frame leaves the channel for the loop, or is put on it while it is open.
LEMMA ChanOf ==
  ASSUME TypeOK, [Next]_vars, NEW s \in Streams
  PROVE  \/ chan'[s] = chan[s] /\ got'[s] = got[s]
         \/ /\ Receive(s) /\ call[s] = "reading" /\ chan[s] # <<>>
            /\ chan'[s] = Tail(chan[s]) /\ got'[s] = Append(got[s], Head(chan[s]))
            /\ UNCHANGED <<call, shut, held>>
         \/ /\ Part(s) /\ s \in parting /\ s \notin shut /\ s \in shut'
            /\ chan'[s] = Append(chan[s], Made(s, "broken")) /\ UNCHANGED <<call, got, held>>
         \/ /\ PutFrame /\ held # <<>> /\ held[1].of = s /\ s \notin shut
            /\ chan'[s] = Append(chan[s], held[1]) /\ held' = <<>> /\ UNCHANGED <<call, got>>
            /\ IF Ends(held[1]) THEN s \in shut' ELSE s \notin shut'
<1>1. /\ chan \in [Streams -> Seq(Frame)] /\ got \in [Streams -> Seq(Frame)]
  BY DEF TypeOK, ConsumerOK
<1>2. CASE \E t \in Streams : Receive(t)
  <2>1. PICK t \in Streams : Receive(t) BY <1>2
  <2>2. /\ call[t] = "reading" /\ chan[t] # <<>> /\ UNCHANGED <<call, shut, held>>
        /\ chan' = [chan EXCEPT ![t] = Tail(chan[t])]
        /\ got' = [got EXCEPT ![t] = Append(got[t], Head(chan[t]))]
    BY <2>1 DEF Receive
  <2>3. CASE t = s BY <1>1, <2>1, <2>2, <2>3
  <2>4. CASE t # s BY <1>1, <2>2, <2>4
  <2>. QED BY <2>3, <2>4
<1>3. CASE \E t \in Streams : Part(t)
  <2>1. PICK t \in Streams : Part(t) BY <1>3
  <2>2. t \in parting /\ UNCHANGED <<call, got, held>> BY <2>1 DEF Part
  <2>3. CASE t \in shut
    <3>1. chan' = chan BY <2>1, <2>3 DEF Part
    <3>. QED BY <2>2, <3>1
  <2>4. CASE t \notin shut
    <3>1. chan' = [chan EXCEPT ![t] = Append(chan[t], Made(t, "broken"))] /\ shut' = shut \cup {t}
      BY <2>1, <2>4 DEF Part
    <3>2. CASE t = s BY <1>1, <2>1, <2>2, <2>4, <3>1, <3>2
    <3>3. CASE t # s BY <1>1, <2>2, <3>1, <3>3
    <3>. QED BY <3>2, <3>3
  <2>. QED BY <2>3, <2>4
<1>4. CASE PutFrame
  <2> DEFINE f == held[1]  t == f.of
  <2>1. held # <<>> /\ held' = <<>> /\ UNCHANGED <<call, got>> BY <1>4 DEF PutFrame
  <2>2. t \in Streams BY <2>1, HeldFrame
  <2>3. CASE t \in shut
    <3>1. chan' = chan BY <1>4, <2>3 DEF PutFrame
    <3>. QED BY <2>1, <3>1
  <2>4. CASE t \notin shut
    <3>1. /\ chan' = [chan EXCEPT ![t] = Append(chan[t], f)]
          /\ shut' = IF Ends(f) THEN shut \cup {t} ELSE shut
      BY <1>4, <2>4 DEF PutFrame
    <3>2. CASE t = s BY <1>1, <1>4, <2>1, <2>4, <3>1, <3>2
    <3>3. CASE t # s BY <1>1, <2>1, <2>2, <3>1, <3>3
    <3>. QED BY <3>2, <3>3
  <2>. QED BY <2>3, <2>4
<1>5. CASE chan' = chan /\ ~\E t \in Streams : Receive(t)
  <2>1. got' = got BY <1>5, ConsumerSteps
  <2>. QED BY <1>5, <2>1
<1>. QED BY <1>2, <1>3, <1>4, <1>5, ConsumerSteps

(***************************************************************************)
(* Each stream is asked for once.                                           *)
(***************************************************************************)
\* The loop serves the request of s, so s has one.
LEMMA PlacedOf ==
  ASSUME TypeOK, AskedOnce, NEW s \in Streams, ~Requested(s)
  PROVE  ~((RefuseCall \/ PlaceCall) /\ Head(out).of = s)
BY RequestTaken

\* A stream that has not been started has nothing of it anywhere.
LEMMA StaysFresh ==
  ASSUME TypeOK, AskedOnce, [Next]_vars, NEW s \in Streams, call'[s] = "no"
  PROVE  Fresh(s)'
<1>1. call[s] = "no" BY CallOf
<1>2. Fresh(s) BY <1>1 DEF AskedOnce
<1>3. /\ ~Start(s) /\ ~Refused(s) /\ ~TimesOut(s) /\ ~Receive(s) /\ ~Part(s)
      /\ ~Answer(s) /\ ~Reject(s)
  <2>1. ~Start(s)
    <3>1. ASSUME Start(s) PROVE call'[s] = "calling" BY <3>1 DEF Start, TypeOK, ConsumerOK
    <3>. QED BY <3>1
  <2>2. ~Refused(s) /\ ~TimesOut(s) /\ ~Receive(s) BY <1>1 DEF Refused, TimesOut, Receive
  <2>3. ~Part(s) /\ ~Answer(s) /\ ~Reject(s) BY <1>2 DEF Fresh, Part, Answer, Reject
  <2>. QED BY <2>1, <2>2, <2>3
<1>4. ~((RefuseCall \/ PlaceCall) /\ Head(out).of = s) BY <1>2, PlacedOf DEF Fresh
<1>5. ~HasFrame(held, s) /\ ~(held # <<>> /\ held[1].of = s)
  <2>1. ~HasFrame(held, s) BY <1>2 DEF Fresh
  <2>2. held # <<>> /\ held[1].of = s => HasFrame(held, s) BY HeldFrame DEF HasFrame
  <2>. QED BY <2>1, <2>2
<1>6. reply'[s] = "none" BY <1>1, <1>2, ReplyOf DEF Fresh
<1>7. chan'[s] = <<>> /\ got'[s] = <<>> BY <1>2, <1>3, <1>5, ChanOf DEF Fresh
<1>8. source'[s] = "no" BY <1>2, <1>4, SourceOf DEF Fresh
<1>9. s \notin table' BY <1>2, <1>3, TableOf DEF Fresh
<1>10. s \notin shut' BY <1>2, <1>3, <1>5, ShutOf DEF Fresh
<1>11. s \notin parting' BY <1>2, <1>5, PartingOf DEF Fresh
<1>12. s \notin routes' /\ invoke' # s BY <1>2, <1>4, RoutesOf DEF Fresh
<1>13. ~Has(out', s, {"request"}) BY <1>2, <1>3, RequestOf DEF Fresh
<1>14. ~Has(in', s, {"accepted", "error"} \cup Streamed)
  BY <1>2, <1>3, <1>4, InOf DEF Fresh
<1>15. ~HasFrame(held', s) BY <1>2, <1>5, HeldOf DEF Fresh
<1>. QED BY <1>6, <1>7, <1>8, <1>9, <1>10, <1>11, <1>12, <1>13, <1>14, <1>15 DEF Fresh, Requested

\* AskedOnce is kept.
LEMMA AskedOnceStep ==
  ASSUME TypeOK, AskedOnce, [Next]_vars
  PROVE  AskedOnce'
<1> SUFFICES ASSUME NEW s \in Streams
             PROVE  /\ call'[s] = "no" => Fresh(s)'
                    /\ Has(out', s, {"request"}) => source'[s] = "no"
                    /\ \A i, j \in 1 .. Len(out') :
                         IsRequest(out'[i], s) /\ IsRequest(out'[j], s) => i = j
                    /\ source'[s] \in {"no", "asked"} =>
                         sent'[s] = 0 /\ s \notin overflow' /\ ~HasFrame(ingress', s)
  BY DEF AskedOnce, Requested
<1>1. Start(s) => ~Requested(s) /\ source[s] = "no" /\ source'[s] = "no"
  BY DEF Start, AskedOnce, Fresh, provider
<1>2. ASSUME Has(out', s, {"request"}) PROVE source'[s] = "no"
  <2>1. CASE Start(s) BY <1>1, <2>1
  <2>2. CASE ~Start(s)
    <3>1. Requested(s) /\ source[s] = "no" BY <1>2, <2>2, RequestOf DEF AskedOnce
    <3>2. ~(PlaceCall /\ Head(out).of = s) BY <1>2, RequestTaken
    <3>. QED BY <3>1, <3>2, SourceOf
  <2>. QED BY <2>1, <2>2
<1>3. ASSUME source'[s] \in {"no", "asked"}
      PROVE  sent'[s] = 0 /\ s \notin overflow' /\ ~HasFrame(ingress', s)
  <2>1. source[s] \in {"no", "asked"}
    <3>1. CASE PlaceCall /\ Head(out).of = s
      <4>1. source[s] = "no" BY <3>1, RequestTaken DEF AskedOnce
      <4>. QED BY <4>1
    <3>2. CASE ~(PlaceCall /\ Head(out).of = s) BY <1>3, <3>2, SourceOf
    <3>. QED BY <3>1, <3>2
  <2>2. sent[s] = 0 /\ s \notin overflow /\ ~HasFrame(ingress, s) BY <2>1 DEF AskedOnce
  <2>3. ~SendData(s) /\ ~SendClose(s) BY <2>1 DEF SendData, SendClose
  <2>. QED BY <2>2, <2>3, SentOf, IngressOf
<1>. QED BY <1>1, <1>2, <1>3, StaysFresh, OnceOnly

(***************************************************************************)
(* Who may write a channel, or close it.                                    *)
(***************************************************************************)
LEMMA OneWriterStep ==
  ASSUME TypeOK, AskedOnce, OneWriter, [Next]_vars
  PROVE  OneWriter'
<1> SUFFICES ASSUME NEW s \in Streams
             PROVE  /\ s \in table' => s \notin shut' \cup parting'
                    /\ HasFrame(held', s) =>
                         s \notin parting' /\ (Ends(held'[1]) => s \notin table')
                    /\ HasFrame(held', s) \/ s \in parting' => s \notin shut' \/ call'[s] = "failed"
  BY DEF OneWriter
<1>1. /\ s \in table => s \notin shut \cup parting
      /\ HasFrame(held, s) => s \notin parting /\ (Ends(held[1]) => s \notin table)
      /\ HasFrame(held, s) \/ s \in parting => s \notin shut \/ call[s] = "failed"
  BY DEF OneWriter
<1>2. held # <<>> /\ held[1].of = s => HasFrame(held, s) BY HeldFrame DEF HasFrame
<1>3. ~HasFrame(<<>>, s) BY HasNone DEF HasFrame
<1>4. ASSUME s \in table' PROVE s \notin shut' \cup parting'
  <2>1. CASE s \notin table BY <1>4, <2>1, TableOf DEF AskedOnce, Fresh
  <2>2. CASE s \in table
    <3>1. ~Refused(s) /\ ~TimesOut(s) BY <1>4 DEF Refused, TimesOut, Forget
    <3>2. ~Part(s) BY <1>1, <2>2 DEF Part
    <3>3. s \notin shut' BY <1>1, <1>2, <2>2, <3>1, <3>2, ShutOf
    <3>4. s \notin parting' BY <1>1, <1>4, <2>2, PartingOf
    <3>. QED BY <3>3, <3>4
  <2>. QED BY <2>1, <2>2
<1>5. ASSUME HasFrame(held', s) PROVE s \notin parting' /\ (Ends(held'[1]) => s \notin table')
  <2>1. s \in parting' => s \in parting BY <1>3, <1>5, PartingOf
  <2>2. CASE held' = held
    <3>1. s \in table' => s \in table BY <1>5, <2>2, TableOf DEF AskedOnce, Fresh
    <3>. QED BY <1>1, <1>5, <2>1, <2>2, <3>1
  <2>3. CASE held' # held
    <3>1. held' = <<Head(in)>> /\ s \in table /\ (Ends(Head(in)) => s \notin table')
      BY <1>5, <2>3, HeldOf
    <3>. QED BY <1>1, <2>1, <3>1
  <2>. QED BY <2>2, <2>3
<1>6. ASSUME HasFrame(held', s) \/ s \in parting', s \in shut' PROVE call'[s] = "failed"
  <2>1. CASE s \in shut
    <3>1. call[s] = "failed"
      <4>1. CASE HasFrame(held', s) BY <1>1, <2>1, <4>1, HeldOf
      <4>2. CASE s \in parting' BY <1>1, <2>1, <4>2, PartingOf
      <4>. QED BY <1>6, <4>1, <4>2
    <3>. QED BY <3>1, CallOf
  <2>2. CASE s \notin shut
    <3>1. CASE Part(s)
      <4>1. s \in parting /\ s \notin parting' /\ held' = held BY <3>1 DEF Part
      <4>. QED BY <1>1, <1>6, <4>1
    <3>2. CASE PutFrame /\ held # <<>> /\ held[1].of = s
      <4>1. held' = <<>> /\ parting' = parting BY <3>2 DEF PutFrame
      <4>. QED BY <1>1, <1>2, <1>3, <1>6, <3>2, <4>1
    <3>. QED BY <1>6, <2>2, <3>1, <3>2, ShutOf
  <2>. QED BY <2>1, <2>2
<1>. QED BY <1>4, <1>5, <1>6

(***************************************************************************)
(* The data on its way to a stream in the table.                            *)
(***************************************************************************)
LEMMA LenTypes ==
  ASSUME TypeOK, NEW s \in Streams
  PROVE  /\ chan[s] \in Seq(Frame) /\ got[s] \in Seq(Frame)
         /\ Len(chan[s]) \in Nat /\ Len(got[s]) \in Nat /\ Taken(s) \in Nat
         /\ sent[s] \in Nat
<1>1. chan[s] \in Seq(Frame) /\ got[s] \in Seq(Frame) BY DEF TypeOK, ConsumerOK
<1>2. Len(chan[s]) \in Nat /\ Len(got[s]) \in Nat BY <1>1
<1>3. Taken(s) \in Nat
  <2>1. \A m, n \in Nat : m + n + 1 \in Nat /\ m + n + 0 \in Nat OBVIOUS
  <2>2. \/ Taken(s) = Len(got[s]) + Len(chan[s]) + 1
        \/ Taken(s) = Len(got[s]) + Len(chan[s]) + 0
    BY DEF Taken
  <2>. QED BY <1>2, <2>1, <2>2, Zenon
<1>4. sent[s] \in 0 .. MaxData BY DEF TypeOK, ProviderOK
<1>5. MaxData \in Nat BY PluginStreamsAssumption DEF PluginStreamsAssumption
<1>6. sent[s] \in Nat BY <1>4, <1>5
<1>. QED BY <1>1, <1>2, <1>3, <1>6

\* What is taken, in either case.
LEMMA TakenIs ==
  ASSUME TypeOK, NEW s \in Streams
  PROVE  Taken(s) = IF HasFrame(held, s) THEN Len(got[s]) + Len(chan[s]) + 1
                                         ELSE Len(got[s]) + Len(chan[s])
<1>1. Len(got[s]) \in Nat /\ Len(chan[s]) \in Nat BY LenTypes
<1>2. \A m, n \in Nat : m + n + 0 = m + n OBVIOUS
<1>3. Len(got[s]) + Len(chan[s]) + 0 = Len(got[s]) + Len(chan[s]) BY <1>1, <1>2, Zenon
<1>. QED BY <1>3 DEF Taken

\* The next data frame the reader takes is the one after the last it has taken.
LEMMA NextData ==
  ASSUME TypeOK, OnTheWay, NEW s \in table, in # <<>>, Head(in).of = s, Head(in).kind = "data"
  PROVE  /\ Head(in).n = Taken(s) + 1
         /\ held = <<>> => Head(in) = Data(s, Len(got[s]) + Len(chan[s]) + 1)
<1>1. s \in Streams BY DEF TypeOK, ConsumerOK
<1>2. PICK k \in Taken(s) .. sent[s] : Rising(in, s) /\ Numbers(in, s) = Taken(s) + 1 .. k
  BY DEF OnTheWay
<1>3. Taken(s) \in Nat /\ sent[s] \in Nat /\ k \in Nat BY <1>1, <1>2, LenTypes
<1>4. /\ Head(in).n \in Numbers(in, s)
      /\ \A n \in Numbers(in, s) : n = Head(in).n \/ Head(in).n < n
  BY <1>2, HeadFrame, NumbersTail
<1>5. Head(in).n \in Taken(s) + 1 .. k BY <1>2, <1>4
<1>6. Taken(s) + 1 \in Numbers(in, s) BY <1>2, <1>3, <1>5
<1>7. Taken(s) + 1 = Head(in).n \/ Head(in).n < Taken(s) + 1 BY <1>4, <1>6
<1>8. Head(in).n = Taken(s) + 1 BY <1>3, <1>5, <1>7
<1>9. ASSUME held = <<>> PROVE Taken(s) = Len(got[s]) + Len(chan[s])
  <2>1. ~HasFrame(held, s) BY <1>9, HasNone DEF HasFrame
  <2>. QED BY <1>1, <2>1, TakenIs
<1>10. Head(in) = Data(s, Head(in).n) BY HeadFrame
<1>. QED BY <1>8, <1>9, <1>10

\* Only the reader's taking of a frame adds to what is taken.
LEMMA TakenOf ==
  ASSUME TypeOK, OneWriter, [Next]_vars, NEW s \in Streams, s \in table, s \in table'
  PROVE  Taken(s)' = IF TakeFrame /\ Head(in).of = s THEN Taken(s) + 1 ELSE Taken(s)
<1>0. Taken(s)' = IF HasFrame(held', s) THEN Len(got'[s]) + Len(chan'[s]) + 1
                                        ELSE Len(got'[s]) + Len(chan'[s])
  <2>1. chan'[s] \in Seq(Frame) /\ got'[s] \in Seq(Frame) BY NextTypes DEF TypeOK, ConsumerOK
  <2>2. Len(chan'[s]) \in Nat /\ Len(got'[s]) \in Nat BY <2>1
  <2>3. \A m, n \in Nat : m + n + 0 = m + n OBVIOUS
  <2>4. Len(got'[s]) + Len(chan'[s]) + 0 = Len(got'[s]) + Len(chan'[s]) BY <2>2, <2>3, Zenon
  <2>. QED BY <2>4 DEF Taken
<1>1. s \notin shut /\ s \notin parting BY DEF OneWriter
<1>2. Len(chan[s]) \in Nat /\ Len(got[s]) \in Nat /\ chan[s] \in Seq(Frame) /\ got[s] \in Seq(Frame)
  BY LenTypes
<1>3. ~HasFrame(<<>>, s) BY HasNone DEF HasFrame
<1>4. CASE TakeFrame
  <2>1. /\ in # <<>> /\ held = <<>> /\ chan' = chan /\ got' = got /\ Head(in).kind \in Streamed
        /\ held' = IF Head(in).of \in table THEN <<Head(in)>> ELSE <<>>
    BY <1>4 DEF TakeFrame
  <2>2. HasFrame(held', s) <=> Head(in).of = s BY <1>3, <2>1, HasOne DEF HasFrame
  <2>3. ~HasFrame(held, s) BY <1>3, <2>1
  <2>4. Len(got'[s]) + Len(chan'[s]) = Len(got[s]) + Len(chan[s]) BY <2>1
  <2>. QED BY <1>0, <1>4, <2>2, <2>3, <2>4, TakenIs
<1>5. CASE PutFrame
  <2>1. held # <<>> /\ held' = <<>> /\ got' = got BY <1>5 DEF PutFrame
  <2>2. ~HasFrame(held', s) /\ ~TakeFrame BY <1>3, <2>1 DEF TakeFrame
  <2>3. HasFrame(held, s) <=> held[1].of = s BY <2>1, HeldFrame DEF HasFrame
  <2>4. CASE held[1].of = s
    <3>1. chan' = [chan EXCEPT ![s] = Append(chan[s], held[1])] BY <1>1, <1>5, <2>4 DEF PutFrame
    <3>2. chan'[s] = Append(chan[s], held[1]) BY <3>1 DEF TypeOK, ConsumerOK
    <3>3. held[1] \in Frame BY <2>1, HeldFrame
    <3>4. Len(chan'[s]) = Len(chan[s]) + 1 BY <1>2, <3>2, <3>3
    <3>5. Len(got'[s]) + Len(chan'[s]) = Len(got[s]) + Len(chan[s]) + 1
      <4>1. \A m, n \in Nat : m + (n + 1) = m + n + 1 OBVIOUS
      <4>2. Len(got[s]) + (Len(chan[s]) + 1) = Len(got[s]) + Len(chan[s]) + 1
        BY <1>2, <4>1, Zenon
      <4>. QED BY <2>1, <3>4, <4>2
    <3>. QED BY <1>0, <2>2, <2>3, <2>4, <3>5, TakenIs
  <2>5. CASE held[1].of # s
    <3>1. chan'[s] = chan[s]
      <4>1. ~Receive(s) /\ ~Part(s) BY <1>1, <2>1 DEF Receive, Part
      <4>. QED BY <2>5, <4>1, ChanOf
    <3>. QED BY <2>1, <2>2, <2>3, <2>5, <3>1 DEF Taken
  <2>. QED BY <2>4, <2>5
<1>6. CASE OverflowFrame
  <2>1. /\ held # <<>> /\ held' = <<>> /\ chan' = chan /\ got' = got
        /\ table' = table \ {held[1].of}
    BY <1>6 DEF OverflowFrame, Unknown
  <2>2. ~HasFrame(held, s) /\ ~HasFrame(held', s) BY <1>3, <2>1, HeldFrame DEF HasFrame
  <2>3. ~TakeFrame BY <2>1 DEF TakeFrame
  <2>. QED BY <2>1, <2>2, <2>3 DEF Taken
<1>7. CASE held' = held /\ ~TakeFrame /\ ~PutFrame /\ ~OverflowFrame
  <2>1. HasFrame(held', s) <=> HasFrame(held, s) BY <1>7
  <2>2. CASE Receive(s)
    <3>1. /\ chan[s] # <<>> /\ chan'[s] = Tail(chan[s]) /\ got'[s] = Append(got[s], Head(chan[s]))
      BY <2>2 DEF Receive, TypeOK, ConsumerOK
    <3>2. Len(chan'[s]) = Len(chan[s]) - 1 /\ Len(chan[s]) >= 1 BY <1>2, <3>1
    <3>3. Len(got'[s]) = Len(got[s]) + 1 BY <1>2, <3>1
    <3>4. Len(got'[s]) + Len(chan'[s]) = Len(got[s]) + Len(chan[s])
      <4>1. \A m, n \in Nat : (m + 1) + (n - 1) = m + n OBVIOUS
      <4>2. (Len(got[s]) + 1) + (Len(chan[s]) - 1) = Len(got[s]) + Len(chan[s])
        BY <1>2, <4>1, Zenon
      <4>. QED BY <3>2, <3>3, <4>2
    <3>. QED BY <1>0, <1>7, <2>1, <3>4, TakenIs
  <2>3. CASE ~Receive(s)
    <3>1. chan'[s] = chan[s] /\ got'[s] = got[s] BY <1>1, <1>7, <2>3, ChanOf
    <3>. QED BY <1>7, <2>1, <3>1 DEF Taken
  <2>. QED BY <2>2, <2>3
<1>. QED BY <1>4, <1>5, <1>6, <1>7, ConsumerSteps

\* The data in the pipe changes when the reader takes it and the loop forwards it,
LEMMA InDataOf ==
  ASSUME TypeOK, [Next]_vars, NEW s \in Streams, Rising(in, s)
  PROVE  \/ Rising(in', s) /\ Numbers(in', s) = Numbers(in, s)
         \/ TakeFrame /\ in # <<>> /\ Head(in).of = s /\ Head(in).kind = "data"
         \/ /\ ForwardFrame /\ ingress # <<>> /\ Head(ingress).of = s /\ Head(ingress).kind = "data"
            /\ s \in routes /\ in' = Append(in, Head(ingress))
<1>1. in \in Seq(Frame) BY DEF TypeOK, PipesOK
<1>2. ASSUME NEW f \in Frame, in' = Append(in, f), ~(f.of = s /\ f.kind = "data")
      PROVE  Rising(in', s) /\ Numbers(in', s) = Numbers(in, s)
  BY <1>1, <1>2, OtherAppend
<1>3. CASE in' = in BY <1>3
<1>4. CASE TakeAnswer \/ TakeFrame
  <2>1. in # <<>> /\ in' = Tail(in) /\ (TakeAnswer => Head(in).kind # "data")
    BY <1>4 DEF TakeAnswer, TakeFrame
  <2>. QED BY <1>1, <1>4, <2>1, NumbersTail
<1>5. ASSUME NEW t \in Streams, NEW k \in {"accepted", "error", "broken"},
             in' = Append(in, Made(t, k))
      PROVE  Rising(in', s) /\ Numbers(in', s) = Numbers(in, s)
  <2>1. Made(t, k) \in Frame /\ Made(t, k).kind # "data" BY MadeType
  <2>. QED BY <1>2, <1>5, <2>1
<1>6. CASE RefuseCall
  <2>1. Fails(Head(out).of) /\ Head(out).of \in Streams \cup {Other}
    BY <1>6, ServesType DEF RefuseCall
  <2>. QED BY <1>3, <1>5, <2>1 DEF Fails, Send
<1>7. CASE CallFails BY <1>3, <1>5, <1>7 DEF CallFails, Fails, Send
<1>8. CASE \E t \in Streams : Answer(t) \/ Reject(t)
  BY <1>3, <1>5, <1>8 DEF Answer, Reject, Answers, Send
<1>9. CASE ForwardFrame
  <2>1. /\ ingress # <<>> /\ Head(ingress) \in StreamFrame
        /\ in' = IF Head(ingress).of \in routes THEN Append(in, Head(ingress)) ELSE in
    BY <1>9 DEF ForwardFrame, Forward, TypeOK, RouterOK
  <2>2. Head(ingress) \in Frame BY <2>1, StreamFrameType
  <2>. QED BY <1>2, <1>3, <1>9, <2>1, <2>2
<1>10. CASE ForwardOverflow
  <2>1. PICK t \in overflow : Forward(Made(t, "broken")) BY <1>10 DEF ForwardOverflow
  <2>2. t \in Streams BY DEF TypeOK, RouterOK
  <2>3. in' = in \/ in' = Append(in, Made(t, "broken")) BY <2>1 DEF Forward
  <2>. QED BY <1>3, <1>5, <2>2, <2>3
<1>11. CASE RemoveClient
  <2>1. in' = in \o Told BY <1>11 DEF RemoveClient
  <2>2. Told \in Seq(Frame) /\ ~Has(Told, s, {"data"}) BY ToldFacts DEF TypeOK, RouterOK
  <2>. QED BY <1>1, <2>1, <2>2, NumbersConcat
<1>. QED BY <1>3, <1>4, <1>6, <1>7, <1>8, <1>9, <1>10, <1>11, PipeSteps

\* and that in the ingress queue when it is sent and forwarded.
LEMMA IngressDataOf ==
  ASSUME TypeOK, [Next]_vars, NEW s \in Streams, Rising(ingress, s)
  PROVE  \/ /\ Rising(ingress', s) /\ Numbers(ingress', s) = Numbers(ingress, s)
            /\ SendData(s) => s \in overflow'
         \/ SendData(s) /\ overflow = {} /\ ingress' = Append(ingress, Data(s, sent[s] + 1))
         \/ ForwardFrame /\ ingress # <<>> /\ Head(ingress).of = s /\ Head(ingress).kind = "data"
<1>1. ingress \in Seq(StreamFrame) BY DEF TypeOK, RouterOK
<1>2. CASE \E t \in Streams : SendData(t) \/ SendClose(t)
  <2>1. PICK t \in Streams : SendData(t) \/ SendClose(t) BY <1>2
  <2>2. CASE SendData(t)
    <3> DEFINE f == Data(t, sent[t] + 1)
    <3>1. Queue(f) /\ overflow = {} BY <2>2 DEF SendData, Heard
    <3>2. sent[t] + 1 \in Nat BY LenTypes
    <3>3. f \in StreamFrame /\ f.of = t BY <3>2, MadeType
    <3>4. ASSUME SendData(s) PROVE t = s
      <4>1. sent' = [sent EXCEPT ![t] = sent[t] + 1] /\ sent' = [sent EXCEPT ![s] = sent[s] + 1]
        BY <2>2, <3>4 DEF SendData
      <4>2. sent'[t] = sent[t] + 1 BY <4>1 DEF TypeOK, ProviderOK
      <4>3. t # s => sent'[t] = sent[t] BY <4>1 DEF TypeOK, ProviderOK
      <4>4. sent[t] # sent[t] + 1 BY LenTypes
      <4>. QED BY <4>2, <4>3, <4>4
    <3>5. CASE Len(ingress) < Ingress
      <4>1. ingress' = Append(ingress, f) BY <3>1, <3>5 DEF Queue
      <4>2. CASE t = s BY <2>2, <3>1, <4>1, <4>2
      <4>3. CASE t # s BY <1>1, <3>3, <3>4, <4>1, <4>3, OtherAppend
      <4>. QED BY <4>2, <4>3
    <3>6. CASE ~(Len(ingress) < Ingress)
      <4>1. ingress' = ingress /\ overflow' = {f.of} BY <3>1, <3>6 DEF Queue
      <4>. QED BY <3>3, <3>4, <4>1
    <3>. QED BY <3>5, <3>6
  <2>3. CASE SendClose(t)
    <3>1. Queue(Made(t, "close")) /\ sent' = sent BY <2>3 DEF SendClose
    <3>2. Made(t, "close") \in StreamFrame /\ Made(t, "close").kind # "data"
      BY MadeType DEF Streamed
    <3>3. ingress' = ingress \/ ingress' = Append(ingress, Made(t, "close")) BY <3>1 DEF Queue
    <3>4. ~SendData(s)
      <4>1. ASSUME SendData(s) PROVE sent'[s] = sent[s] + 1
        BY <4>1 DEF SendData, TypeOK, ProviderOK
      <4>2. sent[s] # sent[s] + 1 BY LenTypes
      <4>. QED BY <3>1, <4>1, <4>2
    <3>5. CASE ingress' = ingress BY <3>4, <3>5
    <3>6. CASE ingress' = Append(ingress, Made(t, "close"))
      BY <1>1, <3>2, <3>4, <3>6, OtherAppend
    <3>. QED BY <3>3, <3>5, <3>6
  <2>. QED BY <2>1, <2>2, <2>3
<1>3. CASE ForwardFrame /\ ~SendData(s)
  <2>1. ingress # <<>> /\ ingress' = Tail(ingress) BY <1>3 DEF ForwardFrame
  <2>. QED BY <1>1, <1>3, <2>1, NumbersTail
<1>4. CASE ingress' = ingress /\ ~SendData(s) BY <1>4
<1>. QED BY <1>2, <1>3, <1>4, RouterSteps

\* A stream the reader has given up keeps the mark until its route goes.
LEMMA OverflowOf ==
  ASSUME TypeOK, [Next]_vars, NEW s \in Streams, s \in overflow, s \in routes'
  PROVE  s \in overflow'
<1>1. CASE \E t \in Streams : SendData(t) \/ SendClose(t)
  BY <1>1 DEF SendData, SendClose, Heard
<1>2. CASE ForwardOverflow
  <2>1. PICK t \in overflow : Forward(Made(t, "broken")) BY <1>2 DEF ForwardOverflow
  <2>2. t = s BY DEF TypeOK, RouterOK
  <2>3. Ends(Made(s, "broken")) /\ Made(s, "broken").of = s BY DEF Made, Ends
  <2>. QED BY <2>1, <2>2, <2>3 DEF Forward
<1>3. CASE overflow' = overflow BY <1>3
<1>. QED BY <1>1, <1>2, <1>3, RouterSteps

\* A stream that has just been started has nothing on its way.
LEMMA StartedOnTheWay ==
  ASSUME TypeOK, AskedOnce, [Next]_vars, NEW s \in Streams, s \in table', s \notin table
  PROVE  /\ Taken(s)' = 0 /\ sent'[s] = 0 /\ s \notin routes'
         /\ Rising(in', s) /\ Numbers(in', s) = {}
<1>1. /\ call[s] = "no" /\ UNCHANGED <<chan, got, held, in, routes, sent>>
  BY TableOf
<1>2. /\ Fresh(s) /\ sent[s] = 0 BY <1>1 DEF AskedOnce, Fresh
<1>3. Taken(s)' = 0 BY <1>1, <1>2 DEF Taken, Fresh
<1>4. in \in Seq(Frame) BY DEF TypeOK, PipesOK
<1>5. Rising(in, s) /\ Numbers(in, s) = {}
  <2>1. "data" \in {"accepted", "error"} \cup Streamed BY DEF Streamed
  <2>2. ~Has(in, s, {"accepted", "error"} \cup Streamed) BY <1>2 DEF Fresh
  <2>. QED BY <1>4, <2>1, <2>2, NumbersNone
<1>. QED BY <1>1, <1>2, <1>3, <1>5 DEF Fresh

\* What is behind the pipe stays behind it, but for a frame that the loop moves.
LEMMA BehindStep ==
  ASSUME TypeOK, AskedOnce, [Next]_vars, NEW s \in Streams, s \in table, NEW k \in Nat,
         k <= sent[s], Behind(s, k),
         ~(ForwardFrame /\ s \in routes /\ Head(ingress).of = s /\ Head(ingress).kind = "data")
  PROVE  Behind(s, k)' /\ k <= sent'[s]
<1>1. sent[s] \in Nat BY LenTypes
<1>2. k <= sent'[s] BY <1>1, SentOf
<1>3. CASE s \notin routes'
  BY <1>2, <1>3 DEF Behind
<1>4. CASE s \in routes' /\ s \notin routes
  <2>1. PlaceCall /\ Head(out).of = s BY <1>4, RoutesOf
  <2>2. source[s] = "no" BY <2>1, RequestTaken DEF AskedOnce
  <2>3. sent[s] = 0 /\ ~HasFrame(ingress, s) BY <2>2 DEF AskedOnce
  <2>4. ingress' = ingress /\ sent' = sent BY <2>1 DEF PlaceCall
  <2>5. Rising(ingress, s) /\ Numbers(ingress, s) = {}
    <3>1. "data" \in Streamed /\ ingress \in Seq(StreamFrame) BY DEF Streamed, TypeOK, RouterOK
    <3>. QED BY <2>3, <3>1, NumbersNone DEF HasFrame
  <2>6. k = 0 /\ k + 1 .. 0 = {} /\ 0 \in k .. 0 BY <2>3
  <2>. QED BY <1>2, <2>3, <2>4, <2>5, <2>6 DEF Behind
<1>5. CASE s \in routes' /\ s \in routes
  <2>1. PICK l \in k .. sent[s] : /\ Rising(ingress, s) /\ Numbers(ingress, s) = k + 1 .. l
                                  /\ s \in overflow \/ l = sent[s]
    BY <1>5 DEF Behind
  <2>2. l \in Nat /\ k <= l /\ l <= sent[s] BY <1>1, <2>1
  <2>3. s \in overflow => s \in overflow' BY <1>5, OverflowOf
  <2>4. CASE /\ Rising(ingress', s) /\ Numbers(ingress', s) = Numbers(ingress, s)
             /\ SendData(s) => s \in overflow'
    <3>1. l \in k .. sent'[s] BY <1>1, <2>2, SentOf
    <3>2. s \in overflow' \/ l = sent'[s] BY <2>1, <2>3, <2>4, SentOf
    <3>. QED BY <1>2, <2>1, <2>4, <3>1, <3>2 DEF Behind
  <2>5. CASE SendData(s) /\ overflow = {} /\ ingress' = Append(ingress, Data(s, sent[s] + 1))
    <3> DEFINE n == sent[s] + 1
    <3>1. l = sent[s] /\ ingress \in Seq(StreamFrame) BY <2>1, <2>5 DEF TypeOK, RouterOK
    <3>2. Data(s, n) \in StreamFrame /\ Data(s, n).of = s /\ Data(s, n).kind = "data"
          /\ Data(s, n).n = n
      BY <1>1, MadeType
    <3>3. \A m \in Numbers(ingress, s) : m < n BY <1>1, <2>1, <2>2, <3>1
    <3>4. Rising(ingress', s) BY <2>1, <2>5, <3>1, <3>2, <3>3, RisingAppend
    <3>5. Numbers(ingress', s) = Numbers(ingress, s) \cup {n}
      BY <2>5, <3>1, <3>2, NumbersAppend
    <3>6. (k + 1 .. sent[s]) \cup {n} = k + 1 .. n BY <1>1, <2>2, <3>1
    <3>7. sent'[s] = n BY <2>5 DEF SendData, TypeOK, ProviderOK
    <3>8. n \in k .. n BY <1>1, <2>2, <3>1
    <3>. QED BY <1>2, <2>1, <3>1, <3>4, <3>5, <3>6, <3>7, <3>8 DEF Behind
  <2>. QED BY <1>5, <2>1, <2>4, <2>5, IngressDataOf
<1>. QED BY <1>3, <1>4, <1>5

\* OnTheWay is kept.
LEMMA OnTheWayStep ==
  ASSUME TypeOK, AskedOnce, OneWriter, OnTheWay, [Next]_vars
  PROVE  OnTheWay'
<1>0. TypeOK' BY NextTypes
<1> SUFFICES ASSUME NEW s \in table'
             PROVE  \E k \in Taken(s)' .. sent'[s] :
                      Rising(in', s) /\ Numbers(in', s) = Taken(s)' + 1 .. k /\ Behind(s, k)'
  BY DEF OnTheWay
<1>1. s \in Streams BY <1>0 DEF TypeOK, ConsumerOK
<1>2. CASE s \notin table
  <2>1. /\ Taken(s)' = 0 /\ sent'[s] = 0 /\ s \notin routes'
        /\ Rising(in', s) /\ Numbers(in', s) = {}
    BY <1>1, <1>2, StartedOnTheWay
  <2>2. 0 \in 0 .. 0 /\ 0 + 1 .. 0 = {} OBVIOUS
  <2>3. Behind(s, 0)' BY <2>1 DEF Behind
  <2>. QED BY <2>1, <2>2, <2>3
<1>3. CASE s \in table
  <2>1. PICK k \in Taken(s) .. sent[s] :
          Rising(in, s) /\ Numbers(in, s) = Taken(s) + 1 .. k /\ Behind(s, k)
    BY <1>3 DEF OnTheWay
  <2>2. Taken(s) \in Nat /\ sent[s] \in Nat /\ k \in Nat /\ Taken(s) <= k /\ k <= sent[s]
    BY <1>1, <2>1, LenTypes
  <2>3. CASE /\ ForwardFrame /\ s \in routes /\ ingress # <<>> /\ Head(ingress).of = s
             /\ Head(ingress).kind = "data"
    <3> DEFINE f == Head(ingress)
    <3>1. PICK l \in k .. sent[s] : /\ Rising(ingress, s) /\ Numbers(ingress, s) = k + 1 .. l
                                    /\ s \in overflow \/ l = sent[s]
      BY <2>1, <2>3 DEF Behind
    <3>2. /\ in' = Append(in, f) /\ ingress' = Tail(ingress) /\ overflow' = overflow /\ sent' = sent
          /\ UNCHANGED consumer
      BY <2>3 DEF ForwardFrame, Forward, provider
    <3>3. ingress \in Seq(StreamFrame) /\ in \in Seq(Frame) BY DEF TypeOK, RouterOK, PipesOK
    <3>4. f \in StreamFrame /\ f \in Frame /\ f.n \in Nat
      <4>1. f \in StreamFrame BY <2>3, <3>3
      <4>. QED BY <4>1, StreamFrameType
    <3>5. /\ Rising(ingress', s) /\ f.n \in Numbers(ingress, s)
          /\ \A n \in Numbers(ingress, s) : n = f.n \/ (f.n < n /\ n \in Numbers(ingress', s))
          /\ \A n \in Numbers(ingress', s) : f.n < n /\ n \in Numbers(ingress, s)
      BY <2>3, <3>1, <3>2, <3>3, NumbersTail
    <3>6. l \in Nat /\ f.n \in k + 1 .. l BY <2>2, <3>1, <3>5
    <3>7. f.n = k + 1
      <4>1. k + 1 \in Numbers(ingress, s) BY <2>2, <3>1, <3>6
      <4>2. k + 1 = f.n \/ f.n < k + 1 BY <3>5, <4>1
      <4>. QED BY <2>2, <3>6, <4>2
    <3>8. Numbers(ingress', s) = (k + 1) + 1 .. l
      <4>1. ASSUME NEW n PROVE n \in Numbers(ingress', s) <=> n \in k + 1 .. l /\ k + 1 < n
        BY <3>1, <3>5, <3>7
      <4>2. ASSUME NEW n PROVE n \in (k + 1) + 1 .. l <=> n \in k + 1 .. l /\ k + 1 < n
        BY <2>2, <3>6
      <4>. QED BY <4>1, <4>2
    <3>9. Numbers(in', s) = Taken(s) + 1 .. k + 1
      <4>1. Numbers(in', s) = Numbers(in, s) \cup {k + 1}
        BY <2>3, <3>2, <3>3, <3>4, <3>7, NumbersAppend
      <4>2. (Taken(s) + 1 .. k) \cup {k + 1} = Taken(s) + 1 .. k + 1 BY <2>2
      <4>. QED BY <2>1, <4>1, <4>2
    <3>10. Rising(in', s)
      <4>1. \A n \in Numbers(in, s) : n < f.n BY <2>1, <2>2, <3>7
      <4>. QED BY <2>1, <3>2, <3>3, <3>4, <4>1, RisingAppend
    <3>11. Taken(s)' = Taken(s) BY <3>2 DEF Taken, consumer
    <3>12. k + 1 \in Taken(s)' .. sent'[s] /\ l \in k + 1 .. sent'[s]
      BY <2>2, <3>1, <3>2, <3>6, <3>11
    <3>13. Behind(s, k + 1)' BY <3>1, <3>2, <3>5, <3>8, <3>12 DEF Behind
    <3>. QED BY <3>9, <3>10, <3>11, <3>12, <3>13
  <2>4. CASE ~(/\ ForwardFrame /\ s \in routes /\ ingress # <<>> /\ Head(ingress).of = s
               /\ Head(ingress).kind = "data")
    <3>1. ForwardFrame => ingress # <<>> BY DEF ForwardFrame
    <3>2. Behind(s, k)' /\ k <= sent'[s] BY <1>1, <1>3, <2>1, <2>2, <2>4, <3>1, BehindStep
    <3>3. CASE TakeFrame /\ Head(in).of = s
      <4>1. in # <<>> /\ in' = Tail(in) /\ Head(in).kind \in Streamed
            /\ (Ends(Head(in)) => s \notin table')
        BY <3>3 DEF TakeFrame
      <4>2. Head(in).kind = "data" BY <4>1 DEF Ends, Streamed
      <4>3. Taken(s)' = Taken(s) + 1 BY <1>1, <1>3, <3>3, TakenOf
      <4>4. Head(in).n = Taken(s) + 1 BY <1>3, <3>3, <4>1, <4>2, NextData
      <4>5. /\ Rising(in', s) /\ Head(in).n \in Numbers(in, s)
            /\ \A n \in Numbers(in, s) : n = Head(in).n \/ (Head(in).n < n /\ n \in Numbers(in', s))
            /\ \A n \in Numbers(in', s) : Head(in).n < n /\ n \in Numbers(in, s)
        BY <2>1, <3>3, <4>1, <4>2, HeadFrame, NumbersTail
      <4>6. Numbers(in', s) = (Taken(s) + 1) + 1 .. k
        <5>1. ASSUME NEW n
              PROVE  n \in Numbers(in', s) <=> n \in Taken(s) + 1 .. k /\ Taken(s) + 1 < n
          BY <2>1, <4>4, <4>5
        <5>2. ASSUME NEW n
              PROVE  n \in (Taken(s) + 1) + 1 .. k <=> n \in Taken(s) + 1 .. k /\ Taken(s) + 1 < n
          BY <2>2
        <5>. QED BY <5>1, <5>2
      <4>7. Taken(s) + 1 \in Taken(s) + 1 .. k BY <2>1, <4>4, <4>5
      <4>8. sent'[s] \in Nat BY <1>1, <2>2, SentOf
      <4>9. k \in Taken(s)' .. sent'[s] BY <2>2, <3>2, <4>3, <4>7, <4>8
      <4>. QED BY <3>2, <4>3, <4>5, <4>6, <4>9
    <3>4. CASE ~(TakeFrame /\ Head(in).of = s)
      <4>1. Taken(s)' = Taken(s) BY <1>1, <1>3, <3>4, TakenOf
      <4>2. Rising(in', s) /\ Numbers(in', s) = Numbers(in, s)
        BY <1>1, <2>1, <2>4, <3>4, InDataOf
      <4>3. sent'[s] \in Nat BY <1>1, <2>2, SentOf
      <4>4. k \in Taken(s)' .. sent'[s] BY <2>2, <3>2, <4>1, <4>3
      <4>. QED BY <2>1, <3>2, <4>1, <4>2, <4>4
    <3>. QED BY <3>3, <3>4
  <2>. QED BY <2>3, <2>4
<1>. QED BY <1>2, <1>3

(***************************************************************************)
(* What is put on a channel.                                                *)
(***************************************************************************)
\* Data does not end a stream.
LEMMA DataEndsNothing == \A s, n : ~Ends(Data(s, n)) /\ Ends(Made(s, "broken"))
BY DEF Data, Made, Ends

\* The channel and what was read of it are the same.
LEMMA DeliveredSame ==
  ASSUME TypeOK, OneWriter, OnTheWay, Delivered, [Next]_vars, NEW s \in Streams,
         chan'[s] = chan[s], got'[s] = got[s]
  PROVE  GotInOrder(s)' /\ ChanInOrder(s)' /\ HeldIsNext(s)' /\ ShutIsTold(s)' /\ DoneIsEmpty(s)'
<1>1. GotInOrder(s) /\ ChanInOrder(s) /\ HeldIsNext(s) /\ ShutIsTold(s) /\ DoneIsEmpty(s)
  BY DEF Delivered
<1>2. s \in shut => s \in shut' BY ShutGrows
<1>3. GotInOrder(s)' BY <1>1, <1>2 DEF GotInOrder
<1>4. ChanInOrder(s)' BY <1>1, <1>2 DEF ChanInOrder
<1>5. HeldIsNext(s)'
  <2>1. CASE held' = held BY <1>1, <1>2, <2>1 DEF HeldIsNext
  <2>2. CASE held' # held /\ HasFrame(held', s)
    <3>1. /\ in # <<>> /\ Head(in).of = s /\ Head(in).kind \in Streamed
          /\ held = <<>> /\ held' = <<Head(in)>> /\ s \in table
      BY <2>2, HeldOf
    <3>2. held'[1] = Head(in) BY <3>1
    <3>3. CASE Head(in).kind = "data"
      <4>1. Head(in) = Data(s, Len(got[s]) + Len(chan[s]) + 1) BY <3>1, <3>3, NextData
      <4>. QED BY <3>2, <4>1 DEF HeldIsNext
    <3>4. CASE Head(in).kind # "data" BY <3>1, <3>2, <3>4 DEF HeldIsNext, Ends, Streamed
    <3>. QED BY <3>3, <3>4
  <2>3. CASE ~HasFrame(held', s) BY <2>3 DEF HeldIsNext
  <2>. QED BY <2>1, <2>2, <2>3
<1>6. ShutIsTold(s)'
  <2>1. CASE s \in shut
    <3>1. call[s] = "failed" => call'[s] = "failed" BY CallOf
    <3>. QED BY <1>1, <2>1, <3>1 DEF ShutIsTold
  <2>2. CASE s \notin shut /\ s \in shut'
    <3>1. call'[s] = "failed"
      <4>1. \A f \in Frame : chan[s] # Append(chan[s], f)
        <5>1. chan[s] \in Seq(Frame) BY LenTypes
        <5>2. \A f \in Frame : Len(Append(chan[s], f)) = Len(chan[s]) + 1 /\ Len(chan[s]) \in Nat
          BY <5>1
        <5>3. \A n \in Nat : n # n + 1 OBVIOUS
        <5>. QED BY <5>2, <5>3
      <4>2. ~(chan' = [chan EXCEPT ![s] = Append(@, Made(s, "broken"))])
        <5>1. Made(s, "broken") \in Frame BY MadeType
        <5>. QED BY <4>1, <5>1 DEF TypeOK, ConsumerOK
      <4>3. ~(held # <<>> /\ chan' = [chan EXCEPT ![s] = Append(@, held[1])])
        <5>1. held # <<>> => held[1] \in Frame BY HeldFrame
        <5>. QED BY <4>1, <5>1 DEF TypeOK, ConsumerOK
      <4>. QED BY <2>2, <4>2, <4>3, ShutOf
    <3>. QED BY <3>1 DEF ShutIsTold
  <2>3. CASE s \notin shut' BY <2>3 DEF ShutIsTold
  <2>. QED BY <2>1, <2>2, <2>3
<1>7. DoneIsEmpty(s)'
  <2>1. CASE call[s] = "done" BY <1>1, <1>2, <2>1 DEF DoneIsEmpty
  <2>2. CASE call[s] # "done" /\ call'[s] = "done"
    <3>1. chan[s] = <<>> /\ s \in shut BY <2>2, CallOf
    <3>. QED BY <1>2, <3>1 DEF DoneIsEmpty
  <2>3. CASE call'[s] # "done" BY <2>3 DEF DoneIsEmpty
  <2>. QED BY <2>1, <2>2, <2>3
<1>. QED BY <1>3, <1>4, <1>5, <1>6, <1>7

\* The loop takes the first frame of the channel.
LEMMA DeliveredRead ==
  ASSUME TypeOK, Delivered, NEW s \in Streams, call[s] = "reading", chan[s] # <<>>,
         chan'[s] = Tail(chan[s]), got'[s] = Append(got[s], Head(chan[s])),
         UNCHANGED <<call, shut, held>>
  PROVE  GotInOrder(s)' /\ ChanInOrder(s)' /\ HeldIsNext(s)' /\ ShutIsTold(s)' /\ DoneIsEmpty(s)'
<1>1. GotInOrder(s) /\ ChanInOrder(s) /\ HeldIsNext(s) /\ ShutIsTold(s) /\ DoneIsEmpty(s)
  BY DEF Delivered
<1> DEFINE m == Len(got[s])  n == Len(chan[s])
<1>2. /\ chan[s] \in Seq(Frame) /\ got[s] \in Seq(Frame) /\ m \in Nat /\ n \in Nat
  BY LenTypes
<1>3. /\ n >= 1 /\ Len(chan'[s]) = n - 1 /\ chan[s][1] = Head(chan[s]) /\ Head(chan[s]) \in Frame
      /\ \A i \in 1 .. n - 1 : chan'[s][i] = chan[s][i + 1]
  BY <1>2, TailFacts
<1>4. /\ Len(got'[s]) = m + 1 /\ got'[s][m + 1] = Head(chan[s])
      /\ \A i \in 1 .. m : got'[s][i] = got[s][i]
  BY <1>2, <1>3
<1> HIDE DEF m, n
<1>5. (chan'[s] = <<>>) <=> n = 1
  <2>1. chan'[s] \in Seq(Frame) BY <1>2, TailFacts
  <2>2. \A q \in Seq(Frame) : q = <<>> <=> Len(q) = 0 OBVIOUS
  <2>3. n - 1 = 0 <=> n = 1 BY <1>2
  <2>4. chan'[s] = <<>> <=> n - 1 = 0 BY <1>3, <2>1, <2>2
  <2>. QED BY <2>3, <2>4
<1>6. \A i \in 1 .. m : got[s][i] = Data(s, i) BY <1>1 DEF GotInOrder, m
<1>7. Head(chan[s]) = Data(s, m + 1) \/ (Ends(Head(chan[s])) /\ n = 1 /\ s \in shut)
  <2>1. 1 \in 1 .. n BY <1>2, <1>3
  <2>. QED BY <1>1, <1>3, <2>1 DEF ChanInOrder, m, n
<1>8. GotInOrder(s)'
  <2>1. \A i \in 1 .. m + 1 : i \in 1 .. m \/ i = m + 1 BY <1>2
  <2>2. shut' = shut OBVIOUS
  <2>. QED BY <1>4, <1>5, <1>6, <1>7, <2>1, <2>2 DEF GotInOrder
<1>9. ChanInOrder(s)'
  <2>1. ASSUME NEW i \in 1 .. n - 1
        PROVE  \/ chan'[s][i] = Data(s, (m + 1) + i)
               \/ Ends(chan'[s][i]) /\ i = n - 1 /\ s \in shut
    <3>1. i + 1 \in 1 .. n /\ m + (i + 1) = (m + 1) + i /\ (i + 1 = n => i = n - 1) BY <1>2
    <3>2. \/ chan[s][i + 1] = Data(s, m + (i + 1))
          \/ Ends(chan[s][i + 1]) /\ i + 1 = n /\ s \in shut
      BY <1>1, <3>1 DEF ChanInOrder, m, n
    <3>3. chan'[s][i] = chan[s][i + 1] BY <1>3
    <3>. QED BY <3>1, <3>2, <3>3
  <2>. QED BY <1>3, <1>4, <2>1 DEF ChanInOrder
<1>10. HeldIsNext(s)'
  <2>1. (m + 1) + (n - 1) + 1 = m + n + 1 BY <1>2
  <2>2. Len(got'[s]) + Len(chan'[s]) + 1 = m + n + 1 BY <1>3, <1>4, <2>1
  <2>. QED BY <1>1, <2>2 DEF HeldIsNext, m, n
<1>11. ShutIsTold(s)'
  <2>1. ASSUME s \in shut, n = 1 PROVE Ends(Head(chan[s]))
    BY <1>1, <1>3, <2>1 DEF ShutIsTold, n
  <2>2. ASSUME s \in shut, n # 1 PROVE Ends(chan'[s][n - 1])
    <3>1. n - 1 \in 1 .. n - 1 /\ (n - 1) + 1 = n BY <1>2, <1>3, <2>2
    <3>2. chan'[s][n - 1] = chan[s][n] BY <1>3, <3>1
    <3>. QED BY <1>1, <2>2, <3>2 DEF ShutIsTold, n
  <2>3. got'[s] # <<>>
    <3>1. m + 1 # 0 BY <1>2
    <3>. QED BY <1>4, <3>1
  <2>. QED BY <1>3, <1>4, <1>5, <2>1, <2>2, <2>3 DEF ShutIsTold
<1>12. DoneIsEmpty(s)' BY DEF DoneIsEmpty
<1>. QED BY <1>8, <1>9, <1>10, <1>11, <1>12

\* A frame is put on the open channel: the next data, or an end that shuts it.
LEMMA DeliveredPut ==
  ASSUME TypeOK, Delivered, NEW s \in Streams, s \notin shut, NEW f \in Frame,
         chan'[s] = Append(chan[s], f), UNCHANGED <<call, got>>,
         \/ Ends(f) /\ s \in shut'
         \/ f = Data(s, Len(got[s]) + Len(chan[s]) + 1) /\ s \notin shut',
         ~HasFrame(held', s)
  PROVE  GotInOrder(s)' /\ ChanInOrder(s)' /\ HeldIsNext(s)' /\ ShutIsTold(s)' /\ DoneIsEmpty(s)'
<1>1. GotInOrder(s) /\ ChanInOrder(s) /\ DoneIsEmpty(s) BY DEF Delivered
<1> DEFINE m == Len(got[s])  n == Len(chan[s])
<1>2. chan[s] \in Seq(Frame) /\ m \in Nat /\ n \in Nat BY LenTypes
<1>3. /\ Len(chan'[s]) = n + 1 /\ chan'[s][n + 1] = f /\ chan'[s] # <<>>
      /\ \A i \in 1 .. n : chan'[s][i] = chan[s][i]
  BY <1>2
<1>4. got'[s] = got[s] /\ call'[s] = call[s] OBVIOUS
<1>5. GotInOrder(s)' BY <1>1, <1>4 DEF GotInOrder
<1> HIDE DEF m, n
<1>6. ChanInOrder(s)'
  <2>1. \A i \in 1 .. n : chan[s][i] = Data(s, m + i) BY <1>1 DEF ChanInOrder, m, n
  <2>2. \A i \in 1 .. n + 1 : i \in 1 .. n \/ i = n + 1 BY <1>2
  <2>3. m + n + 1 = m + (n + 1) BY <1>2
  <2>4. f = Data(s, m + (n + 1)) \/ (Ends(f) /\ s \in shut') BY <2>3 DEF m, n
  <2>5. Len(got'[s]) = m BY <1>4 DEF m
  <2>. QED BY <1>3, <2>1, <2>2, <2>4, <2>5 DEF ChanInOrder
<1>7. HeldIsNext(s)' BY DEF HeldIsNext
<1>8. ShutIsTold(s)' BY <1>3 DEF ShutIsTold
<1>9. DoneIsEmpty(s)' BY <1>1, <1>4 DEF DoneIsEmpty
<1>. QED BY <1>5, <1>6, <1>7, <1>8, <1>9

\* Delivered is kept.
LEMMA DeliveredStep ==
  ASSUME TypeOK, OneWriter, OnTheWay, Delivered, [Next]_vars
  PROVE  Delivered'
<1>1. ASSUME NEW s \in Streams
      PROVE  /\ GotInOrder(s)' /\ ChanInOrder(s)' /\ HeldIsNext(s)'
             /\ ShutIsTold(s)' /\ DoneIsEmpty(s)'
  <2>1. CASE chan'[s] = chan[s] /\ got'[s] = got[s] BY <2>1, DeliveredSame
  <2>2. CASE /\ call[s] = "reading" /\ chan[s] # <<>>
             /\ chan'[s] = Tail(chan[s]) /\ got'[s] = Append(got[s], Head(chan[s]))
             /\ UNCHANGED <<call, shut, held>>
    BY <2>2, DeliveredRead
  <2>3. CASE /\ Part(s) /\ s \in parting /\ s \notin shut /\ s \in shut'
             /\ chan'[s] = Append(chan[s], Made(s, "broken")) /\ UNCHANGED <<call, got, held>>
    <3>1. Made(s, "broken") \in Frame /\ Ends(Made(s, "broken")) BY MadeType, DataEndsNothing
    <3>2. ~HasFrame(held', s) BY <2>3 DEF OneWriter
    <3>. QED BY <2>3, <3>1, <3>2, DeliveredPut
  <2>4. CASE /\ PutFrame /\ held # <<>> /\ held[1].of = s /\ s \notin shut
             /\ chan'[s] = Append(chan[s], held[1]) /\ held' = <<>> /\ UNCHANGED <<call, got>>
             /\ IF Ends(held[1]) THEN s \in shut' ELSE s \notin shut'
    <3>1. HasFrame(held, s) /\ held[1] \in Frame BY <2>4, HeldFrame DEF HasFrame
    <3>2. Ends(held[1]) \/ held[1] = Data(s, Len(got[s]) + Len(chan[s]) + 1)
      BY <2>4, <3>1 DEF Delivered, HeldIsNext
    <3>3. ~HasFrame(held', s) BY <2>4, HasNone DEF HasFrame
    <3>. QED BY <2>4, <3>1, <3>2, <3>3, DataEndsNothing, DeliveredPut
  <2>. QED BY <2>1, <2>2, <2>3, <2>4, ChanOf
<1>. QED BY <1>1 DEF Delivered

(***************************************************************************)
(* A call that is turned down has no stream.                                *)
(***************************************************************************)
LEMMA FreshIsNotDeclined ==
  ASSUME TypeOK, AskedOnce, NEW s \in Streams, Start(s)
  PROVE  ~Declined(s) /\ source[s] = "no"
<1>1. Fresh(s) BY DEF AskedOnce, Start
<1>2. Has(in, s, {"error"}) => Has(in, s, {"accepted", "error"} \cup Streamed) BY HasFewer
<1>. QED BY <1>1, <1>2 DEF Fresh, Declined

\* Nothing comes of a stream that is silent and whose goroutine does not stream.
LEMMA SilentStep ==
  ASSUME TypeOK, [Next]_vars, NEW s \in Streams, Silent(s), process = "running",
         process' = "running", source[s] # "streaming"
  PROVE  Silent(s)'
<1>1. /\ ~HasFrame(in, s) /\ ~HasFrame(held, s) /\ ~HasFrame(ingress, s)
      /\ s \notin overflow /\ s \notin parting /\ (s \in shut => call[s] = "failed")
  BY DEF Silent
<1>2. ~SendData(s) /\ ~SendClose(s) BY DEF SendData, SendClose
<1>3. held # <<>> => held[1].of # s BY <1>1, HeldFrame DEF HasFrame
<1>4. ~HasFrame(in', s)
  <2>1. "error" \notin Streamed /\ "accepted" \notin Streamed BY DEF Streamed
  <2>. QED BY <1>1, <2>1, InOf DEF HasFrame
<1>5. ~HasFrame(held', s)
  <2>1. in # <<>> /\ Head(in).of = s /\ Head(in).kind \in Streamed => HasFrame(in, s)
    BY HeadFrame, HasTail DEF HasFrame
  <2>. QED BY <1>1, <2>1, HeldOf
<1>6. ~HasFrame(ingress', s) /\ s \notin overflow' BY <1>1, <1>2, IngressOf
<1>7. s \notin parting' BY <1>1, PartingOf
<1>8. s \in shut' => call'[s] = "failed"
  <2>1. s \in shut => call'[s] = "failed" BY <1>1, CallOf
  <2>2. ~Part(s) BY <1>1 DEF Part
  <2>. QED BY <1>3, <2>1, <2>2, ShutOf
<1>. QED BY <1>4, <1>5, <1>6, <1>7, <1>8 DEF Silent

\* NoStreamIfDeclined is kept.
LEMMA NoStreamStep ==
  ASSUME TypeOK, AskedOnce, NoStreamIfDeclined, [Next]_vars
  PROVE  NoStreamIfDeclined'
<1> SUFFICES ASSUME process' = "running", NEW s \in Streams
             PROVE  /\ source'[s] \in {"no", "asked"} => Silent(s)'
                    /\ Declined(s)' /\ s \notin due' =>
                         Silent(s)' /\ source'[s] \in {"no", "over"} /\ ~Has(out', s, {"request"})
                    /\ call'[s] = "failed" /\ s \notin due' => reply'[s] = "error"
  BY DEF NoStreamIfDeclined, Requested
<1>1. process = "running" BY ProcessOf
<1>2. /\ source[s] \in {"no", "asked"} => Silent(s)
      /\ Declined(s) /\ s \notin due => Silent(s) /\ source[s] \in {"no", "over"} /\ ~Requested(s)
      /\ call[s] = "failed" /\ s \notin due => reply[s] = "error"
  BY <1>1 DEF NoStreamIfDeclined
<1>3. s \in due => s \in due' BY DueGrows
<1>4. PlaceCall /\ Head(out).of = s => Requested(s) /\ source[s] = "no"
  BY RequestTaken DEF AskedOnce
<1>5. ASSUME source'[s] \in {"no", "asked"} PROVE Silent(s)'
  <2>1. source[s] \in {"no", "asked"} BY <1>4, <1>5, SourceOf
  <2>. QED BY <1>1, <1>2, <2>1, SilentStep
<1>6. ASSUME Declined(s)', s \notin due'
      PROVE  Silent(s)' /\ source'[s] \in {"no", "over"} /\ ~Has(out', s, {"request"})
  <2>1. s \notin due BY <1>3, <1>6
  <2>2. CASE Declined(s)
    <3>1. Silent(s) /\ source[s] \in {"no", "over"} /\ ~Requested(s) BY <1>2, <2>1, <2>2
    <3>2. Silent(s)' BY <1>1, <3>1, SilentStep
    <3>3. source'[s] \in {"no", "over"} BY <1>4, <3>1, SourceOf
    <3>4. ~Has(out', s, {"request"}) BY <2>2, <3>1, RequestOf, FreshIsNotDeclined
    <3>. QED BY <3>2, <3>3, <3>4
  <2>3. CASE ~Declined(s)
    <3>1. Has(in', s, {"error"}) /\ ~Has(in, s, {"error"})
      <4>1. ~Has(in, s, {"error"}) /\ reply[s] # "error" BY <2>3 DEF Declined
      <4>2. CASE reply'[s] = "error"
        <5>1. in # <<>> /\ Head(in).of = s /\ Head(in).kind = "error" BY <4>1, <4>2, ReplyOf
        <5>2. Has(in, s, {"error"}) BY <5>1, HeadFrame, HasTail
        <5>. QED BY <4>1, <5>2
      <4>3. CASE reply'[s] # "error" BY <1>6, <4>1, <4>3 DEF Declined
      <4>. QED BY <4>2, <4>3
    <3>2. \/ RefuseCall /\ Head(out).of = s
          \/ CallFails /\ invoke = s
          \/ Reject(s)
      <4>1. ingress # <<>> => Head(ingress).kind # "error"
        <5>1. ASSUME ingress # <<>> PROVE Head(ingress) \in StreamFrame
          BY <5>1 DEF TypeOK, RouterOK
        <5>. QED BY <5>1, StreamFrameType DEF Streamed
      <4>. QED BY <3>1, <4>1, InOf
    <3>3. ~(CallFails /\ invoke = s) BY <1>1, <2>1 DEF CallFails
    <3>4. CASE RefuseCall /\ Head(out).of = s
      <4>1. Requested(s) /\ ~Has(out', s, {"request"}) BY <3>4, RequestTaken
      <4>2. source[s] = "no" BY <4>1 DEF AskedOnce
      <4>3. source' = source BY <3>4 DEF RefuseCall, provider
      <4>4. Silent(s)' BY <1>1, <1>2, <4>2, SilentStep
      <4>. QED BY <4>1, <4>2, <4>3, <4>4
    <3>5. CASE Reject(s)
      <4>1. source[s] = "asked" /\ source'[s] = "over"
        BY <3>5 DEF Reject, TypeOK, ProviderOK
      <4>2. Silent(s)' BY <1>1, <1>2, <4>1, SilentStep
      <4>3. ~Requested(s) BY <4>1 DEF AskedOnce
      <4>4. ~Has(out', s, {"request"}) BY <4>1, <4>3, RequestOf, FreshIsNotDeclined
      <4>. QED BY <4>1, <4>2, <4>4
    <3>. QED BY <3>2, <3>3, <3>4, <3>5
  <2>. QED BY <2>2, <2>3
<1>7. ASSUME call'[s] = "failed", s \notin due' PROVE reply'[s] = "error"
  <2>1. CASE call[s] = "failed" BY <1>2, <1>3, <1>7, <2>1, ReplyOf
  <2>2. CASE call[s] # "failed"
    <3>1. Refused(s) /\ reply[s] = "error" BY <1>3, <1>7, <2>2, CallOf
    <3>2. reply' = reply BY <3>1 DEF Refused
    <3>. QED BY <3>1, <3>2
  <2>. QED BY <2>1, <2>2
<1>. QED BY <1>5, <1>6, <1>7

(***************************************************************************)
(* The state invariant.                                                     *)
(***************************************************************************)
\* What a consumer can trust follows from what is put on the channels.
LEMMA DeliveredIsEnough == ASSUME Delivered PROVE InOrder /\ EndIsTold
<1>1. InOrder BY DEF Delivered, GotInOrder, InOrder
<1>2. ASSUME NEW s \in Streams, call[s] = "done"
      PROVE  got[s] # <<>> /\ Ends(got[s][Len(got[s])])
  BY <1>2 DEF Delivered, ShutIsTold, DoneIsEmpty
<1>. QED BY <1>1, <1>2 DEF EndIsTold

\* The invariant holds at first,
LEMMA InitInv == Init => Inv
<1> SUFFICES ASSUME Init PROVE Inv OBVIOUS
<1>1. TypeOK BY InitTypes
<1>2. \A s \in Streams :
        /\ call[s] = "no" /\ reply[s] = "none" /\ chan[s] = <<>> /\ got[s] = <<>>
        /\ source[s] = "no" /\ sent[s] = 0
  BY DEF Init
<1>3. \A s, kinds : ~Has(in, s, kinds) /\ ~Has(out, s, kinds) /\ ~Has(ingress, s, kinds)
                    /\ ~Has(held, s, kinds)
  BY HasNone DEF Init
<1>4. /\ table = {} /\ shut = {} /\ parting = {} /\ routes = {} /\ overflow = {} /\ invoke = None
      /\ out = <<>>
  BY DEF Init
<1>5. \A s \in Streams : invoke # s
  BY <1>4, PluginStreamsAssumption DEF PluginStreamsAssumption
<1>6. AskedOnce
  <2>1. \A i : i \notin 1 .. Len(out) BY <1>4
  <2>. QED BY <1>2, <1>3, <1>4, <1>5, <2>1 DEF AskedOnce, Fresh, Requested, HasFrame
<1>7. OneWriter BY <1>3, <1>4 DEF OneWriter, HasFrame
<1>8. Delivered
  <2>1. ASSUME NEW s \in Streams
        PROVE  /\ \A i : i \notin 1 .. Len(got[s]) /\ i \notin 1 .. Len(chan[s])
               /\ s \notin shut /\ call[s] # "done" /\ ~HasFrame(held, s)
    BY <1>2, <1>3, <1>4 DEF HasFrame
  <2>. QED BY <2>1 DEF Delivered, GotInOrder, ChanInOrder, HeldIsNext, ShutIsTold, DoneIsEmpty
<1>9. OnTheWay BY <1>4 DEF OnTheWay
<1>10. NoStreamIfDeclined
  BY <1>2, <1>3, <1>4 DEF NoStreamIfDeclined, Silent, Declined, HasFrame
<1>. QED BY <1>1, <1>6, <1>7, <1>8, <1>9, <1>10, DeliveredIsEnough DEF Inv

\* and every step keeps it.
LEMMA InvStep == ASSUME Inv, [Next]_vars PROVE Inv'
<1>1. TypeOK' BY NextTypes DEF Inv
<1>2. AskedOnce' BY AskedOnceStep DEF Inv
<1>3. OneWriter' BY OneWriterStep DEF Inv
<1>4. Delivered' BY DeliveredStep DEF Inv
<1>5. OnTheWay' BY OnTheWayStep DEF Inv
<1>6. NoStreamIfDeclined' BY NoStreamStep DEF Inv
<1>7. InOrder' /\ EndIsTold'
  <2>1. InOrder' BY <1>4 DEF Delivered, GotInOrder, InOrder
  <2>2. ASSUME NEW s \in Streams, call'[s] = "done"
        PROVE  got'[s] # <<>> /\ Ends(got'[s][Len(got'[s])])
    BY <1>4, <2>2 DEF Delivered, ShutIsTold, DoneIsEmpty
  <2>. QED BY <2>1, <2>2 DEF EndIsTold
<1>. QED BY <1>1, <1>2, <1>3, <1>4, <1>5, <1>6, <1>7 DEF Inv

\* What a consumer receives of a stream is what the provider has sent, in order and
\* without a gap, and its loop ends with a frame that says why: Host.Serve, the
\* stream's channel and the router's queues, whatever overflows, fails or is cancelled.
THEOREM StreamsInvariance == Spec => []Inv
BY InitInv, InvStep, PTL DEF Spec

(***************************************************************************)
(* The consumer survives.                                                   *)
(***************************************************************************)
\* While the provider behaves, nobody writes or closes a channel that is shut.
LEMMA NoPanic ==
  ASSUME Inv, [Next]_vars, Behaves, Behaves', ~crashed
  PROVE  ~crashed'
<1>1. TypeOK /\ AskedOnce /\ OneWriter /\ NoStreamIfDeclined BY DEF Inv
<1>2. process = "running" BY DEF Behaves
<1>3. ASSUME NEW s \in Streams, Declined(s), s \notin due
      PROVE  /\ ~HasFrame(held, s) /\ s \notin parting /\ (s \in shut => call[s] = "failed")
  BY <1>1, <1>2, <1>3 DEF NoStreamIfDeclined, Silent
<1>4. ASSUME NEW s \in Streams, call[s] = "failed"
      PROVE  ~HasFrame(held, s) /\ s \notin parting
  <2>1. s \notin due BY <1>4 DEF Behaves
  <2>2. Declined(s) BY <1>1, <1>2, <1>4, <2>1 DEF NoStreamIfDeclined, Declined
  <2>. QED BY <1>3, <2>1, <2>2
<1>5. ASSUME NEW s \in Streams, Refused(s) \/ TimesOut(s) PROVE ~crashed'
  <2>1. call'[s] = "failed" /\ call[s] = "calling"
    BY <1>1, <1>5 DEF Refused, TimesOut, Forget, TypeOK, ConsumerOK
  <2>2. s \notin due' BY <2>1 DEF Behaves
  <2>3. s \notin due BY <2>2, DueGrows
  <2>4. Refused(s) /\ reply[s] = "error" BY <1>5, <2>3 DEF Refused, TimesOut
  <2>5. s \notin shut BY <1>3, <2>1, <2>3, <2>4 DEF Declined
  <2>. QED BY <2>4, <2>5 DEF Refused, Forget, Close
<1>6. ASSUME NEW s \in Streams, Part(s) PROVE ~crashed'
  <2>1. s \in parting BY <1>6 DEF Part
  <2>2. s \notin shut BY <1>1, <1>4, <2>1 DEF OneWriter
  <2>. QED BY <1>6, <2>2 DEF Part
<1>7. ASSUME PutFrame PROVE ~crashed'
  <2>1. held # <<>> BY <1>7 DEF PutFrame
  <2>2. held[1].of \in Streams /\ HasFrame(held, held[1].of)
    BY <1>1, <2>1, HeldFrame DEF HasFrame
  <2>3. held[1].of \notin shut BY <1>1, <1>4, <2>2 DEF OneWriter
  <2>. QED BY <1>7, <2>3 DEF PutFrame
<1>. QED BY <1>5, <1>6, <1>7, ConsumerSteps

\* A provider that behaves has done so before.
LEMMA BehavedBefore ==
  ASSUME Inv, [Next]_vars, Behaves'
  PROVE  Behaves
<1>1. process = "running" BY ProcessOf DEF Behaves
<1>2. ASSUME NEW s \in Streams, call[s] = "failed" PROVE s \notin due
  <2>1. call'[s] = "failed" BY <1>2, CallOf DEF Inv
  <2>. QED BY <2>1, DueGrows DEF Behaves
<1>. QED BY <1>1, <1>2 DEF Behaves

\* Every step keeps ConsumerSurvives.
LEMMA SurvivesStep ==
  ASSUME Inv, ConsumerSurvives, [Next]_vars
  PROVE  ConsumerSurvives'
<1>1. ASSUME Behaves' PROVE ~crashed'
  <2>1. Behaves BY <1>1, BehavedBefore
  <2>2. ~crashed BY <2>1 DEF ConsumerSurvives
  <2>. QED BY <1>1, <2>1, <2>2, NoPanic
<1>. QED BY <1>1 DEF ConsumerSurvives

\* A plugin that consumes streams does not fall while the provider runs and answers
\* its calls in time: no send on a closed channel and no second close, in Host.Serve,
\* the goroutine of an overflown stream, and CommandStream.
THEOREM Survival == Spec => []ConsumerSurvives
<1>1. Init => ConsumerSurvives BY DEF Init, ConsumerSurvives
<1>. QED BY <1>1, StreamsInvariance, SurvivesStep, PTL DEF Spec

=============================================================================
